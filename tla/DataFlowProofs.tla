---------------------------- MODULE DataFlowProofs ----------------------------
(***************************************************************************)
(* Proof that DataInv is inductive: the values in flight are those the     *)
(* sequential machine will have.                                           *)
(***************************************************************************)
EXTENDS DataFlow, ProgramOrderProofs

-----------------------------------------------------------------------------
(* What an instruction keeps from one step to the next                     *)

(* The l-th instruction of Q is the k-th of P: it sees, and waits for,     *)
(* what it did, as far as it waits for nodes of N.                         *)
Follows(P, g, k, Q, h, l, N) ==
  /\ Q[l].node = P[k].node
  /\ Q[l].e.inst = P[k].e.inst /\ Q[l].e.pc = P[k].e.pc
  /\ \A r \in Regs : \A v : Sees(P, g, k, r, v) => Sees(Q, h, l, r, v)
  /\ \A r \in Regs : \A n \in N : AwaitsWriter(P, k, r, n) => AwaitsWriter(Q, l, r, n)

(* An operand stays or takes the result of the writer it waited for.       *)
Waits(op, N) == op.tag = "Rob" => op.idx \in N

Moves(op, op2, Q, l) ==
  \/ op2 = op
  \/ /\ op.tag = "Rob" /\ op2.tag = "Value" /\ op2.val # NULL
     /\ \A j \in 1 .. l - 1 : Q[j].node = op.idx => Q[j].e.reg_value = op2.val

LEMMA FieldsAreRegs ==
  ASSUME NEW inst \in Instruction
  PROVE  /\ OrZero(inst.rs1) \in Regs /\ OrZero(inst.rs2) \in Regs /\ OrZero(inst.rd) \in Regs
         /\ inst.rs2 # NULL => inst.rs2 = OrZero(inst.rs2)
BY InstructionFields, RegFacts DEF OrZero

LEMMA CarriesOn ==
  ASSUME NEW P, NEW g, NEW k, NEW Q, NEW h, NEW l, NEW N, Follows(P, g, k, Q, h, l, N),
         NEW r \in Regs, NEW op, NEW op2, Carries(P, g, k, r, op), Waits(op, N),
         Moves(op, op2, Q, l)
  PROVE  Carries(Q, h, l, r, op2)
<1>1. CASE op2 = op
  BY <1>1 DEF Carries, Waits, Follows
<1>2. CASE op2 # op
  <2>1. /\ op.tag = "Rob" /\ op2.tag = "Value" /\ op2.val # NULL
        /\ \A j \in 1 .. l - 1 : Q[j].node = op.idx => Q[j].e.reg_value = op2.val
    BY <1>2 DEF Moves
  <2>2. AwaitsWriter(Q, l, r, op.idx)
    BY <2>1 DEF Carries, Waits, Follows
  <2>3. Sees(Q, h, l, r, op2.val)
    BY <2>1, <2>2 DEF AwaitsWriter, Sees, LastWriter
  <2> QED BY <2>1, <2>3 DEF Carries
<1> QED BY <1>1, <1>2

LEMMA LeftRightOn ==
  ASSUME NEW P, NEW g, NEW k, NEW Q, NEW h, NEW l, NEW N, Follows(P, g, k, Q, h, l, N),
         P[k].e.inst \in Instruction
  PROVE  /\ \A a : LeftIs(P, g, k, a) => LeftIs(Q, h, l, a)
         /\ \A b : RightIs(P, g, k, b) => RightIs(Q, h, l, b)
<1>1. /\ OrZero(P[k].e.inst.rs1) \in Regs
      /\ P[k].e.inst.rs2 # NULL => P[k].e.inst.rs2 \in Regs
  BY FieldsAreRegs
<1>2. Q[l].e.inst = P[k].e.inst /\ Q[l].e.pc = P[k].e.pc
  BY DEF Follows
<1>3. FixedLeft(Q[l].e) = FixedLeft(P[k].e) /\ FixedRight(Q[l].e) = FixedRight(P[k].e)
  BY <1>2 DEF FixedLeft, FixedRight
<1>4. ASSUME NEW a, LeftIs(P, g, k, a) PROVE LeftIs(Q, h, l, a)
  BY <1>1, <1>2, <1>3, <1>4 DEF LeftIs, Follows
<1>5. ASSUME NEW b, RightIs(P, g, k, b) PROVE RightIs(Q, h, l, b)
  BY <1>1, <1>2, <1>3, <1>5 DEF RightIs, ReadsRight, Follows
<1> QED BY <1>4, <1>5

LEMMA ComputedOn ==
  ASSUME NEW P, NEW g, NEW k, NEW Q, NEW h, NEW l, NEW N, Follows(P, g, k, Q, h, l, N),
         P[k].e.inst \in Instruction, NEW v, Computed(P, g, k, v)
  PROVE  Computed(Q, h, l, v)
<1>1. Q[l].e.inst = P[k].e.inst
  BY DEF Follows
<1> QED BY <1>1, LeftRightOn DEF Computed

LEMMA AimsOn ==
  ASSUME NEW P, NEW g, NEW k, NEW Q, NEW h, NEW l, NEW N, Follows(P, g, k, Q, h, l, N),
         P[k].e.inst \in Instruction, NEW a, Aims(P, g, k, a)
  PROVE  Aims(Q, h, l, a)
<1>1. Q[l].e.inst = P[k].e.inst /\ OrZero(P[k].e.inst.rs1) \in Regs
  BY FieldsAreRegs DEF Follows
<1> QED BY <1>1 DEF Aims, Follows

LEMMA CombinedOn ==
  ASSUME NEW P, NEW g, NEW k, NEW Q, NEW h, NEW l, NEW N, Follows(P, g, k, Q, h, l, N),
         P[k].e.inst \in Instruction, NEW old, NEW op, Combined(P, g, k, old, op)
  PROVE  Combined(Q, h, l, old, op)
<1>1. Q[l].e.inst = P[k].e.inst /\ OrZero(P[k].e.inst.rs2) \in Regs
  BY FieldsAreRegs DEF Follows
<1> QED BY <1>1 DEF Combined, Follows

(* A general unit's entry: its operands move, and it may finish.           *)
Computes(s) ==
  /\ IsValue(s.op1) /\ IsValue(s.op2) /\ s.op1.val \in Word /\ s.op2.val \in Word
  /\ ~AluPanics(s.function, s.op1.val, s.op2.val)

UnitMoves(s, t, Q, l, N) ==
  /\ t.function = s.function
  /\ Waits(s.op1, N) /\ Waits(s.op2, N)
  /\ Moves(s.op1, t.op1, Q, l) /\ Moves(s.op2, t.op2, Q, l)
  /\ t.status = "Finished" =>
       \/ s.status = "Finished" /\ t.value = s.value
       \/ Computes(s) /\ t.value = Alu(s.function, s.op1.val, s.op2.val)

LEMMA LeftRightCarriedOn ==
  ASSUME NEW P, NEW g, NEW k, NEW Q, NEW h, NEW l, NEW N, Follows(P, g, k, Q, h, l, N),
         P[k].e.inst \in Instruction, NEW op, NEW op2, Waits(op, N), Moves(op, op2, Q, l)
  PROVE  /\ LeftCarried(P, g, k, op) => LeftCarried(Q, h, l, op2)
         /\ RightCarried(P, g, k, op) => RightCarried(Q, h, l, op2)
<1>1. /\ OrZero(P[k].e.inst.rs1) \in Regs
      /\ P[k].e.inst.rs2 # NULL => P[k].e.inst.rs2 \in Regs
  BY FieldsAreRegs
<1>2. Q[l].e.inst = P[k].e.inst /\ Q[l].e.pc = P[k].e.pc
  BY DEF Follows
<1>3. FixedLeft(Q[l].e) = FixedLeft(P[k].e) /\ FixedRight(Q[l].e) = FixedRight(P[k].e)
  BY <1>2 DEF FixedLeft, FixedRight
<1>4. \A v : op = Value(v) => op2 = op
  BY DEF Moves, Value
<1>5. ASSUME LeftCarried(P, g, k, op) PROVE LeftCarried(Q, h, l, op2)
  <2>1. CASE ReadsLeft(P[k].e.inst)
    BY <1>1, <1>2, <1>5, <2>1, CarriesOn DEF LeftCarried
  <2>2. CASE ~ReadsLeft(P[k].e.inst)
    BY <1>2, <1>3, <1>4, <1>5, <2>2 DEF LeftCarried
  <2> QED BY <2>1, <2>2
<1>6. ASSUME RightCarried(P, g, k, op) PROVE RightCarried(Q, h, l, op2)
  <2>1. CASE ReadsRight(P[k].e.inst)
    BY <1>1, <1>2, <1>6, <2>1, CarriesOn DEF RightCarried, ReadsRight
  <2>2. CASE ~ReadsRight(P[k].e.inst)
    BY <1>2, <1>3, <1>4, <1>6, <2>2 DEF RightCarried
  <2> QED BY <2>1, <2>2
<1> QED BY <1>5, <1>6

(* An operand that is there is the value the instruction is to use.        *)
LEMMA CarriedIsRight ==
  ASSUME NEW P, NEW g, NEW k, NEW op, IsValue(op)
  PROVE  /\ LeftCarried(P, g, k, op) => LeftIs(P, g, k, op.val)
         /\ RightCarried(P, g, k, op) => RightIs(P, g, k, op.val)
BY DEF LeftCarried, RightCarried, LeftIs, RightIs, Carries, Value

LEMMA UnitComputes ==
  ASSUME NEW P, NEW g, NEW k, NEW s, StationHolds(P, g, k, s), Computes(s)
  PROVE  Computed(P, g, k, Alu(s.function, s.op1.val, s.op2.val))
BY CarriedIsRight DEF StationHolds, Computes, Computed

LEMMA StationHoldsOn ==
  ASSUME NEW P, NEW g, NEW k, NEW Q, NEW h, NEW l, NEW N, Follows(P, g, k, Q, h, l, N),
         P[k].e.inst \in Instruction, NEW s, NEW t, StationHolds(P, g, k, s),
         UnitMoves(s, t, Q, l, N)
  PROVE  StationHolds(Q, h, l, t)
<1>1. t.function = Q[l].e.inst.function
  BY DEF StationHolds, UnitMoves, Follows
<1>2. LeftCarried(Q, h, l, t.op1) /\ RightCarried(Q, h, l, t.op2)
  BY LeftRightCarriedOn DEF StationHolds, UnitMoves
<1>3. ASSUME t.status = "Finished" PROVE Computed(Q, h, l, t.value)
  <2>1. Computed(P, g, k, t.value)
    BY <1>3, UnitComputes DEF UnitMoves, StationHolds
  <2> QED BY <2>1, ComputedOn
<1> QED BY <1>1, <1>2, <1>3 DEF StationHolds

LEMMA ResultOn ==
  ASSUME NEW P, NEW g, NEW k, NEW Q, NEW h, NEW l, NEW N, Follows(P, g, k, Q, h, l, N),
         P[k].e.inst \in Instruction, NEW st, NEW st2, ResultIsComputed(P, g, st, k),
         P[k].node \in DOMAIN st2 => /\ P[k].node \in DOMAIN st
                                     /\ UnitMoves(st[P[k].node], st2[P[k].node], Q, l, N),
         (UsesStation(P[k].e.inst) /\ Q[l].e.reg_value # NULL) =>
           \/ Q[l].e.reg_value = P[k].e.reg_value
           \/ /\ P[k].node \in DOMAIN st
              /\ st[P[k].node].status = "Finished" /\ Q[l].e.reg_value = st[P[k].node].value
  PROVE  ResultIsComputed(Q, h, st2, l)
<1>1. Q[l].node = P[k].node /\ Q[l].e.inst = P[k].e.inst
  BY DEF Follows
<1>2. ASSUME Q[l].node \in DOMAIN st2 PROVE StationHolds(Q, h, l, st2[Q[l].node])
  BY <1>1, <1>2, StationHoldsOn DEF ResultIsComputed
<1>3. ASSUME UsesStation(Q[l].e.inst), Q[l].e.reg_value # NULL
      PROVE  Computed(Q, h, l, Q[l].e.reg_value)
  <2>1. Computed(P, g, k, Q[l].e.reg_value)
    BY <1>1, <1>3 DEF ResultIsComputed, StationHolds
  <2> QED BY <2>1, ComputedOn
<1> QED BY <1>2, <1>3 DEF ResultIsComputed

(* What the address unit computes is the address.                          *)
LEMMA AddressAims ==
  ASSUME NEW P, NEW g, NEW k, NEW a, AddressHolds(P, g, k, a), IsValue(a.op1),
         a.op1.val \in Word, P[k].e.inst.opcode # "Amo"
  PROVE  Aims(P, g, k, Address(a))
BY DEF AddressHolds, Carries, Aims, Address

LEMMA AimedOn ==
  ASSUME NEW P, NEW g, NEW k, NEW Q, NEW h, NEW l, NEW N, Follows(P, g, k, Q, h, l, N),
         P[k].e.inst \in Instruction, NEW op, NEW op2, Aimed(P, g, k, op), Waits(op, N),
         Moves(op, op2, Q, l), IsValue(op2) => op2.val \in Word
  PROVE  Aimed(Q, h, l, op2)
<1>1. OrZero(P[k].e.inst.rs1) \in Regs /\ Q[l].e.inst = P[k].e.inst
  BY FieldsAreRegs DEF Follows
<1>2. CASE op2 = op
  <2>1. IsValue(op) => Aims(Q, h, l, op.val)
    BY AimsOn DEF Aimed
  <2> QED BY <1>1, <1>2, <2>1 DEF Aimed, Waits, Follows
<1>3. CASE op2 # op
  <2>1. op.tag = "Rob" /\ IsValue(op2)
    BY <1>3 DEF Moves, IsValue
  <2>2. /\ P[k].e.inst.opcode = "Amo"
        /\ AwaitsWriter(P, k, OrZero(P[k].e.inst.rs1), op.idx)
    BY <2>1 DEF Aimed
  <2>3. Carries(P, g, k, OrZero(P[k].e.inst.rs1), op)
    BY <2>1, <2>2 DEF Carries, IsValue
  <2>4. Sees(Q, h, l, OrZero(P[k].e.inst.rs1), op2.val)
    BY <1>1, <2>1, <2>3, CarriesOn DEF Carries
  <2>5. Aims(Q, h, l, op2.val)
    BY <1>1, <2>1, <2>2, <2>4 DEF Aims
  <2> QED BY <2>1, <2>5 DEF Aimed, IsValue
<1> QED BY <1>2, <1>3

LEMMA AddressOn ==
  ASSUME NEW P, NEW g, NEW k, NEW Q, NEW h, NEW l, NEW N, Follows(P, g, k, Q, h, l, N),
         P[k].e.inst \in Instruction, NEW ad, NEW ad2, AddressIsAimed(P, g, ad, k),
         P[k].node \in DOMAIN ad2 =>
           /\ P[k].node \in DOMAIN ad
           /\ ad2[P[k].node].imm = ad[P[k].node].imm
           /\ Waits(ad[P[k].node].op1, N)
           /\ Moves(ad[P[k].node].op1, ad2[P[k].node].op1, Q, l),
         IsValue(Q[l].e.addr) => Q[l].e.addr.val \in Word,
         \/ Waits(P[k].e.addr, N) /\ Moves(P[k].e.addr, Q[l].e.addr, Q, l)
         \/ /\ P[k].node \in DOMAIN ad /\ P[k].e.inst.opcode # "Amo"
            /\ IsValue(ad[P[k].node].op1) /\ ad[P[k].node].op1.val \in Word
            /\ Q[l].e.addr = Value(Address(ad[P[k].node]))
  PROVE  AddressIsAimed(Q, h, ad2, l)
<1>1. /\ Q[l].node = P[k].node /\ Q[l].e.inst = P[k].e.inst
      /\ OrZero(P[k].e.inst.rs1) \in Regs
  BY FieldsAreRegs DEF Follows
<1>2. ASSUME Q[l].node \in DOMAIN ad2 PROVE AddressHolds(Q, h, l, ad2[Q[l].node])
  BY <1>1, <1>2, CarriesOn DEF AddressIsAimed, AddressHolds
<1>3. Aimed(Q, h, l, Q[l].e.addr)
  <2>1. CASE Waits(P[k].e.addr, N) /\ Moves(P[k].e.addr, Q[l].e.addr, Q, l)
    BY <2>1, AimedOn DEF AddressIsAimed
  <2>2. CASE /\ P[k].node \in DOMAIN ad /\ P[k].e.inst.opcode # "Amo"
             /\ IsValue(ad[P[k].node].op1) /\ ad[P[k].node].op1.val \in Word
             /\ Q[l].e.addr = Value(Address(ad[P[k].node]))
    <3>1. Aims(P, g, k, Address(ad[P[k].node]))
      BY <2>2, AddressAims DEF AddressIsAimed
    <3> QED BY <2>2, <3>1, AimsOn DEF Aimed, Value
  <2> QED BY <2>1, <2>2
<1> QED BY <1>2, <1>3 DEF AddressIsAimed

-----------------------------------------------------------------------------
(* Instructions a step does not touch                                      *)

LEMMA Untouched ==
  ASSUME NEW P, NEW g, NEW k, NEW Q, NEW h, NEW l, NEW N, Follows(P, g, k, Q, h, l, N),
         P[k].e \in ReorderBufferEntry, Q[l].e = P[k].e,
         l = k \/ k # 1,
         NEW st, NEW st2, NEW ad, NEW ad2, NEW load, NEW load2, NEW m,
         P[k].node \in DOMAIN st2 => /\ P[k].node \in DOMAIN st
                                     /\ st2[P[k].node] = st[P[k].node],
         P[k].node \in DOMAIN ad2 => /\ P[k].node \in DOMAIN ad
                                     /\ ad2[P[k].node] = ad[P[k].node],
         P[k].node \in DOMAIN load <=> P[k].node \in DOMAIN load2,
         P[k].node \in DOMAIN load => load2[P[k].node] = load[P[k].node],
         P[k].node \in DOMAIN st => /\ Waits(st[P[k].node].op1, N)
                                    /\ Waits(st[P[k].node].op2, N),
         P[k].node \in DOMAIN ad => Waits(ad[P[k].node].op1, N),
         P[k].e.inst.opcode \in {"Store", "Amo"} => /\ Waits(P[k].e.addr, N)
                                                    /\ Waits(P[k].e.mem_value, N),
         DataAt(P, g, st, ad, load, m, k)
  PROVE  DataAt(Q, h, st2, ad2, load2, m, l)
<1>1. /\ Q[l].node = P[k].node /\ P[k].e.inst \in Instruction
      /\ OrZero(P[k].e.inst.rs2) \in Regs
      /\ IsValue(P[k].e.addr) => P[k].e.addr.val \in Word
  BY FieldsAreRegs DEF Follows, ReorderBufferEntry, Operand, IsValue
<1>2. ResultIsComputed(Q, h, st2, l)
  BY <1>1, ResultOn DEF DataAt, UnitMoves, Moves
<1>3. AddressIsAimed(Q, h, ad2, l)
  <2>1. Waits(P[k].e.addr, N)
    BY DEF DataAt, AddressIsAimed, Aimed, Waits
  <2> QED BY <1>1, <2>1, AddressOn DEF DataAt, Moves
<1>4. /\ IsLoaded(Q[l], load2) <=> IsLoaded(P[k], load)
      /\ LoadedAs(Q[l], load2) = LoadedAs(P[k], load)
      /\ StoredAt(k, P[k].e) => StoredAt(l, Q[l].e)
  BY <1>1 DEF IsLoaded, LoadedAs, StoredAt
<1>5. LoadIsCurrent(Q, load2, m, l)
  BY <1>4 DEF DataAt, LoadIsCurrent
<1>6. StoreIsRight(Q, h, load2, l)
  <2>1. ASSUME Carries(P, g, k, OrZero(P[k].e.inst.rs2), P[k].e.mem_value),
               Waits(P[k].e.mem_value, N)
        PROVE  Carries(Q, h, l, OrZero(P[k].e.inst.rs2), P[k].e.mem_value)
    <3> DEFINE r == OrZero(P[k].e.inst.rs2)
               op == P[k].e.mem_value
    <3>1. r \in Regs /\ Waits(op, N) /\ Carries(P, g, k, r, op) /\ Moves(op, op, Q, l)
      BY <1>1, <2>1 DEF Moves
    <3> HIDE DEF r, op
    <3>2. Carries(Q, h, l, r, op)
      BY <3>1, CarriesOn
    <3> QED BY <3>2 DEF r, op
  <2> QED BY <1>1, <1>4, <2>1, CombinedOn DEF DataAt, StoreIsRight
<1>7. StoreIsOldest(Q, load2, l)
  BY <1>4 DEF DataAt, StoreIsOldest
<1> QED BY <1>2, <1>3, <1>5, <1>6, <1>7 DEF DataAt

(* Writers keep their place and may get their results.                     *)
LEMMA FollowsInPlace ==
  ASSUME NEW P, NEW g, NEW k \in Nat, NEW Q, NEW N,
         Q[k].node = P[k].node, Q[k].e.inst = P[k].e.inst, Q[k].e.pc = P[k].e.pc,
         \A j \in 1 .. k - 1 :
           /\ Q[j].node = P[j].node /\ Q[j].e.rd = P[j].e.rd
           /\ P[j].e.reg_value # NULL => Q[j].e.reg_value = P[j].e.reg_value
  PROVE  Follows(P, g, k, Q, g, k, N)
<1>1. ASSUME NEW r, NEW j, LastWriter(P, k, r, j) PROVE LastWriter(Q, k, r, j)
  <2>1. j \in 1 .. k - 1 /\ \A i \in j + 1 .. k - 1 : i \in 1 .. k - 1
    BY <1>1 DEF LastWriter
  <2> QED BY <1>1, <2>1 DEF LastWriter
<1>2. ASSUME NEW r, NEW v, Sees(P, g, k, r, v) PROVE Sees(Q, g, k, r, v)
  <2>1. CASE (r = 0 \/ \A j \in 1 .. k - 1 : P[j].e.rd # r) /\ v = g[r]
    BY <2>1 DEF Sees
  <2>2. CASE r # 0 /\ v # NULL /\ \E j \in 1 .. k - 1 : LastWriter(P, k, r, j) /\ P[j].e.reg_value = v
    BY <1>1, <2>2 DEF Sees
  <2> QED BY <1>2, <2>1, <2>2 DEF Sees
<1>3. ASSUME NEW r, NEW n, AwaitsWriter(P, k, r, n) PROVE AwaitsWriter(Q, k, r, n)
  BY <1>1, <1>3 DEF AwaitsWriter
<1> QED BY <1>2, <1>3 DEF Follows

(* The oldest leaves: what was seen in it is seen in the register.         *)
LEMMA FollowsBehind ==
  ASSUME NEW P, NEW g \in [Regs -> Word], NEW Q, NEW l \in Nat \ {0}, NEW N,
         \A j \in 1 .. l : Q[j].node = P[j + 1].node /\ Q[j].e = P[j + 1].e,
         P[1].node \notin N, P[1].e.rd \in Regs,
         P[1].e.rd # 0 => P[1].e.reg_value # NULL
  PROVE  Follows(P, g, l + 1, Q, WriteReg(g, P[1].e.rd, P[1].e.reg_value), l, N)
<1> DEFINE h == WriteReg(g, P[1].e.rd, P[1].e.reg_value)
<1>1. ASSUME NEW r, NEW j, LastWriter(P, l + 1, r, j), j # 1
      PROVE  j - 1 \in 1 .. l - 1 /\ LastWriter(Q, l, r, j - 1)
             /\ Q[j - 1].node = P[j].node /\ Q[j - 1].e = P[j].e
  <2>1. j \in 1 .. l /\ j \in Nat /\ P[j].e.rd = r /\ \A i \in j + 1 .. l : P[i].e.rd # r
    BY <1>1 DEF LastWriter
  <2>2. j - 1 \in 1 .. l - 1 /\ j - 1 \in 1 .. l /\ (j - 1) + 1 = j
    BY <1>1, <2>1
  <2>3. Q[j - 1].node = P[j].node /\ Q[j - 1].e = P[j].e
    BY <2>2
  <2>4. ASSUME NEW i \in (j - 1) + 1 .. l - 1 PROVE Q[i].e.rd # r
    <3>1. i \in 1 .. l /\ i + 1 \in j + 1 .. l
      BY <2>1, <2>4
    <3> QED BY <2>1, <3>1
  <2> QED BY <2>1, <2>2, <2>3, <2>4 DEF LastWriter
<1>2. ASSUME NEW r, NEW j \in 1 .. l - 1 PROVE j \in 1 .. l /\ j + 1 \in 1 .. (l + 1) - 1
  OBVIOUS
<1>3. ASSUME NEW r \in Regs, P[1].e.rd # r \/ r = 0 PROVE h[r] = g[r]
  BY <1>3 DEF WriteReg
<1>4. ASSUME NEW r \in Regs, P[1].e.rd = r, r # 0 PROVE h[r] = P[1].e.reg_value
  BY <1>4 DEF WriteReg
<1> HIDE DEF h
<1>5. 1 \in 1 .. (l + 1) - 1
  OBVIOUS
<1>6. ASSUME NEW r \in Regs, NEW v, Sees(P, g, l + 1, r, v) PROVE Sees(Q, h, l, r, v)
  <2>1. CASE (r = 0 \/ \A j \in 1 .. (l + 1) - 1 : P[j].e.rd # r) /\ v = g[r]
    <3>1. h[r] = g[r]
      BY <1>3, <1>5, <2>1
    <3>2. r = 0 \/ \A j \in 1 .. l - 1 : Q[j].e.rd # r
      BY <1>2, <2>1
    <3> QED BY <2>1, <3>1, <3>2 DEF Sees
  <2>2. CASE r # 0 /\ v # NULL /\ \E j \in 1 .. (l + 1) - 1 :
                                   LastWriter(P, l + 1, r, j) /\ P[j].e.reg_value = v
    <3>1. PICK j \in 1 .. (l + 1) - 1 : LastWriter(P, l + 1, r, j) /\ P[j].e.reg_value = v
      BY <2>2
    <3>2. CASE j # 1
      BY <1>1, <2>2, <3>1, <3>2 DEF Sees
    <3>3. CASE j = 1
      <4>1. P[1].e.rd = r /\ \A i \in 2 .. l : P[i].e.rd # r
        BY <3>1, <3>3 DEF LastWriter
      <4>2. h[r] = v
        BY <1>4, <2>2, <3>1, <3>3, <4>1
      <4>3. ASSUME NEW i \in 1 .. l - 1 PROVE Q[i].e.rd # r
        <5>1. i \in 1 .. l /\ i + 1 \in 2 .. l
          OBVIOUS
        <5> QED BY <4>1, <5>1
      <4> QED BY <4>2, <4>3 DEF Sees
    <3> QED BY <3>2, <3>3
  <2> QED BY <1>6, <2>1, <2>2 DEF Sees
<1>7. ASSUME NEW r \in Regs, NEW n \in N, AwaitsWriter(P, l + 1, r, n)
      PROVE  AwaitsWriter(Q, l, r, n)
  <2>1. PICK j \in 1 .. (l + 1) - 1 : LastWriter(P, l + 1, r, j) /\ P[j].node = n
    BY <1>7 DEF AwaitsWriter
  <2>2. j # 1
    BY <2>1
  <2> QED BY <1>1, <1>7, <2>1, <2>2 DEF AwaitsWriter
<1>8. Q[l].node = P[l + 1].node /\ Q[l].e = P[l + 1].e
  OBVIOUS
<1>9. Follows(P, g, l + 1, Q, h, l, N)
  BY <1>6, <1>7, <1>8 DEF Follows
<1> QED BY <1>9 DEF h

-----------------------------------------------------------------------------
(* The list of the instructions in flight                                  *)

PendingIs ==
  /\ Len(completed) \in Nat /\ retired \in Nat /\ retired <= Len(completed) /\ Len(buf) \in Nat
  /\ Len(Pending) = (Len(completed) - retired) + Len(buf)
  /\ \A k \in 1 .. Len(completed) - retired :
       /\ Pending[k] = completed[retired + k]
       /\ Pending[k].e \in ReorderBufferEntry
  /\ \A i \in Listed :
       /\ Pending[(Len(completed) - retired) + i].node = buf[i]
       /\ Pending[(Len(completed) - retired) + i].e = entry[buf[i]]
       /\ buf[i] \in DOMAIN entry /\ entry[buf[i]] \in ReorderBufferEntry

LEMMA PendingNow == PipelineInv => PendingIs
<1> SUFFICES ASSUME PipelineInv PROVE PendingIs
  OBVIOUS
<1> DEFINE popped == Len(completed) - retired
<1>1. /\ Len(completed) \in Nat /\ retired \in Nat /\ retired <= Len(completed)
      /\ Len(buf) \in Nat
  BY ListFacts
<1>2. /\ popped \in Nat /\ Len(Pending) = popped + Len(buf)
      /\ \A k \in 1 .. popped : Pending[k] = completed[retired + k]
      /\ \A i \in 1 .. Len(buf) : /\ Pending[popped + i].node = buf[i]
                                  /\ Pending[popped + i].e = Ith(i)
  BY PendingFacts
<1>3. ASSUME NEW k \in 1 .. popped PROVE Pending[k].e \in ReorderBufferEntry
  <2>1. retired + k \in 1 .. Len(completed)
    BY <1>1
  <2> QED BY <1>2, <2>1, ListFacts
<1> QED BY <1>1, <1>2, <1>3, ListFacts DEF PendingIs, Listed, Ith

LEMMA PendingNext == PipelineInv' => PendingIs'
<1>1. PipelineInv => PendingIs
  BY PendingNow
<1> QED BY <1>1, PTL

(* Between two commits it is the reorder buffer's list. *)
PendingIsList ==
  /\ Len(buf) \in Nat /\ Len(Pending) = Len(buf)
  /\ completed = <<>>
  /\ \A i \in 1 .. Len(buf) : /\ Pending[i].node = buf[i] /\ Pending[i].e = entry[buf[i]]
                              /\ buf[i] \in DOMAIN entry /\ entry[buf[i]] \in ReorderBufferEntry

LEMMA ListNow == PipelineInv /\ OrderInv /\ stage # "retire" => PendingIsList
<1> SUFFICES ASSUME PipelineInv, OrderInv, stage # "retire" PROVE PendingIsList
  OBVIOUS
<1>1. completed = <<>>
  BY DEF OrderInv, PoppedAreCompleted
<1>2. PendingIs
  BY PendingNow
<1>3. Len(completed) = 0 /\ Len(completed) - retired = 0
  BY <1>1, <1>2 DEF PendingIs
<1>4. \A i \in Listed : (Len(completed) - retired) + i = i
  BY <1>2, <1>3 DEF Listed, PendingIs
<1> QED BY <1>1, <1>2, <1>3, <1>4 DEF PendingIs, PendingIsList, Listed

BetweenCommits == stage # "retire" => PendingIsList

LEMMA ListNext == PipelineInv' /\ OrderInv' => BetweenCommits'
<1>1. PipelineInv /\ OrderInv => BetweenCommits
  BY ListNow DEF BetweenCommits
<1> QED BY <1>1, PTL

(* What waits, waits for a node a unit owes a value.                       *)
LEMMA InFlightWaits ==
  ASSUME PipelineInv, OrderInv, NEW k \in InFlight
  PROVE  LET p == Pending[k] IN
         /\ p.e \in ReorderBufferEntry
         /\ p.node \in DOMAIN station => /\ Waits(station[p.node].op1, Producing)
                                         /\ Waits(station[p.node].op2, Producing)
         /\ p.node \in DOMAIN addresses => Waits(addresses[p.node].op1, Producing)
         /\ p.e.inst.opcode \in {"Store", "Amo"} => /\ Waits(p.e.addr, Producing)
                                                    /\ Waits(p.e.mem_value, Producing)
<1>1. PendingIs
  BY PendingNow
<1>2. /\ \A n \in DOMAIN station : /\ Waits(station[n].op1, Producing)
                                   /\ Waits(station[n].op2, Producing)
      /\ \A n \in DOMAIN addresses : Waits(addresses[n].op1, Producing)
      /\ \A n \in DOMAIN entry : /\ Waits(entry[n].addr, Producing)
                                 /\ Waits(entry[n].mem_value, Producing)
  BY DEF PipelineInv, OperandsAreOwed, Owed, Waits
<1>3. CASE k \in 1 .. Len(completed) - retired
  <2>1. Pending[k] = completed[retired + k] /\ Pending[k].e \in ReorderBufferEntry
    BY <1>1, <1>3 DEF PendingIs
  <2>2. retired + k \in Popped
    BY <1>1, <1>3 DEF PendingIs, Popped
  <2>3. IsCompleted(Pending[k].e)
    BY <2>1, <2>2 DEF OrderInv, PoppedAreCompleted
  <2>4. Pending[k].e.inst.opcode \in {"Store", "Amo"} =>
          IsValue(Pending[k].e.addr) /\ IsValue(Pending[k].e.mem_value)
    BY <2>3 DEF IsCompleted
  <2> QED BY <1>2, <2>1, <2>4 DEF Waits, IsValue
<1>4. CASE k \notin 1 .. Len(completed) - retired
  <2> DEFINE i == k - (Len(completed) - retired)
  <2>1. i \in Listed /\ k = (Len(completed) - retired) + i
    BY <1>1, <1>4 DEF PendingIs, InFlight, Listed
  <2>2. Pending[k].node = buf[i] /\ Pending[k].e = entry[buf[i]]
        /\ buf[i] \in DOMAIN entry /\ entry[buf[i]] \in ReorderBufferEntry
    BY <1>1, <2>1 DEF PendingIs
  <2> QED BY <1>2, <2>2
<1> QED BY <1>3, <1>4

-----------------------------------------------------------------------------
(* Steps that leave the instructions in flight alone                       *)

SamePending ==
  /\ Len(Pending') = Len(Pending)
  /\ \A k \in InFlight : Pending'[k].node = Pending[k].node /\ Pending'[k].e = Pending[k].e

LEMMA PopIsSame ==
  ASSUME PipelineInv, PipelineInv', OrderInv, stage = "commit",
         NEW n \in 0 .. Len(buf), Pops(n)
  PROVE  SamePending
<1>1. PendingIsList /\ PendingIs'
  BY ListNow, PendingNext
<1>2. /\ Len(buf) \in Nat /\ n \in Nat /\ n <= Len(buf)
      /\ Len(completed') = n /\ retired' = 0 /\ Len(buf') = Len(buf) - n
      /\ Len(completed') - retired' = n
  BY <1>1 DEF PendingIsList, Pops
<1>3. Len(Pending') = Len(Pending)
  BY <1>1, <1>2 DEF PendingIs, PendingIsList
<1>4. ASSUME NEW k \in 1 .. Len(buf)
      PROVE  Pending'[k].node = Pending[k].node /\ Pending'[k].e = Pending[k].e
  <2>1. CASE k \in 1 .. n
    <3>1. Pending'[k] = completed'[retired' + k] /\ retired' + k = k
      BY <1>1, <1>2, <2>1 DEF PendingIs
    <3>2. completed'[k] = [node |-> buf[k], e |-> entry[buf[k]]]
      BY <2>1 DEF Pops
    <3> QED BY <1>1, <3>1, <3>2 DEF PendingIsList
  <2>2. CASE k \notin 1 .. n
    <3> DEFINE i == k - n
    <3>1. i \in 1 .. Len(buf) - n /\ k = n + i
      BY <1>2, <2>2
    <3>2. /\ Pending'[n + i].node = buf'[i] /\ Pending'[n + i].e = entry'[buf'[i]]
          /\ buf'[i] \in DOMAIN entry'
      BY <1>1, <1>2, <3>1 DEF PendingIs, Listed
    <3>3. buf'[i] = buf[n + i]
      BY <3>1 DEF Pops
    <3>4. entry'[buf'[i]] = entry[buf'[i]]
      BY <3>2 DEF Pops
    <3> QED BY <1>1, <3>1, <3>2, <3>3, <3>4 DEF PendingIsList
  <2> QED BY <2>1, <2>2
<1> QED BY <1>1, <1>3, <1>4 DEF SamePending, InFlight, PendingIsList

LEMMA DrainIsSame == ASSUME PipelineInv, PipelineInv', Drains PROVE SamePending
<1>1. PendingIs /\ PendingIs'
  BY PendingNow, PendingNext
<1>2. /\ retired = Len(completed) /\ retired' = 0 /\ Len(completed') = 0
      /\ buf' = buf /\ entry' = entry
      /\ Len(completed) - retired = 0 /\ Len(completed') - retired' = 0
  BY <1>1 DEF Drains, PendingIs
<1>3. Len(buf) \in Nat /\ Len(Pending) = Len(buf) /\ Len(Pending') = Len(buf)
  BY <1>1, <1>2 DEF PendingIs
<1>4. ASSUME NEW k \in 1 .. Len(buf)
      PROVE  Pending'[k].node = Pending[k].node /\ Pending'[k].e = Pending[k].e
  <2>1. 0 + k = k
    BY <1>3
  <2> QED BY <1>1, <1>2, <2>1 DEF PendingIs, Listed
<1> QED BY <1>3, <1>4 DEF SamePending, InFlight

LEMMA QuietIsSame == ASSUME PipelineInv, PipelineInv', Quiet PROVE SamePending
<1>1. PendingIs /\ PendingIs'
  BY PendingNow, PendingNext
<1>2. retired' = retired /\ completed' = completed /\ buf' = buf /\ entry' = entry
  BY DEF Quiet
<1> DEFINE popped == Len(completed) - retired
<1>3. /\ popped \in Nat /\ Len(buf) \in Nat
      /\ Len(Pending) = popped + Len(buf) /\ Len(Pending') = popped + Len(buf)
  BY <1>1, <1>2 DEF PendingIs
<1>4. ASSUME NEW k \in 1 .. popped PROVE Pending'[k] = Pending[k]
  BY <1>1, <1>2 DEF PendingIs
<1>5. ASSUME NEW i \in 1 .. Len(buf)
      PROVE  /\ Pending'[popped + i].node = Pending[popped + i].node
             /\ Pending'[popped + i].e = Pending[popped + i].e
  BY <1>1, <1>2 DEF PendingIs, Listed
<1> HIDE DEF popped
<1>6. ASSUME NEW k \in 1 .. popped + Len(buf)
      PROVE  Pending'[k].node = Pending[k].node /\ Pending'[k].e = Pending[k].e
  <2>1. CASE k \in 1 .. popped
    BY <1>4, <2>1
  <2>2. CASE k \notin 1 .. popped
    <3>1. k - popped \in 1 .. Len(buf) /\ popped + (k - popped) = k
      BY <1>3, <2>2
    <3> QED BY <1>5, <3>1
  <2> QED BY <2>1, <2>2
<1> QED BY <1>3, <1>6 DEF SamePending, InFlight

LEMMA StaysRight ==
  ASSUME PipelineInv, OrderInv, ValuesAreRight, SamePending,
         UNCHANGED <<gpr, mem, load_buf, station, addresses>>
  PROVE  ValuesAreRight'
<1>1. ASSUME NEW k \in 1 .. Len(Pending')
      PROVE  DataAt(Pending', gpr', station', addresses', load_buf', mem', k)
  <2>1. k \in InFlight /\ k \in Nat /\ Len(Pending) \in Nat
    BY PendingNow DEF SamePending, InFlight, PendingIs
  <2>2. \A j \in 1 .. k - 1 : j \in InFlight
    BY <2>1 DEF InFlight
  <2>3. Follows(Pending, gpr, k, Pending', gpr, k, Producing)
    BY <2>1, <2>2, FollowsInPlace DEF SamePending
  <2>4. DataAt(Pending, gpr, station, addresses, load_buf, mem, k)
    BY <2>1 DEF ValuesAreRight
  <2>5. Pending'[k].e = Pending[k].e
    BY <2>1 DEF SamePending
  <2> DEFINE P == Pending
             Q == Pending'
             N == Producing
  <2>6. Q[k].e = P[k].e /\ Follows(P, gpr, k, Q, gpr, k, N)
        /\ DataAt(P, gpr, station, addresses, load_buf, mem, k)
    BY <2>3, <2>4, <2>5
  <2>7. /\ P[k].e \in ReorderBufferEntry
        /\ P[k].node \in DOMAIN station => /\ Waits(station[P[k].node].op1, N)
                                           /\ Waits(station[P[k].node].op2, N)
        /\ P[k].node \in DOMAIN addresses => Waits(addresses[P[k].node].op1, N)
        /\ P[k].e.inst.opcode \in {"Store", "Amo"} => /\ Waits(P[k].e.addr, N)
                                                      /\ Waits(P[k].e.mem_value, N)
    BY <2>1, InFlightWaits
  <2> HIDE DEF P, Q, N
  <2>8. DataAt(Q, gpr, station, addresses, load_buf, mem, k)
    BY <2>6, <2>7, Untouched
  <2> QED BY <2>8 DEF Q
<1> QED BY <1>1 DEF ValuesAreRight, InFlight

-----------------------------------------------------------------------------
(* commit                                                                  *)

ShiftedPending ==
  /\ Len(Pending) \in Nat \ {0} /\ Len(Pending') = Len(Pending) - 1
  /\ \A k \in 1 .. Len(Pending') : /\ Pending'[k].node = Pending[k + 1].node
                                   /\ Pending'[k].e = Pending[k + 1].e
  /\ Pending[1] = Current

LEMMA RetireShifts == ASSUME PipelineInv, PipelineInv', RetiresOne PROVE ShiftedPending
<1>1. PendingIs /\ PendingIs'
  BY PendingNow, PendingNext
<1>2. /\ retired' = retired + 1 /\ completed' = completed /\ buf' = buf /\ entry' = entry
      /\ retired < Len(completed)
  BY DEF RetiresOne, Retiring
<1> DEFINE popped == Len(completed) - retired
<1>3. /\ popped \in Nat \ {0} /\ Len(buf) \in Nat
      /\ Len(Pending) = popped + Len(buf)
      /\ Len(completed') - retired' = popped - 1
      /\ retired \in Nat
  BY <1>1, <1>2 DEF PendingIs
<1>4. Len(Pending') = popped - 1 + Len(buf)
  BY <1>1, <1>2, <1>3 DEF PendingIs
<1>5. Pending[1] = Current
  BY <1>1, <1>3 DEF PendingIs, Current
<1>6. ASSUME NEW k \in 1 .. popped - 1 PROVE Pending'[k] = Pending[k + 1]
  <2>1. Pending'[k] = completed'[retired' + k]
    BY <1>1, <1>3, <1>6 DEF PendingIs
  <2>2. k + 1 \in 1 .. popped /\ retired' + k = retired + (k + 1)
    <3>1. k \in 1 .. popped - 1 /\ popped \in Nat /\ retired \in Nat /\ retired' = retired + 1
      BY <1>2, <1>3, <1>6
    <3> HIDE DEF popped
    <3> QED BY <3>1
  <2>3. Pending[k + 1] = completed[retired + (k + 1)]
    BY <1>1, <2>2 DEF PendingIs
  <2> QED BY <1>2, <2>1, <2>2, <2>3
<1>7. ASSUME NEW i \in 1 .. Len(buf)
      PROVE  /\ Pending'[popped - 1 + i].node = Pending[popped + i].node
             /\ Pending'[popped - 1 + i].e = Pending[popped + i].e
  <2>1. /\ Pending[popped + i].node = buf[i] /\ Pending[popped + i].e = entry[buf[i]]
    BY <1>1 DEF PendingIs, Listed
  <2>2. /\ Pending'[(Len(completed') - retired') + i].node = buf'[i]
        /\ Pending'[(Len(completed') - retired') + i].e = entry'[buf'[i]]
    BY <1>1, <1>2 DEF PendingIs, Listed
  <2> QED BY <1>2, <1>3, <2>1, <2>2
<1> HIDE DEF popped
<1>8. ASSUME NEW k \in 1 .. popped - 1 + Len(buf)
      PROVE  Pending'[k].node = Pending[k + 1].node /\ Pending'[k].e = Pending[k + 1].e
  <2>1. CASE k \in 1 .. popped - 1
    BY <1>6, <2>1
  <2>2. CASE k \notin 1 .. popped - 1
    <3>1. /\ k - (popped - 1) \in 1 .. Len(buf) /\ popped - 1 + (k - (popped - 1)) = k
          /\ popped + (k - (popped - 1)) = k + 1
      BY <1>3, <2>2
    <3> QED BY <1>7, <3>1
  <2> QED BY <2>1, <2>2
<1>9. Len(Pending) \in Nat \ {0} /\ Len(Pending') = Len(Pending) - 1
  BY <1>3, <1>4
<1> QED BY <1>4, <1>5, <1>8, <1>9 DEF ShiftedPending

(* The entry that is retired, its node freed and its result known.         *)
LEMMA CurrentIsFree ==
  ASSUME PipelineInv, OrderInv, Retiring
  PROVE  /\ Current.e \in ReorderBufferEntry /\ Current.e.inst \in Instruction
         /\ IsCompleted(Current.e)
         /\ Current.node \notin Producing /\ Current.node \notin DOMAIN addresses
<1>1. retired + 1 \in 1 .. Len(completed) /\ retired + 1 \in Popped
  BY ListFacts DEF Retiring, Popped
<1>2. IsCompleted(Current.e) /\ Current.node \notin DOMAIN entry
  BY <1>1 DEF OrderInv, PoppedAreCompleted, Current
<1> QED BY <1>1, <1>2, ListFacts
        DEF Current, PipelineInv, ProducersAreUnfinished, AddressesAreMissing

LEMMA RetiredRight ==
  ASSUME PipelineInv, PipelineInv', OrderInv, ValuesAreRight, RetiresOne, UNCHANGED mem,
         gpr' = WriteReg(gpr, Current.e.rd, Current.e.reg_value),
         Current.e.rd # 0 => Current.e.reg_value # NULL
  PROVE  ValuesAreRight'
<1>1. ShiftedPending
  BY RetireShifts
<1>2. /\ Current.e.rd \in Regs /\ Current.node \notin Producing
  BY CurrentIsFree DEF RetiresOne, ReorderBufferEntry
<1>3. UNCHANGED <<mem, load_buf, station, addresses>>
  BY DEF RetiresOne
<1>4. gpr \in [Regs -> Word]
  BY DEF PipelineInv, TypeOK
<1>5. ASSUME NEW l \in 1 .. Len(Pending')
      PROVE  DataAt(Pending', gpr', station', addresses', load_buf', mem', l)
  <2> DEFINE P == Pending
             Q == Pending'
             N == Producing
             h == WriteReg(gpr, P[1].e.rd, P[1].e.reg_value)
  <2>1. /\ l \in Nat \ {0} /\ l + 1 \in InFlight /\ l + 1 # 1
        /\ \A j \in 1 .. l : j \in 1 .. Len(Pending')
    BY <1>1 DEF ShiftedPending, InFlight
  <2>2. h = gpr'
    BY <1>1 DEF ShiftedPending
  <2>3. Follows(P, gpr, l + 1, Q, h, l, N)
    <3>1. \A j \in 1 .. l : Q[j].node = P[j + 1].node /\ Q[j].e = P[j + 1].e
      BY <1>1, <2>1 DEF ShiftedPending
    <3>2. /\ P[1].node \notin N /\ P[1].e.rd \in Regs
          /\ P[1].e.rd # 0 => P[1].e.reg_value # NULL
      BY <1>1, <1>2 DEF ShiftedPending
    <3> HIDE DEF P, Q, N
    <3> QED BY <1>4, <2>1, <3>1, <3>2, FollowsBehind
  <2>4. DataAt(P, gpr, station, addresses, load_buf, mem, l + 1)
    BY <2>1 DEF ValuesAreRight
  <2>5. Q[l].e = P[l + 1].e
    BY <1>1 DEF ShiftedPending
  <2>6. LET p == P[l + 1] IN
        /\ p.e \in ReorderBufferEntry
        /\ p.node \in DOMAIN station => /\ Waits(station[p.node].op1, N)
                                        /\ Waits(station[p.node].op2, N)
        /\ p.node \in DOMAIN addresses => Waits(addresses[p.node].op1, N)
        /\ p.e.inst.opcode \in {"Store", "Amo"} => /\ Waits(p.e.addr, N)
                                                   /\ Waits(p.e.mem_value, N)
    BY <2>1, InFlightWaits
  <2> HIDE DEF P, Q, N, h
  <2> DEFINE k == l + 1
  <2>7. /\ Follows(P, gpr, k, Q, h, l, N) /\ k # 1 /\ Q[l].e = P[k].e
        /\ DataAt(P, gpr, station, addresses, load_buf, mem, k)
        /\ P[k].e \in ReorderBufferEntry
        /\ P[k].node \in DOMAIN station => /\ Waits(station[P[k].node].op1, N)
                                           /\ Waits(station[P[k].node].op2, N)
        /\ P[k].node \in DOMAIN addresses => Waits(addresses[P[k].node].op1, N)
        /\ P[k].e.inst.opcode \in {"Store", "Amo"} => /\ Waits(P[k].e.addr, N)
                                                      /\ Waits(P[k].e.mem_value, N)
    BY <2>1, <2>3, <2>4, <2>5, <2>6
  <2> HIDE DEF k
  <2>8. DataAt(Q, h, station, addresses, load_buf, mem, l)
    BY <2>7, Untouched
  <2> QED BY <1>3, <2>2, <2>8 DEF Q
<1> QED BY <1>5 DEF ValuesAreRight, InFlight

LEMMA TextStays ==
  ASSUME TextIsFetched, UNCHANGED code,
         \A l \in 1 .. Len(Pending') : \E k \in InFlight :
           /\ Pending'[l].e.pc = Pending[k].e.pc /\ Pending'[l].e.inst = Pending[k].e.inst
           /\ Pending'[l].e.rd = Pending[k].e.rd
  PROVE  TextIsFetched'
<1>1. ASSUME NEW l \in 1 .. Len(Pending')
      PROVE  /\ Pending'[l].e.pc \in DOMAIN code'
             /\ Pending'[l].e.inst = IF code'[Pending'[l].e.pc].opcode \in FpOpcodes THEN Nop
                                     ELSE code'[Pending'[l].e.pc]
             /\ Pending'[l].e.rd = OrZero(Pending'[l].e.inst.rd)
  BY DEF TextIsFetched, FetchedAt, PendingAt
<1> QED BY <1>1 DEF TextIsFetched, FetchedAt, PendingAt, InFlight

(* What has its result has left the units. *)
LEMMA ResultHasLeft ==
  ASSUME PipelineInv, OrderInv, NEW k \in InFlight, Pending[k].e.reg_value # NULL
  PROVE  Pending[k].node \notin Producing
<1>1. PendingIs
  BY PendingNow
<1>2. \A n \in Producing : n \in DOMAIN entry /\ entry[n].reg_value = NULL
  BY DEF PipelineInv, ProducersAreUnfinished
<1>3. CASE k \in 1 .. Len(completed) - retired
  <2>1. Pending[k] = completed[retired + k] /\ retired + k \in Popped
    BY <1>1, <1>3 DEF PendingIs, Popped
  <2> QED BY <1>2, <2>1 DEF OrderInv, PoppedAreCompleted
<1>4. CASE k \notin 1 .. Len(completed) - retired
  <2> DEFINE i == k - (Len(completed) - retired)
  <2>1. i \in Listed /\ k = (Len(completed) - retired) + i
    BY <1>1, <1>4 DEF PendingIs, InFlight, Listed
  <2>2. Pending[k].node = buf[i] /\ Pending[k].e = entry[buf[i]]
    BY <1>1, <2>1 DEF PendingIs
  <2> QED BY <1>2, <2>2
<1> QED BY <1>3, <1>4

(* A load that failed has not stored. *)
LEMMA FailedIsRecorded ==
  ASSUME PipelineInv, OrderInv, NEW k \in InFlight, HasStored(Pending[k].e),
         IsLoaded(Pending[k], load_buf)
  PROVE  LoadedAs(Pending[k], load_buf) = Pending[k].e.reg_value
         /\ LoadedAs(Pending[k], load_buf) # NULL
<1>1. Pending[k].e.inst.opcode = "Amo" /\ Pending[k].e.mem_exception = "Ok"
  BY DEF HasStored, IsLoaded, UsesLoadBuffer, IsStoring
<1>2. Pending[k].e.reg_value # NULL
  BY <1>1 DEF HasStored, IsCompleted
<1>3. Pending[k].node \notin DOMAIN load_buf
  BY <1>2, ResultHasLeft DEF Producing
<1> QED BY <1>1, <1>2, <1>3 DEF LoadedAs

LEMMA StoredIsOldest ==
  ASSUME PipelineInv, OrderInv, ValuesAreRight, NEW k \in InFlight, HasStored(Pending[k].e)
  PROVE  k = 1
<1>1. IsStoring(Pending[k].e.inst) /\ Pending[k].e.mem_rem_cycle = 0
  BY DEF HasStored, IsStoring, IsCompleted
<1>2. StoreIsOldest(Pending, load_buf, k)
  BY DEF ValuesAreRight, DataAt
<1> QED BY <1>1, <1>2, FailedIsRecorded DEF StoreIsOldest, StoredAt

LEMMA SameText == ASSUME SamePending, TextIsFetched, UNCHANGED code PROVE TextIsFetched'
<1>1. ASSUME NEW l \in 1 .. Len(Pending')
      PROVE  \E k \in InFlight : /\ Pending'[l].e.pc = Pending[k].e.pc
                                 /\ Pending'[l].e.inst = Pending[k].e.inst
                                 /\ Pending'[l].e.rd = Pending[k].e.rd
  <2>1. l \in InFlight
    BY DEF SamePending, InFlight
  <2> QED BY <2>1 DEF SamePending
<1> QED BY <1>1, TextStays

LEMMA QuietKeepsData ==
  ASSUME PipelineInv, PipelineInv', OrderInv, DataInv, Quiet, UNCHANGED <<code, gpr, mem>>
  PROVE  DataInv'
<1>1. SamePending
  BY QuietIsSame
<1>2. TextIsFetched'
  BY <1>1, SameText DEF DataInv
<1>3. ValuesAreRight'
  BY <1>1, StaysRight DEF DataInv, Quiet
<1>4. StoresLeave' /\ EcallEndsCommit'
  BY DEF DataInv, Quiet, StoresLeave, EcallEndsCommit, Listed, Ith
<1> QED BY <1>2, <1>3, <1>4 DEF DataInv

LEMMA DrainKeepsData ==
  ASSUME PipelineInv, PipelineInv', OrderInv, DataInv, CommitDone PROVE DataInv'
<1>1. Drains /\ UNCHANGED <<code, gpr, mem>>
  BY CommitDoneDrains DEF CommitDone, regVars
<1>2. SamePending
  BY <1>1, DrainIsSame
<1>3. TextIsFetched'
  BY <1>1, <1>2, SameText DEF DataInv
<1>4. ValuesAreRight'
  BY <1>1, <1>2, StaysRight DEF DataInv, Drains
<1>5. StoresLeave' /\ EcallEndsCommit'
  BY <1>1 DEF DataInv, Drains, StoresLeave, EcallEndsCommit, Listed, Ith
<1> QED BY <1>3, <1>4, <1>5 DEF DataInv

LEMMA PopKeepsData ==
  ASSUME PipelineInv, PipelineInv', OrderInv, DataInv, PopCompleted PROVE DataInv'
<1>1. PICK n \in 0 .. Len(buf) : Pops(n)
  BY PopCompletedPops
<1>2. stage = "commit" /\ UNCHANGED <<code, gpr, mem, load_buf, station, addresses>>
  BY DEF PopCompleted, At, regVars, rsVars
<1>3. SamePending
  BY <1>1, <1>2, PopIsSame
<1>4. TextIsFetched'
  BY <1>2, <1>3, SameText DEF DataInv
<1>5. ValuesAreRight'
  BY <1>2, <1>3, StaysRight DEF DataInv
<1>6. PendingIsList
  BY <1>2, ListNow
<1>7. /\ Len(buf) \in Nat /\ n \in Nat /\ n <= Len(buf) /\ Len(buf') = Len(buf) - n
      /\ Len(completed') = n
  BY <1>1, <1>6 DEF PendingIsList, Pops
<1>8. n < Len(buf) => ~IsCompleted(entry[buf[n + 1]])
  <2>1. PICK m \in 0 .. Len(buf) :
          /\ IsCompletedPrefix(buf, entry, m)
          /\ completed' = [k \in 1 .. m |-> [node |-> buf[k], e |-> entry[buf[k]]]]
    BY DEF PopCompleted
  <2>2. m = n
    BY <1>7, <2>1
  <2> QED BY <2>1, <2>2 DEF IsCompletedPrefix
<1>9. StoresLeave'
  <2>1. ASSUME NEW i \in 1 .. Len(buf') PROVE ~HasStored(entry'[buf'[i]])
    <3>1. n + i \in 1 .. Len(buf) /\ i \in 1 .. Len(buf) - n
      BY <1>7, <2>1
    <3>2. buf'[i] = buf[n + i] /\ buf'[i] \in DOMAIN entry'
      BY <1>1, <3>1, ListFacts DEF Pops, PipelineInv, BufferIsLive
    <3>3. entry'[buf'[i]] = entry[buf[n + i]]
      BY <1>1, <3>2 DEF Pops
    <3>4. CASE n + i = 1
      <4>1. n + i = n + 1 /\ n < Len(buf)
        BY <1>7, <3>4
      <4> QED BY <1>8, <3>3, <4>1 DEF HasStored
    <3>5. CASE n + i # 1
      <4>1. n + i \in InFlight /\ Pending[n + i].e = entry[buf[n + i]]
        BY <1>6, <3>1 DEF InFlight, PendingIsList
      <4> QED BY <3>3, <3>5, <4>1, StoredIsOldest DEF DataInv
    <3> QED BY <3>4, <3>5
  <2> QED BY <2>1 DEF StoresLeave, Listed, Ith
<1>10. EcallEndsCommit'
  <2>1. ASSUME NEW k \in 1 .. Len(completed'), IsEcall(completed'[k].e)
        PROVE  k = Len(completed') /\ buf' = <<>>
    <3>1. k \in 1 .. n /\ k \in Listed /\ completed'[k].e = Ith(k)
      BY <1>1, <1>7, <2>1 DEF Pops, Listed, Ith
    <3>2. k = Len(buf)
      BY <2>1, <3>1 DEF OrderInv, EcallsAreLast
    <3>3. k = n /\ Len(buf') = 0
      BY <1>7, <3>1, <3>2
    <3>4. buf' \in Seq(Nodes)
      BY DEF PipelineInv, TypeOK
    <3> QED BY <1>7, <3>3, <3>4, EmptySeq
  <2> QED BY <2>1 DEF EcallEndsCommit, IsEcall
<1> QED BY <1>4, <1>5, <1>9, <1>10 DEF DataInv

LEMMA ShiftedText == ASSUME ShiftedPending, TextIsFetched, UNCHANGED code PROVE TextIsFetched'
<1>1. ASSUME NEW l \in 1 .. Len(Pending')
      PROVE  \E k \in InFlight : /\ Pending'[l].e.pc = Pending[k].e.pc
                                 /\ Pending'[l].e.inst = Pending[k].e.inst
                                 /\ Pending'[l].e.rd = Pending[k].e.rd
  <2>1. l + 1 \in InFlight
    BY DEF ShiftedPending, InFlight
  <2> QED BY <2>1 DEF ShiftedPending
<1> QED BY <1>1, TextStays

(* Branches and stores write no register. *)
LEMMA CurrentWrites ==
  ASSUME PipelineInv, OrderInv, TextIsFetched, Retiring,
         \/ IsBranch(Current.e) \/ Current.e.reg_value = NULL
  PROVE  Current.e.rd = 0
<1>1. PendingIs
  BY PendingNow
<1>2. /\ retired + 1 \in 1 .. Len(completed) /\ 1 \in 1 .. Len(completed) - retired
      /\ 1 \in InFlight
  BY <1>1 DEF Retiring, PendingIs, InFlight
<1>3. Pending[1] = Current
  BY <1>1, <1>2 DEF PendingIs, Current
<1>4. Current.e.rd = OrZero(Current.e.inst.rd)
  BY <1>2, <1>3 DEF TextIsFetched, PendingAt
<1>5. Current.e.inst \in Instruction /\ IsCompleted(Current.e)
  BY CurrentIsFree
<1>6. Current.e.inst.opcode \in {"Branch", "Store"}
  BY <1>5 DEF IsBranch, IsCompleted
<1> QED BY <1>4, <1>5, <1>6, InstructionFields DEF OrZero

LEMMA RetireKeepsData ==
  ASSUME PipelineInv, PipelineInv', OrderInv, DataInv, RetirePredicted \/ RetireValue
  PROVE  DataInv'
<1>1. RetiresOne /\ Retiring /\ UNCHANGED <<code, mem>>
  BY RetireKeeps DEF RetirePredicted, RetireValue
<1>2. ShiftedPending
  BY <1>1, RetireShifts
<1>3. TextIsFetched'
  BY <1>1, <1>2, ShiftedText DEF DataInv
<1>4. /\ gpr' = WriteReg(gpr, Current.e.rd, Current.e.reg_value)
      /\ Current.e.rd # 0 => Current.e.reg_value # NULL
  <2>1. CASE RetirePredicted
    <3>1. Current.e.rd = 0
      BY <1>1, <2>1, CurrentWrites DEF DataInv, RetirePredicted
    <3> QED BY <2>1, <3>1 DEF RetirePredicted, WriteReg, regVars
  <2>2. CASE RetireValue /\ Current.e.reg_value = NULL
    <3>1. Current.e.rd = 0
      BY <1>1, <2>2, CurrentWrites DEF DataInv
    <3> QED BY <2>2, <3>1 DEF RetireValue, WriteReg
  <2>3. CASE RetireValue /\ Current.e.reg_value # NULL
    BY <2>3 DEF RetireValue
  <2> QED BY <2>1, <2>2, <2>3
<1>5. ValuesAreRight'
  BY <1>1, <1>4, RetiredRight DEF DataInv
<1>6. StoresLeave' /\ EcallEndsCommit'
  BY <1>1 DEF DataInv, RetiresOne, StoresLeave, EcallEndsCommit, Listed, Ith
<1> QED BY <1>3, <1>5, <1>6 DEF DataInv

LEMMA NothingInFlight ==
  ASSUME Len(Pending') = 0, Len(buf') = 0,
         \A k \in 1 .. Len(completed') :
           IsEcall(completed'[k].e) => k = Len(completed') /\ buf' = <<>>
  PROVE  DataInv'
<1>1. TextIsFetched' /\ ValuesAreRight' /\ StoresLeave'
  BY DEF TextIsFetched, ValuesAreRight, StoresLeave, InFlight, Listed
<1>2. EcallEndsCommit'
  BY DEF EcallEndsCommit, IsEcall
<1> QED BY <1>1, <1>2 DEF DataInv

LEMMA FlushKeepsData ==
  ASSUME PipelineInv, PipelineInv', OrderInv, DataInv, RetireMispredicted PROVE DataInv'
<1>1. Flushes
  BY MispredictionFlushes
<1>2. PendingIs /\ PendingIs'
  BY PendingNow, PendingNext
<1>3. Len(buf') = 0 /\ Len(completed') - retired' = 0 /\ Len(completed') = retired + 1
  BY <1>1, <1>2 DEF Flushes, PendingIs
<1>4. Len(Pending') = 0
  BY <1>2, <1>3 DEF PendingIs
<1>5. ASSUME NEW k \in 1 .. Len(completed'), IsEcall(completed'[k].e)
      PROVE  k = Len(completed') /\ buf' = <<>>
  <2>1. completed' = SubSeq(completed, 1, retired + 1) /\ retired < Len(completed)
    BY DEF RetireMispredicted, Truncated, Retiring
  <2>2. k \in 1 .. retired + 1 /\ k \in 1 .. Len(completed)
    <3>1. retired \in Nat /\ Len(completed) \in Nat /\ k \in 1 .. retired + 1
      BY <1>2, <1>3, <1>5 DEF PendingIs
    <3> QED BY <2>1, <3>1
  <2>3. completed'[k] = completed[k]
    <3>1. completed \in Seq([node : Nodes, e : ReorderBufferEntry]) /\ retired \in Nat
      BY <1>2 DEF PipelineInv, TypeOK, PendingIs
    <3> QED BY <2>1, <2>2, <3>1
  <2>4. k = Len(completed)
    BY <1>5, <2>2, <2>3 DEF DataInv, EcallEndsCommit, IsEcall
  <2> QED BY <1>1, <1>2, <1>3, <2>1, <2>2, <2>4 DEF Flushes, PendingIs
<1> QED BY <1>3, <1>4, <1>5, NothingInFlight

(* A system call retires last. *)
LEMMA EcallEmpties ==
  ASSUME PipelineInv, PipelineInv', OrderInv, RetireEcall
  PROVE  /\ Len(Pending) = 1 /\ Len(Pending') = 0 /\ Len(buf') = 0
         /\ retired + 1 = Len(completed) /\ ShiftedPending
<1>1. RetiresOne /\ Retiring
  BY RetireKeeps DEF RetireEcall
<1>2. PendingIs /\ PendingIs' /\ ShiftedPending
  BY <1>1, PendingNow, PendingNext, RetireShifts
<1>3. retired + 1 \in Popped
  BY <1>1, <1>2 DEF Retiring, Popped, PendingIs
<1>4. retired + 1 = Len(completed) /\ buf = <<>>
  BY <1>3 DEF RetireEcall, Current, OrderInv, EcallsAreLast
<1>5. /\ Len(buf) = 0 /\ Len(buf') = 0 /\ Len(completed) - retired = 1
      /\ Len(completed') - retired' = 0
  BY <1>1, <1>2, <1>4 DEF RetiresOne, PendingIs
<1>6. Len(Pending) = 1 /\ Len(Pending') = 0
  BY <1>2, <1>5 DEF PendingIs
<1> QED BY <1>2, <1>4, <1>5, <1>6

LEMMA EcallKeepsData ==
  ASSUME PipelineInv, PipelineInv', OrderInv, DataInv, RetireEcall PROVE DataInv'
<1>1. RetiresOne
  BY RetireKeeps
<1>2. ASSUME NEW k \in 1 .. Len(completed'), IsEcall(completed'[k].e)
      PROVE  k = Len(completed') /\ buf' = <<>>
  BY <1>1, <1>2 DEF RetiresOne, DataInv, EcallEndsCommit, IsEcall
<1> QED BY <1>2, EcallEmpties, NothingInFlight

-----------------------------------------------------------------------------
(* issue                                                                   *)

(* What issue reads of a register is what the instruction it appends is to *)
(* see, or the last writer of it.                                          *)
LEMMA ReadsAreRight ==
  ASSUME PipelineInv, OrderInv, stage # "retire", NEW Q, NEW ent,
         \A n \in DOMAIN entry : ent[n] = entry[n],
         \A k \in InFlight : Q[k].node = Pending[k].node /\ Q[k].e = Pending[k].e,
         NEW r \in Regs
  PROVE  Carries(Q, gpr, Len(Pending) + 1, r, GetRegValue(regs, ent, r))
<1> DEFINE n == Len(buf)
           op == GetRegValue(regs, ent, r)
           writers == {i \in 1 .. n : Ith(i).rd = r}
<1>1. /\ n \in Nat /\ Len(Pending) = n /\ (n + 1) - 1 = n
      /\ \A i \in 1 .. n : Q[i].node = buf[i] /\ Q[i].e = Ith(i) /\ buf[i] \in DOMAIN entry
  BY ListNow DEF PendingIsList, InFlight, Ith
<1>2. r # 0 => related_rob[r] = NULL \/ \E i \in 1 .. n : related_rob[r] = buf[i] /\ Ith(i).rd = r
  BY ListFacts DEF PipelineInv, RenamesAreWriters, Renames, Writes, Ith
<1>3. op = IF related_rob[r] = NULL THEN Value(gpr[r])
           ELSE IF ent[related_rob[r]].reg_value # NULL THEN Value(ent[related_rob[r]].reg_value)
           ELSE Rob(related_rob[r])
  BY DEF GetRegValue, regs
<1>4. ASSUME r = 0 \/ writers = {} PROVE Carries(Q, gpr, n + 1, r, op)
  <2>1. op = Value(gpr[r])
    BY <1>2, <1>3, <1>4 DEF PipelineInv, RenamesAreWriters
  <2>2. r = 0 \/ \A j \in 1 .. n : Q[j].e.rd # r
    BY <1>1, <1>4
  <2> QED BY <1>1, <2>1, <2>2 DEF Carries, Sees, Value
<1>5. ASSUME r # 0, writers # {} PROVE Carries(Q, gpr, n + 1, r, op)
  <2>1. PICK i \in writers : \A j \in writers : j <= i
    <3>1. writers \in SUBSET Nat /\ \A j \in writers : j <= n
      BY <1>1
    <3> QED BY <1>1, <1>5, <3>1, GreatestElement
  <2>2. i \in 1 .. n /\ Ith(i).rd = r /\ \A j \in i + 1 .. n : Ith(j).rd # r
    <3>1. \A j \in i + 1 .. n : j \in 1 .. n /\ ~(j <= i)
      BY <1>1, <2>1
    <3> QED BY <2>1, <3>1
  <2>3. related_rob[r] = buf[i]
    BY <1>5, <2>2 DEF OrderInv, LastWritersAreNamed, Listed
  <2>4. LastWriter(Q, n + 1, r, i)
    <3>1. \A j \in i + 1 .. n : j \in 1 .. n
      BY <1>1, <2>2
    <3> QED BY <1>1, <2>2, <3>1 DEF LastWriter
  <2>5. buf[i] # NULL
    BY <2>2, ListFacts, NullAssumption
  <2>6. ent[buf[i]] = Ith(i) /\ Q[i].e = Ith(i) /\ Q[i].node = buf[i]
    BY <1>1, <2>2 DEF Ith
  <2>7. i \in 1 .. (n + 1) - 1
    BY <1>1, <2>2
  <2>8. CASE Ith(i).reg_value # NULL
    <3>1. op = Value(Ith(i).reg_value)
      BY <1>3, <2>3, <2>5, <2>6, <2>8
    <3>2. Sees(Q, gpr, n + 1, r, Ith(i).reg_value)
      BY <1>5, <2>4, <2>6, <2>7, <2>8 DEF Sees
    <3> QED BY <3>1, <3>2 DEF Carries, Value
  <2>9. CASE Ith(i).reg_value = NULL
    <3>1. op = Rob(buf[i])
      BY <1>3, <2>3, <2>5, <2>6, <2>9
    <3>2. AwaitsWriter(Q, n + 1, r, buf[i])
      BY <1>5, <2>4, <2>6, <2>7 DEF AwaitsWriter
    <3> QED BY <3>1, <3>2 DEF Carries, Rob, IsValue
  <2> QED BY <2>8, <2>9
<1> QED BY <1>1, <1>4, <1>5

(* The instruction appended, and its entries in the units.                 *)
Prediction(inst) == inst.opcode = "Branch" /\ Predict(branch_map, pc)

Appended(node, inst) ==
  /\ Len(Pending) \in Nat /\ Len(Pending') = Len(Pending) + 1
  /\ \A k \in InFlight : /\ Pending'[k].node = Pending[k].node /\ Pending'[k].e = Pending[k].e
                         /\ Pending[k].node # node
  /\ Pending'[Len(Pending) + 1].node = node
  /\ Pending'[Len(Pending) + 1].e = NewEntry(regs, entry, pc, inst, Prediction(inst))
  /\ \A n \in DOMAIN entry : entry'[n] = entry[n]

Keyed(map2, map, node, present, new) ==
  /\ node \in DOMAIN map2 <=> present
  /\ present => map2[node] = new
  /\ \A n : n # node => /\ n \in DOMAIN map2 <=> n \in DOMAIN map
                        /\ n \in DOMAIN map => map2[n] = map[n]

LEMMA InsertIsKeyed ==
  ASSUME NEW map2, NEW map, NEW node, NEW present \in BOOLEAN, NEW new, node \notin DOMAIN map,
         map2 = IF present THEN Insert(map, node, new) ELSE map
  PROVE  Keyed(map2, map, node, present, new)
BY DEF Keyed, Insert

LEMMA IssueAppends ==
  ASSUME PipelineInv, PipelineInv', OrderInv, OrderInv', Issue
  PROVE  /\ stage # "retire" /\ pc \in DOMAIN code /\ Fetched \in Instruction
         /\ completed = <<>> /\ stage' \in {"issue_second", "commit"}
         /\ UNCHANGED <<code, gpr, mem, completed>>
         /\ \E node : /\ Appended(node, Fetched)
                      /\ Keyed(addresses', addresses, node, UsesAddressUnit(Fetched),
                               NewAddressEntry(regs, entry', Fetched))
                      /\ Keyed(load_buf', load_buf, node, UsesLoadBuffer(Fetched), NewLoad)
                      /\ Keyed(station', station, node, UsesStation(Fetched),
                               NewRSEntry(regs, entry', pc, Fetched))
<1> DEFINE inst == Fetched
           e == NewEntry(regs, entry, pc, inst, Prediction(inst))
<1>1. /\ pc \in DOMAIN code
      /\ stage \in {"issue", "issue_second"} /\ stage' \in {"issue_second", "commit"}
      /\ UNCHANGED <<code, mem, gpr, completed, retired>>
  BY DEF Issue, Fetching, At, loopVars
<1>2. PICK node \in Nodes \ DOMAIN entry :
       /\ buf' = Append(buf, node)
       /\ entry' = Insert(entry, node, e)
       /\ addresses' = IF UsesAddressUnit(inst)
            THEN Insert(addresses, node, NewAddressEntry(regs, entry', inst)) ELSE addresses
       /\ load_buf' = IF UsesLoadBuffer(inst)
            THEN Insert(load_buf, node, NewLoad) ELSE load_buf
       /\ station' = IF UsesStation(inst)
            THEN Insert(station, node, NewRSEntry(regs, entry', pc, inst)) ELSE station
  BY DEF Issue, RegsForUnits, Prediction
<1>3. inst \in Instruction /\ TypeOK
  BY <1>1, FetchedType DEF PipelineInv
<1> HIDE DEF inst, e
<1>4. /\ DOMAIN entry' = DOMAIN entry \cup {node} /\ entry'[node] = e
      /\ \A n \in DOMAIN entry : entry'[n] = entry[n]
  BY <1>2 DEF Insert
<1>5. node \notin Producing /\ node \notin DOMAIN addresses
  BY <1>2 DEF PipelineInv, ProducersAreUnfinished, AddressesAreMissing
<1>6. /\ Keyed(addresses', addresses, node, UsesAddressUnit(inst),
               NewAddressEntry(regs, entry', inst))
      /\ Keyed(load_buf', load_buf, node, UsesLoadBuffer(inst), NewLoad)
      /\ Keyed(station', station, node, UsesStation(inst), NewRSEntry(regs, entry', pc, inst))
  <2>1. /\ node \notin DOMAIN addresses /\ node \notin DOMAIN load_buf
        /\ node \notin DOMAIN station
        /\ UsesAddressUnit(inst) \in BOOLEAN /\ UsesLoadBuffer(inst) \in BOOLEAN
        /\ UsesStation(inst) \in BOOLEAN
    BY <1>5 DEF Producing, UsesAddressUnit, UsesLoadBuffer, UsesStation
  <2> DEFINE a == NewAddressEntry(regs, entry', inst)
             s == NewRSEntry(regs, entry', pc, inst)
  <2>2. /\ addresses' = IF UsesAddressUnit(inst) THEN Insert(addresses, node, a) ELSE addresses
        /\ station' = IF UsesStation(inst) THEN Insert(station, node, s) ELSE station
    BY <1>2
  <2> HIDE DEF a, s
  <2>3. Keyed(addresses', addresses, node, UsesAddressUnit(inst), a)
    BY <2>1, <2>2, InsertIsKeyed
  <2>4. Keyed(load_buf', load_buf, node, UsesLoadBuffer(inst), NewLoad)
    BY <1>2, <2>1, InsertIsKeyed
  <2>5. Keyed(station', station, node, UsesStation(inst), s)
    BY <2>1, <2>2, InsertIsKeyed
  <2> QED BY <2>3, <2>4, <2>5 DEF a, s
<1>7. stage # "retire" /\ stage' # "retire"
  BY <1>1
<1>8. PendingIsList /\ PendingIsList'
  BY <1>7, ListNow, ListNext DEF BetweenCommits
<1>9. /\ Len(buf) \in Nat /\ Len(buf') = Len(buf) + 1 /\ buf'[Len(buf) + 1] = node
      /\ \A i \in 1 .. Len(buf) : buf'[i] = buf[i] /\ buf[i] # node /\ buf[i] \in DOMAIN entry
  BY <1>2, ListFacts
<1>10. \A i \in 1 .. Len(buf) : i \in 1 .. Len(buf')
  BY <1>9
<1>11. Len(buf) + 1 \in 1 .. Len(buf')
  BY <1>9
<1>12. Appended(node, inst)
  <2>1. Len(Pending) = Len(buf) /\ Len(Pending') = Len(buf')
    BY <1>8 DEF PendingIsList
  <2>2. Pending'[Len(buf) + 1].node = node /\ Pending'[Len(buf) + 1].e = e
    BY <1>4, <1>8, <1>9, <1>11 DEF PendingIsList
  <2>3. ASSUME NEW k \in 1 .. Len(buf)
        PROVE  /\ Pending'[k].node = Pending[k].node /\ Pending'[k].e = Pending[k].e
               /\ Pending[k].node # node
    BY <1>4, <1>8, <1>9, <1>10 DEF PendingIsList
  <2> QED BY <1>4, <1>9, <2>1, <2>2, <2>3 DEF Appended, InFlight, e
<1> QED BY <1>1, <1>3, <1>6, <1>7, <1>8, <1>12 DEF inst, PendingIsList

LEMMA NewStationHolds ==
  ASSUME NEW Q, NEW g, NEW l, NEW ent, NEW inst \in Instruction, NEW p, NEW rs,
         Q[l].e.inst = inst, Q[l].e.pc = p,
         \A r \in Regs : Carries(Q, g, l, r, GetRegValue(rs, ent, r))
  PROVE  StationHolds(Q, g, l, NewRSEntry(rs, ent, p, inst))
<1> DEFINE ops == StationOperands(rs, ent, p, inst)
<1>1. /\ OrZero(inst.rs1) \in Regs
      /\ inst.rs2 # NULL => inst.rs2 \in Regs
      /\ inst.opcode \in {"AuiPc", "Lui"} => inst.rs2 = NULL
      /\ NewRSEntry(rs, ent, p, inst).function = inst.function
      /\ NewRSEntry(rs, ent, p, inst).op1 = ops[1] /\ NewRSEntry(rs, ent, p, inst).op2 = ops[2]
      /\ NewRSEntry(rs, ent, p, inst).status = "Wait"
  BY FieldsAreRegs DEF NewRSEntry, Instruction, Decoded, FormatOf, HasRs2
<1>2. LeftCarried(Q, g, l, ops[1]) /\ RightCarried(Q, g, l, ops[2])
  <2>1. CASE inst.opcode \in {"Jal", "Jalr"}
    <3>1. ops = <<Value(p), Value(WordSize)>>
      BY <2>1 DEF StationOperands
    <3> HIDE DEF ops
    <3> QED BY <2>1, <3>1 DEF LeftCarried, RightCarried, ReadsLeft, ReadsRight, FixedLeft, FixedRight
  <2>2. CASE inst.opcode = "AuiPc"
    <3>1. ops = <<Value(p), Value(OrZero(inst.imm))>>
      BY <2>2, InstructionFields, WordFacts DEF StationOperands, OrZero
    <3> HIDE DEF ops
    <3> QED BY <1>1, <2>2, <3>1
            DEF LeftCarried, RightCarried, ReadsLeft, ReadsRight, FixedLeft, FixedRight
  <2>3. CASE inst.opcode = "Lui"
    <3>1. ops = <<Value(0), Value(OrZero(inst.imm))>>
      BY <2>3, InstructionFields, WordFacts DEF StationOperands, OrZero
    <3> HIDE DEF ops
    <3> QED BY <1>1, <2>3, <3>1
            DEF LeftCarried, RightCarried, ReadsLeft, ReadsRight, FixedLeft, FixedRight
  <2>4. CASE inst.opcode = "Amo"
    <3>1. ops = <<Value(0), Value(0)>>
      BY <2>4 DEF StationOperands
    <3> HIDE DEF ops
    <3> QED BY <2>4, <3>1 DEF LeftCarried, RightCarried, ReadsLeft, ReadsRight, FixedLeft, FixedRight
  <2>5. CASE inst.opcode \notin {"Jal", "Jalr", "AuiPc", "Lui", "Amo"}
    <3> DEFINE a == GetRegValue(rs, ent, OrZero(inst.rs1))
               b == IF inst.rs2 # NULL THEN GetRegValue(rs, ent, inst.rs2)
                    ELSE Value(OrZero(inst.imm))
    <3>1. ops = <<a, b>>
      BY <2>5 DEF StationOperands
    <3>2. Carries(Q, g, l, OrZero(inst.rs1), a)
      BY <1>1
    <3>3. IF inst.rs2 # NULL THEN Carries(Q, g, l, inst.rs2, b) ELSE b = Value(OrZero(inst.imm))
      BY <1>1
    <3> HIDE DEF ops, a, b
    <3> QED BY <2>5, <3>1, <3>2, <3>3
            DEF LeftCarried, RightCarried, ReadsLeft, ReadsRight, FixedRight
  <2> QED BY <2>1, <2>2, <2>3, <2>4, <2>5
<1> HIDE DEF ops
<1> QED BY <1>1, <1>2 DEF StationHolds

LEMMA NewIsRight ==
  ASSUME PipelineInv, stage # "retire", NEW Q, NEW g, NEW l, NEW ent,
         NEW inst \in Instruction, NEW prediction \in BOOLEAN,
         \A n \in DOMAIN entry : ent[n] = entry[n],
         Q[l].e = NewEntry(regs, entry, pc, inst, prediction),
         \A r \in Regs : /\ Carries(Q, g, l, r, GetRegValue(regs, ent, r))
                         /\ Carries(Q, g, l, r, GetRegValue(regs, entry, r)),
         NEW st, NEW ad, NEW load, NEW m,
         Q[l].node \in DOMAIN st => st[Q[l].node] = NewRSEntry(regs, ent, pc, inst),
         Q[l].node \in DOMAIN ad => /\ UsesAddressUnit(inst)
                                    /\ ad[Q[l].node] = NewAddressEntry(regs, ent, inst),
         UsesLoadBuffer(inst) => Q[l].node \in DOMAIN load /\ load[Q[l].node] = NewLoad
  PROVE  DataAt(Q, g, st, ad, load, m, l)
<1> DEFINE e == Q[l].e
<1>1. /\ e.inst = inst /\ e.pc = pc /\ e.reg_value = NULL /\ e.mem_rem_cycle = MemCycle
      /\ e.mem_exception = "Ok"
      /\ e.mem_value = IF inst.opcode \in {"Store", "Amo"} THEN GetRegValue(regs, entry, inst.rs2)
                       ELSE NoOperand
      /\ e.addr = IF inst.opcode = "Amo" THEN GetRegValue(regs, entry, inst.rs1) ELSE NoOperand
  BY DEF NewEntry
<1>2. /\ OrZero(inst.rs1) \in Regs
      /\ inst.rs2 # NULL => inst.rs2 \in Regs
      /\ inst.opcode \in {"Store", "Load", "Jalr", "Amo"} => inst.rs1 = OrZero(inst.rs1)
      /\ inst.opcode \in {"Store", "Amo"} => inst.rs2 = OrZero(inst.rs2) /\ inst.rs2 \in Regs
  BY InstructionFields, RegFacts DEF OrZero
<1>3. MemCycle # 0
  BY CycleAssumption
<1>4. e \in ReorderBufferEntry
  BY NewEntryFacts
<1> HIDE DEF e
<1>5. ~IsLoaded(Q[l], load)
  BY <1>1 DEF IsLoaded, NewLoad, e
<1>6. ResultIsComputed(Q, g, st, l)
  <2>1. Q[l].node \in DOMAIN st => StationHolds(Q, g, l, st[Q[l].node])
    BY <1>1, NewStationHolds DEF e
  <2> QED BY <1>1, <2>1 DEF ResultIsComputed, e
<1>7. AddressIsAimed(Q, g, ad, l)
  <2>1. ASSUME Q[l].node \in DOMAIN ad PROVE AddressHolds(Q, g, l, ad[Q[l].node])
    <3>1. /\ ad[Q[l].node].op1 = GetRegValue(regs, ent, OrZero(inst.rs1))
          /\ ad[Q[l].node].imm = OrZero(inst.imm)
      BY <1>2, <2>1 DEF NewAddressEntry, UsesAddressUnit
    <3> QED BY <1>1, <1>2, <3>1 DEF AddressHolds, e
  <2>2. Aimed(Q, g, l, e.addr)
    <3>1. CASE inst.opcode # "Amo"
      BY <1>1, <3>1 DEF Aimed, NoOperand, IsValue
    <3>2. CASE inst.opcode = "Amo"
      <4>1. Carries(Q, g, l, OrZero(inst.rs1), e.addr)
        BY <1>1, <1>2, <3>2
      <4>2. IsValue(e.addr) => e.addr.val \in Word
        BY <1>4, OperandFacts DEF ReorderBufferEntry
      <4> QED BY <1>1, <3>2, <4>1, <4>2 DEF Aimed, Aims, Carries, e
    <3> QED BY <3>1, <3>2
  <2> QED BY <2>1, <2>2 DEF AddressIsAimed, e
<1>8. LoadIsCurrent(Q, load, m, l)
  BY <1>5 DEF LoadIsCurrent
<1>9. StoreIsRight(Q, g, load, l)
  <2>1. inst.opcode \in {"Store", "Amo"} => Carries(Q, g, l, OrZero(inst.rs2), e.mem_value)
    BY <1>1, <1>2
  <2> QED BY <1>1, <1>5, <2>1 DEF StoreIsRight, e
<1>10. StoreIsOldest(Q, load, l)
  BY <1>1, <1>3 DEF StoreIsOldest, e
<1> QED BY <1>6, <1>7, <1>8, <1>9, <1>10 DEF DataAt

LEMMA IssueKeepsValues ==
  ASSUME PipelineInv, OrderInv, ValuesAreRight, stage # "retire", UNCHANGED <<gpr, mem>>,
         NEW inst \in Instruction, NEW node, Appended(node, inst),
         Keyed(addresses', addresses, node, UsesAddressUnit(inst),
               NewAddressEntry(regs, entry', inst)),
         Keyed(load_buf', load_buf, node, UsesLoadBuffer(inst), NewLoad),
         Keyed(station', station, node, UsesStation(inst),
               NewRSEntry(regs, entry', pc, inst))
  PROVE  ValuesAreRight'
<1> DEFINE P == Pending
           Q == Pending'
           N == Producing
           n == Len(P)
<1>1. /\ n \in Nat /\ Len(Q) = n + 1
      /\ \A k \in 1 .. n : Q[k].node = P[k].node /\ Q[k].e = P[k].e /\ P[k].node # node
      /\ Q[n + 1].node = node
      /\ Q[n + 1].e = NewEntry(regs, entry, pc, inst, Prediction(inst))
      /\ \A i \in DOMAIN entry : entry'[i] = entry[i]
  BY DEF Appended, InFlight
<1>2. ASSUME NEW k \in 1 .. n
      PROVE  DataAt(Q, gpr, station', addresses', load_buf', mem, k)
  <2>1. k \in InFlight /\ k \in Nat /\ \A j \in 1 .. k - 1 : j \in 1 .. n
    BY <1>1 DEF InFlight
  <2>2. DataAt(P, gpr, station, addresses, load_buf, mem, k)
    BY <2>1 DEF ValuesAreRight
  <2>3. LET p == P[k] IN
        /\ p.e \in ReorderBufferEntry
        /\ p.node \in DOMAIN station => /\ Waits(station[p.node].op1, N)
                                        /\ Waits(station[p.node].op2, N)
        /\ p.node \in DOMAIN addresses => Waits(addresses[p.node].op1, N)
        /\ p.e.inst.opcode \in {"Store", "Amo"} => /\ Waits(p.e.addr, N)
                                                   /\ Waits(p.e.mem_value, N)
    BY <2>1, InFlightWaits
  <2> HIDE DEF P, Q, N, n
  <2>4. Follows(P, gpr, k, Q, gpr, k, N)
    BY <1>1, <2>1, FollowsInPlace
  <2>5. P[k].node # node /\ Q[k].e = P[k].e
    BY <1>1
  <2>6. /\ P[k].node \in DOMAIN station' => /\ P[k].node \in DOMAIN station
                                            /\ station'[P[k].node] = station[P[k].node]
        /\ P[k].node \in DOMAIN addresses' => /\ P[k].node \in DOMAIN addresses
                                              /\ addresses'[P[k].node] = addresses[P[k].node]
        /\ P[k].node \in DOMAIN load_buf <=> P[k].node \in DOMAIN load_buf'
        /\ P[k].node \in DOMAIN load_buf => load_buf'[P[k].node] = load_buf[P[k].node]
    BY <2>5 DEF Keyed
  <2> DEFINE st2 == station'
             ad2 == addresses'
             load2 == load_buf'
  <2>7. /\ P[k].node \in DOMAIN st2 => /\ P[k].node \in DOMAIN station
                                       /\ st2[P[k].node] = station[P[k].node]
        /\ P[k].node \in DOMAIN ad2 => /\ P[k].node \in DOMAIN addresses
                                       /\ ad2[P[k].node] = addresses[P[k].node]
        /\ P[k].node \in DOMAIN load_buf <=> P[k].node \in DOMAIN load2
        /\ P[k].node \in DOMAIN load_buf => load2[P[k].node] = load_buf[P[k].node]
    BY <2>6
  <2> HIDE DEF st2, ad2, load2
  <2>8. DataAt(Q, gpr, st2, ad2, load2, mem, k)
    BY <2>2, <2>3, <2>4, <2>5, <2>7, Untouched
  <2> QED BY <2>8 DEF st2, ad2, load2
<1>3. DataAt(Q, gpr, station', addresses', load_buf', mem, n + 1)
  <2>1. ASSUME NEW r \in Regs
        PROVE  /\ Carries(Q, gpr, n + 1, r, GetRegValue(regs, entry', r))
               /\ Carries(Q, gpr, n + 1, r, GetRegValue(regs, entry, r))
    <3> DEFINE ent == entry'
    <3>1. \A i \in DOMAIN entry : ent[i] = entry[i]
      BY <1>1
    <3>2. \A k \in InFlight : Q[k].node = Pending[k].node /\ Q[k].e = Pending[k].e
      BY <1>1 DEF InFlight
    <3> HIDE DEF ent, Q
    <3>3. Carries(Q, gpr, Len(Pending) + 1, r, GetRegValue(regs, ent, r))
      BY <3>1, <3>2, ReadsAreRight
    <3>4. Carries(Q, gpr, Len(Pending) + 1, r, GetRegValue(regs, entry, r))
      BY <3>2, ReadsAreRight
    <3> QED BY <3>3, <3>4 DEF ent
  <2> DEFINE st == station'
             ad == addresses'
             load == load_buf'
             ent == entry'
             l == n + 1
  <2>2. /\ Q[l].node \in DOMAIN st => st[Q[l].node] = NewRSEntry(regs, ent, pc, inst)
        /\ Q[l].node \in DOMAIN ad => /\ UsesAddressUnit(inst)
                                      /\ ad[Q[l].node] = NewAddressEntry(regs, ent, inst)
        /\ UsesLoadBuffer(inst) => Q[l].node \in DOMAIN load /\ load[Q[l].node] = NewLoad
    BY <1>1 DEF Keyed
  <2>3. /\ \A i \in DOMAIN entry : ent[i] = entry[i]
        /\ Q[l].e = NewEntry(regs, entry, pc, inst, Prediction(inst))
        /\ Prediction(inst) \in BOOLEAN
    BY <1>1 DEF Prediction, Predict
  <2>4. \A r \in Regs : /\ Carries(Q, gpr, l, r, GetRegValue(regs, ent, r))
                        /\ Carries(Q, gpr, l, r, GetRegValue(regs, entry, r))
    BY <2>1
  <2> HIDE DEF st, ad, load, ent, l, Q
  <2>5. DataAt(Q, gpr, st, ad, load, mem, l)
    BY <2>2, <2>3, <2>4, NewIsRight
  <2> QED BY <2>5 DEF st, ad, load, ent, l, Q
<1>4. \A k \in 1 .. Len(Q) : k \in 1 .. n \/ k = n + 1
  BY <1>1
<1>5. ASSUME NEW k \in 1 .. Len(Pending')
      PROVE  DataAt(Pending', gpr', station', addresses', load_buf', mem', k)
  <2>1. gpr' = gpr /\ mem' = mem
    OBVIOUS
  <2>2. DataAt(Q, gpr, station', addresses', load_buf', mem, k)
    BY <1>2, <1>3, <1>4
  <2> QED BY <2>1, <2>2
<1> QED BY <1>5 DEF ValuesAreRight, InFlight

LEMMA IssueKeepsData ==
  ASSUME PipelineInv, PipelineInv', OrderInv, OrderInv', DataInv, Issue PROVE DataInv'
<1>1. PICK node : /\ Appended(node, Fetched)
                  /\ Keyed(addresses', addresses, node, UsesAddressUnit(Fetched),
                           NewAddressEntry(regs, entry', Fetched))
                  /\ Keyed(load_buf', load_buf, node, UsesLoadBuffer(Fetched), NewLoad)
                  /\ Keyed(station', station, node, UsesStation(Fetched),
                           NewRSEntry(regs, entry', pc, Fetched))
  BY IssueAppends
<1>2. /\ stage # "retire" /\ pc \in DOMAIN code /\ Fetched \in Instruction
      /\ completed = <<>> /\ stage' \in {"issue_second", "commit"}
      /\ UNCHANGED <<code, gpr, mem, completed>>
  BY IssueAppends
<1>3. ValuesAreRight'
  BY <1>1, <1>2, IssueKeepsValues DEF DataInv
<1>4. TextIsFetched'
  <2>1. ASSUME NEW k \in 1 .. Len(Pending')
        PROVE  /\ Pending'[k].e.pc \in DOMAIN code'
               /\ Pending'[k].e.inst = IF code'[Pending'[k].e.pc].opcode \in FpOpcodes THEN Nop
                                       ELSE code'[Pending'[k].e.pc]
               /\ Pending'[k].e.rd = OrZero(Pending'[k].e.inst.rd)
    <3>1. CASE k \in InFlight
      BY <1>1, <1>2, <3>1 DEF Appended, DataInv, TextIsFetched, FetchedAt, PendingAt
    <3>2. CASE k \notin InFlight
      <4>1. k = Len(Pending) + 1
        BY <1>1, <3>2 DEF Appended, InFlight
      <4>2. /\ Pending'[k].e.pc = pc /\ Pending'[k].e.inst = Fetched
            /\ Pending'[k].e.rd = OrZero(Fetched.rd)
        BY <1>1, <4>1 DEF Appended, NewEntry
      <4> QED BY <1>2, <4>2 DEF Fetched
    <3> QED BY <3>1, <3>2
  <2> QED BY <2>1 DEF TextIsFetched, FetchedAt, PendingAt, InFlight
<1>5. StoresLeave' /\ EcallEndsCommit'
  BY <1>2 DEF StoresLeave, EcallEndsCommit
<1> QED BY <1>3, <1>4, <1>5 DEF DataInv

-----------------------------------------------------------------------------
(* write_result                                                            *)

(* An instruction before and after the broadcast of jobs. *)
Broadcast(p, q, jobs) == q.node = p.node /\ Propagated(p.e, q.e, p.node, jobs)

LEMMA Broadcasts ==
  ASSUME PipelineInv, PipelineInv', OrderInv, OrderInv', WriteResult
  PROVE  /\ Len(Pending) \in Nat /\ Len(Pending') = Len(Pending)
         /\ \A k \in InFlight :
              /\ Broadcast(Pending[k], Pending'[k], CompletedJobs(load_buf, station))
              /\ \E i \in Listed : /\ i = k /\ Pending[k].node = buf[i]
                                   /\ Pending[k].e = entry[buf[i]] /\ buf[i] \in DOMAIN entry
<1> DEFINE jobs == CompletedJobs(load_buf, station)
<1>1. /\ stage # "retire" /\ stage' # "retire" /\ buf' = buf
      /\ entry' = Propagate(entry, jobs)
  BY DEF WriteResult, At
<1>2. PendingIsList /\ PendingIsList'
  BY <1>1, ListNow, ListNext DEF BetweenCommits
<1>5. \A n \in DOMAIN entry : Propagated(entry[n], entry'[n], n, jobs)
  BY WriteResultPropagates
<1> HIDE DEF jobs
<1>6. ASSUME NEW k \in InFlight
      PROVE  /\ Broadcast(Pending[k], Pending'[k], jobs)
             /\ \E i \in Listed : /\ i = k /\ Pending[k].node = buf[i]
                                  /\ Pending[k].e = entry[buf[i]] /\ buf[i] \in DOMAIN entry
  <2>1. /\ k \in 1 .. Len(buf) /\ k \in 1 .. Len(buf')
        /\ Pending[k].node = buf[k] /\ Pending[k].e = entry[buf[k]] /\ buf[k] \in DOMAIN entry
        /\ Pending'[k].node = buf[k] /\ Pending'[k].e = entry'[buf[k]]
    BY <1>1, <1>2 DEF PendingIsList, InFlight
  <2>2. Broadcast(Pending[k], Pending'[k], jobs)
    BY <1>5, <2>1 DEF Broadcast, Propagated
  <2> QED BY <2>1, <2>2 DEF Listed
<1> QED BY <1>1, <1>2, <1>6 DEF jobs, PendingIsList

(* What a job gives is the result of its instruction.                      *)
JobsReach(jobs, Q, k) ==
  \A j \in 1 .. k - 1 :
    Q[j].node \in DOMAIN jobs => Q[j].e.reg_value = jobs[Q[j].node].reg_value

LEMMA ResolveMoves ==
  ASSUME NEW Q, NEW k, NEW jobs, jobs \in [DOMAIN jobs -> FinishedCalc],
         JobsReach(jobs, Q, k), NEW op, NEW n
  PROVE  /\ Moves(op, Resolve(op, jobs), Q, k)
         /\ Moves(op, Resolve(op, OtherJobs(jobs, n)), Q, k)
<1>1. ASSUME op.tag = "Rob", op.idx \in DOMAIN jobs
      PROVE  Moves(op, Value(jobs[op.idx].reg_value), Q, k)
  <2>1. jobs[op.idx].reg_value # NULL
    BY <1>1, WordFacts DEF FinishedCalc
  <2>2. \A j \in 1 .. k - 1 : Q[j].node = op.idx => Q[j].e.reg_value = jobs[op.idx].reg_value
    BY <1>1 DEF JobsReach
  <2> QED BY <1>1, <2>1, <2>2 DEF Moves, Value
<1>2. Moves(op, op, Q, k)
  BY DEF Moves
<1>3. Moves(op, Resolve(op, jobs), Q, k)
  BY <1>1, <1>2 DEF Resolve
<1>4. Moves(op, Resolve(op, OtherJobs(jobs, n)), Q, k)
  <2>1. CASE op.tag = "Rob" /\ op.idx \in DOMAIN OtherJobs(jobs, n)
    <3>1. op.idx \in DOMAIN jobs /\ OtherJobs(jobs, n)[op.idx] = jobs[op.idx]
      BY <2>1 DEF OtherJobs
    <3> QED BY <1>1, <2>1, <3>1 DEF Resolve
  <2>2. CASE ~(op.tag = "Rob" /\ op.idx \in DOMAIN OtherJobs(jobs, n))
    BY <1>2, <2>2 DEF Resolve
  <2> QED BY <2>1, <2>2
<1> QED BY <1>3, <1>4

(* The jobs of the load buffer and the station. *)
AreJobs(jobs, load, st) ==
  /\ \A n \in DOMAIN load :
       /\ n \in DOMAIN jobs <=> load[n].status = "Finished"
       /\ n \in DOMAIN jobs =>
            /\ jobs[n].reg_value = OrZero(load[n].value)
            /\ jobs[n].exception = IF load[n].value = NULL THEN "Err" ELSE "Ok"
  /\ \A n \in DOMAIN jobs \ DOMAIN load :
       /\ n \in DOMAIN st /\ st[n].status = "Finished"
       /\ jobs[n].reg_value = st[n].value /\ jobs[n].exception = "Ok"

InItsUnit(p, load, st) ==
  /\ p.node \in DOMAIN load => UsesLoadBuffer(p.e.inst) /\ p.e.reg_value = NULL
  /\ p.node \in DOMAIN st => UsesStation(p.e.inst) /\ p.e.reg_value = NULL

LEMMA BroadcastLoaded ==
  ASSUME NEW p, NEW q, NEW jobs, jobs \in [DOMAIN jobs -> FinishedCalc], Broadcast(p, q, jobs),
         NEW load, NEW st, AreJobs(jobs, load, st), InItsUnit(p, load, st),
         p.e.reg_value = NULL => p.e.mem_exception # "Err"
  PROVE  LET load2 == Remove(load, DOMAIN jobs) IN
         /\ IsLoaded(q, load2) <=> IsLoaded(p, load)
         /\ IsLoaded(p, load) => LoadedAs(q, load2) = LoadedAs(p, load)
<1> DEFINE load2 == Remove(load, DOMAIN jobs)
<1>1. /\ DOMAIN load2 = DOMAIN load \ DOMAIN jobs
      /\ \A n \in DOMAIN load2 : load2[n] = load[n]
  BY DEF Remove
<1> SUFFICES /\ IsLoaded(q, load2) <=> IsLoaded(p, load)
             /\ IsLoaded(p, load) => LoadedAs(q, load2) = LoadedAs(p, load)
  OBVIOUS
<1> HIDE DEF load2
<1>2. \A n \in DOMAIN jobs : jobs[n].reg_value # NULL
  BY WordFacts DEF FinishedCalc
<1>3. q.node = p.node /\ q.e.inst = p.e.inst
  BY DEF Broadcast, Propagated
<1>4. CASE ~UsesLoadBuffer(p.e.inst)
  BY <1>3, <1>4 DEF IsLoaded
<1>5. CASE UsesLoadBuffer(p.e.inst) /\ p.node \in DOMAIN load
  <2>1. CASE p.node \notin DOMAIN jobs
    BY <1>1, <1>3, <1>5, <2>1 DEF IsLoaded, LoadedAs
  <2>2. CASE p.node \in DOMAIN jobs
    <3>1. /\ load[p.node].status = "Finished"
          /\ q.e.reg_value = OrZero(load[p.node].value)
          /\ q.e.mem_exception = IF load[p.node].value = NULL THEN "Err" ELSE p.e.mem_exception
      BY <1>5, <2>2 DEF AreJobs, Broadcast, Propagated
    <3>2. q.e.reg_value # NULL
      BY <1>2, <2>2 DEF Broadcast, Propagated
    <3>3. p.e.mem_exception # "Err" /\ p.node \notin DOMAIN load2
      BY <1>1, <1>5, <2>2 DEF InItsUnit
    <3>4. LoadedAs(q, load2) = LoadedAs(p, load)
      BY <1>3, <1>5, <3>1, <3>3 DEF LoadedAs, OrZero
    <3> QED BY <1>3, <1>5, <3>1, <3>2, <3>3, <3>4 DEF IsLoaded
  <2> QED BY <2>1, <2>2
<1>6. CASE UsesLoadBuffer(p.e.inst) /\ p.node \notin DOMAIN load
  <2>1. p.node \notin DOMAIN jobs
    BY <1>6, UnitFacts DEF AreJobs, InItsUnit
  <2>2. q.e.reg_value = p.e.reg_value /\ q.e.mem_exception = p.e.mem_exception
    BY <2>1 DEF Broadcast, Propagated
  <2> QED BY <1>1, <1>3, <1>6, <2>2 DEF IsLoaded, LoadedAs
<1> QED BY <1>4, <1>5, <1>6

LEMMA BroadcastRight ==
  ASSUME NEW P, NEW g, NEW k \in Nat, NEW Q, NEW N, Follows(P, g, k, Q, g, k, N),
         NEW jobs, jobs \in [DOMAIN jobs -> FinishedCalc],
         JobsReach(jobs, Q, k), Broadcast(P[k], Q[k], jobs),
         P[k].e \in ReorderBufferEntry,
         NEW load, NEW st, NEW ad, NEW m, AreJobs(jobs, load, st), InItsUnit(P[k], load, st),
         st \in [DOMAIN st -> RSEntry], ad \in [DOMAIN ad -> AddressEntry],
         P[k].node \in DOMAIN st => /\ Waits(st[P[k].node].op1, N)
                                    /\ Waits(st[P[k].node].op2, N),
         P[k].node \in DOMAIN ad => Waits(ad[P[k].node].op1, N),
         P[k].e.inst.opcode \in {"Store", "Amo"} => /\ Waits(P[k].e.addr, N)
                                                    /\ Waits(P[k].e.mem_value, N),
         ~HasStored(P[k].e),
         DataAt(P, g, st, ad, load, m, k)
  PROVE  /\ DataAt(Q, g, StationPropagated(Remove(st, DOMAIN jobs), jobs),
                   AddressesPropagated(ad, jobs), Remove(load, DOMAIN jobs), m, k)
         /\ ~HasStored(Q[k].e)
<1> DEFINE st2 == StationPropagated(Remove(st, DOMAIN jobs), jobs)
           ad2 == AddressesPropagated(ad, jobs)
           load2 == Remove(load, DOMAIN jobs)
           e == P[k].e
           e2 == Q[k].e
           n == P[k].node
<1>1. /\ Q[k].node = n /\ e2.inst = e.inst /\ e.inst \in Instruction
      /\ e2 \in ReorderBufferEntry
      /\ OrZero(e.inst.rs1) \in Regs /\ OrZero(e.inst.rs2) \in Regs
  BY FieldsAreRegs DEF Broadcast, Propagated, ReorderBufferEntry
<1>2. /\ e2.mem_rem_cycle = e.mem_rem_cycle
      /\ e2.reg_value = IF n \in DOMAIN jobs THEN jobs[n].reg_value ELSE e.reg_value
      /\ e2.mem_exception = IF n \in DOMAIN jobs /\ jobs[n].exception = "Err"
                              THEN "Err" ELSE e.mem_exception
      /\ e2.addr = Resolve(e.addr, OtherJobs(jobs, n))
      /\ e2.mem_value = Resolve(e.mem_value, OtherJobs(jobs, n))
  BY DEF Broadcast, Propagated
<1>3. Moves(e.addr, e2.addr, Q, k) /\ Moves(e.mem_value, e2.mem_value, Q, k)
  BY <1>2, ResolveMoves
<1>4. n \in DOMAIN st2 => /\ n \in DOMAIN st /\ n \notin DOMAIN jobs
                          /\ st2[n].function = st[n].function
                          /\ st2[n].status = st[n].status /\ st2[n].value = st[n].value
                          /\ Moves(st[n].op1, st2[n].op1, Q, k)
                          /\ Moves(st[n].op2, st2[n].op2, Q, k)
  <2> SUFFICES ASSUME n \in DOMAIN st2
               PROVE  /\ n \in DOMAIN st /\ n \notin DOMAIN jobs
                      /\ st2[n].function = st[n].function
                      /\ st2[n].status = st[n].status /\ st2[n].value = st[n].value
                      /\ Moves(st[n].op1, st2[n].op1, Q, k)
                      /\ Moves(st[n].op2, st2[n].op2, Q, k)
    OBVIOUS
  <2>1. /\ n \in DOMAIN st /\ n \notin DOMAIN jobs
        /\ st2[n] = [st[n] EXCEPT !.op1 = Resolve(st[n].op1, jobs),
                                  !.op2 = Resolve(st[n].op2, jobs)]
    BY DEF StationPropagated, Remove
  <2>2. st[n] \in RSEntry
    BY <2>1
  <2> HIDE DEF st2, n
  <2>3. /\ st2[n].function = st[n].function
        /\ st2[n].status = st[n].status /\ st2[n].value = st[n].value
        /\ st2[n].op1 = Resolve(st[n].op1, jobs) /\ st2[n].op2 = Resolve(st[n].op2, jobs)
    BY <2>1, <2>2 DEF RSEntry
  <2> QED BY <2>1, <2>3, ResolveMoves
<1>5. n \in DOMAIN ad2 => /\ n \in DOMAIN ad
                          /\ ad2[n].imm = ad[n].imm
                          /\ Moves(ad[n].op1, ad2[n].op1, Q, k)
  <2> SUFFICES ASSUME n \in DOMAIN ad2
               PROVE  n \in DOMAIN ad /\ ad2[n].imm = ad[n].imm
                      /\ Moves(ad[n].op1, ad2[n].op1, Q, k)
    OBVIOUS
  <2>1. n \in DOMAIN ad /\ ad2[n] = [ad[n] EXCEPT !.op1 = Resolve(ad[n].op1, jobs)]
    BY DEF AddressesPropagated
  <2>2. ad[n] \in AddressEntry
    BY <2>1
  <2> HIDE DEF ad2, n
  <2>3. ad2[n].imm = ad[n].imm /\ ad2[n].op1 = Resolve(ad[n].op1, jobs)
    BY <2>1, <2>2 DEF AddressEntry
  <2> QED BY <2>1, <2>3, ResolveMoves
<1>6. /\ IsLoaded(Q[k], load2) <=> IsLoaded(P[k], load)
      /\ IsLoaded(P[k], load) => LoadedAs(Q[k], load2) = LoadedAs(P[k], load)
  BY BroadcastLoaded DEF DataAt, StoreIsOldest
<1>7. UsesStation(e.inst) /\ e2.reg_value # NULL =>
        \/ e2.reg_value = e.reg_value
        \/ /\ n \in DOMAIN st
           /\ st[n].status = "Finished" /\ e2.reg_value = st[n].value
  BY <1>2, UnitFacts DEF AreJobs, InItsUnit
<1>8. /\ ResultIsComputed(P, g, st, k) /\ AddressIsAimed(P, g, ad, k)
      /\ LoadIsCurrent(P, load, m, k) /\ StoreIsRight(P, g, load, k)
      /\ StoreIsOldest(P, load, k)
  BY DEF DataAt
<1>9. Waits(e.addr, N)
  BY <1>8 DEF AddressIsAimed, Aimed, Waits
<1> HIDE DEF st2, ad2, load2
<1>10. ResultIsComputed(Q, g, st2, k)
  BY <1>1, <1>4, <1>7, <1>8, ResultOn DEF UnitMoves
<1>11. AddressIsAimed(Q, g, ad2, k)
  <2>1. IsValue(e2.addr) => e2.addr.val \in Word
    BY <1>1, OperandFacts DEF ReorderBufferEntry
  <2> QED BY <1>1, <1>3, <1>5, <1>8, <1>9, <2>1, AddressOn
<1>12. LoadIsCurrent(Q, load2, m, k)
  <2>1. ASSUME IsLoaded(Q[k], load2) PROVE ReadFrom(e2, LoadedAs(Q[k], load2), m)
    <3>1. ReadFrom(e, LoadedAs(P[k], load), m)
      BY <1>6, <1>8, <2>1 DEF LoadIsCurrent, StoredAt
    <3>2. e2.addr = e.addr
      BY <1>3, <3>1 DEF ReadFrom, IsValue, Moves
    <3> QED BY <1>1, <1>6, <2>1, <3>1, <3>2 DEF ReadFrom
  <2> QED BY <2>1 DEF LoadIsCurrent
<1>13. StoreIsRight(Q, g, load2, k)
  <2>1. ASSUME e.inst.opcode \in {"Store", "Amo"},
               Carries(P, g, k, OrZero(e.inst.rs2), e.mem_value)
        PROVE  Carries(Q, g, k, OrZero(e.inst.rs2), e2.mem_value)
    BY <1>1, <1>3, <2>1, CarriesOn
  <2>2. ASSUME NEW old, Combined(P, g, k, old, e.mem_value)
        PROVE  Combined(Q, g, k, old, e2.mem_value)
    <3>1. e2.mem_value = e.mem_value
      BY <1>3, <2>2 DEF Combined, Moves, Value
    <3> QED BY <1>1, <2>2, <3>1, CombinedOn
  <2> QED BY <1>1, <1>6, <1>8, <2>1, <2>2 DEF StoreIsRight
<1>14. IsStoring(e.inst) /\ e.mem_rem_cycle = 0 =>
         IsLoaded(Q[k], load2) /\ LoadedAs(Q[k], load2) = NULL
  BY <1>6, <1>8 DEF StoreIsOldest, StoredAt
<1>15. StoreIsOldest(Q, load2, k)
  <2>1. ASSUME e2.mem_exception = "Err" PROVE UsesLoadBuffer(e2.inst) /\ e2.reg_value # NULL
    <3>1. CASE n \in DOMAIN jobs /\ jobs[n].exception = "Err"
      <4>1. n \in DOMAIN load
        BY <3>1 DEF AreJobs
      <4>2. jobs[n].reg_value # NULL
        BY <3>1, WordFacts DEF FinishedCalc
      <4> QED BY <1>1, <1>2, <3>1, <4>1, <4>2 DEF InItsUnit
    <3>2. CASE ~(n \in DOMAIN jobs /\ jobs[n].exception = "Err")
      <4>1. UsesLoadBuffer(e.inst) /\ e.reg_value # NULL
        BY <1>2, <1>8, <2>1, <3>2 DEF StoreIsOldest
      <4>2. n \notin DOMAIN jobs
        BY <4>1 DEF InItsUnit, AreJobs
      <4> QED BY <1>1, <1>2, <4>1, <4>2
    <3> QED BY <3>1, <3>2
  <2> QED BY <1>1, <1>2, <1>14, <2>1 DEF StoreIsOldest
<1>16. ~HasStored(e2)
  <2> SUFFICES ASSUME HasStored(e2) PROVE FALSE
    OBVIOUS
  <2>1. IsStoring(e.inst) /\ e.mem_rem_cycle = 0 /\ e2.mem_exception = "Ok"
    BY <1>1, <1>2 DEF HasStored, IsStoring, IsCompleted
  <2>2. IsLoaded(Q[k], load2) /\ LoadedAs(Q[k], load2) = NULL
    BY <1>14, <2>1
  <2>3. e.inst.opcode = "Amo"
    BY <1>1, <2>1, <2>2 DEF IsLoaded, UsesLoadBuffer, IsStoring
  <2>4. e2.reg_value # NULL
    BY <1>1, <2>3 DEF HasStored, IsCompleted
  <2>5. n \notin DOMAIN load2
    <3>1. n \in DOMAIN load2 => n \in DOMAIN load /\ n \notin DOMAIN jobs
      BY DEF load2, Remove
    <3> QED BY <1>2, <2>4, <3>1 DEF InItsUnit
  <2> QED BY <1>1, <2>1, <2>2, <2>4, <2>5 DEF LoadedAs
<1> QED BY <1>10, <1>11, <1>12, <1>13, <1>15, <1>16 DEF DataAt, st2, ad2, load2

LEMMA WriteResultKeepsData ==
  ASSUME PipelineInv, PipelineInv', OrderInv, OrderInv', DataInv, WriteResult PROVE DataInv'
<1> DEFINE P == Pending
           Q == Pending'
           N == Producing
           jobs == CompletedJobs(load_buf, station)
           st2 == StationPropagated(Remove(station, DOMAIN jobs), jobs)
           ad2 == AddressesPropagated(addresses, jobs)
           load2 == Remove(load_buf, DOMAIN jobs)
<1>1. /\ station' = st2 /\ addresses' = ad2 /\ load_buf' = load2
      /\ stage = "write_result" /\ UNCHANGED <<code, gpr, mem, buf, completed>>
  BY DEF WriteResult, At, regVars, loopVars
<1>2. /\ Len(P) \in Nat /\ Len(Q) = Len(P)
      /\ \A k \in 1 .. Len(P) :
           /\ Broadcast(P[k], Q[k], jobs)
           /\ \E i \in Listed : /\ i = k /\ P[k].node = buf[i]
                                /\ P[k].e = entry[buf[i]] /\ buf[i] \in DOMAIN entry
  BY Broadcasts DEF InFlight
<1>3. /\ jobs \in [DOMAIN jobs -> FinishedCalc] /\ DOMAIN jobs \subseteq N
      /\ AreJobs(jobs, load_buf, station)
  BY JobsAre DEF AreJobs
<1>4. /\ station \in [DOMAIN station -> RSEntry]
      /\ addresses \in [DOMAIN addresses -> AddressEntry]
  BY DEF PipelineInv, TypeOK
<1>5. /\ PendingIsList /\ Len(P) = Len(buf)
      /\ \A i \in 1 .. Len(buf) : P[i].node = buf[i] /\ P[i].e = entry[buf[i]]
  BY <1>1, ListNow DEF PendingIsList
<1>6. ASSUME NEW k \in 1 .. Len(P)
      PROVE  /\ DataAt(Q, gpr, st2, ad2, load2, mem, k)
             /\ ~HasStored(Q[k].e)
  <2>1. k \in InFlight /\ k \in Nat /\ \A j \in 1 .. k - 1 : j \in 1 .. Len(P)
    BY <1>2 DEF InFlight
  <2>2. DataAt(P, gpr, station, addresses, load_buf, mem, k)
    BY <2>1 DEF DataInv, ValuesAreRight
  <2>3. LET p == P[k] IN
        /\ p.e \in ReorderBufferEntry
        /\ p.node \in DOMAIN station => /\ Waits(station[p.node].op1, N)
                                        /\ Waits(station[p.node].op2, N)
        /\ p.node \in DOMAIN addresses => Waits(addresses[p.node].op1, N)
        /\ p.e.inst.opcode \in {"Store", "Amo"} => /\ Waits(p.e.addr, N)
                                                   /\ Waits(p.e.mem_value, N)
    BY <2>1, InFlightWaits
  <2>4. ~HasStored(P[k].e)
    BY <1>1, <1>2 DEF DataInv, StoresLeave, Ith
  <2>5. InItsUnit(P[k], load_buf, station)
    BY <1>2 DEF InItsUnit, PipelineInv, ProducersAreUnfinished, Producing
  <2>6. JobsReach(jobs, Q, k)
    BY <1>2, <2>1 DEF JobsReach, Broadcast, Propagated
  <2>7. ASSUME NEW j \in 1 .. k - 1
        PROVE  /\ Q[j].node = P[j].node /\ Q[j].e.rd = P[j].e.rd
               /\ P[j].e.reg_value # NULL => Q[j].e.reg_value = P[j].e.reg_value
    <3>1. Broadcast(P[j], Q[j], jobs)
      BY <1>2, <2>1
    <3>2. P[j].e.reg_value # NULL => P[j].node \notin N
      BY <2>1, ResultHasLeft DEF InFlight
    <3> QED BY <1>3, <3>1, <3>2 DEF Broadcast, Propagated
  <2>8. Broadcast(P[k], Q[k], jobs)
    BY <1>2
  <2> HIDE DEF P, Q, N, jobs, st2, ad2, load2
  <2>9. Follows(P, gpr, k, Q, gpr, k, N)
    BY <2>1, <2>7, <2>8, FollowsInPlace DEF Broadcast, Propagated
  <2>10. DataAt(Q, gpr, StationPropagated(Remove(station, DOMAIN jobs), jobs),
                AddressesPropagated(addresses, jobs), Remove(load_buf, DOMAIN jobs), mem, k)
         /\ ~HasStored(Q[k].e)
    BY <1>3, <1>4, <2>1, <2>2, <2>3, <2>4, <2>5, <2>6, <2>8, <2>9, BroadcastRight
  <2> QED BY <2>10 DEF st2, ad2, load2
<1>7. ValuesAreRight'
  <2>1. ASSUME NEW k \in 1 .. Len(Pending')
        PROVE  DataAt(Pending', gpr', station', addresses', load_buf', mem', k)
    <3>1. DataAt(Q, gpr, st2, ad2, load2, mem, k)
      BY <1>2, <1>6
    <3> HIDE DEF st2, ad2, load2
    <3> QED BY <1>1, <3>1
  <2> QED BY <2>1 DEF ValuesAreRight, InFlight
<1>8. TextIsFetched'
  <2>1. ASSUME NEW k \in 1 .. Len(Pending')
        PROVE  \E j \in InFlight : /\ Pending'[k].e.pc = Pending[j].e.pc
                                   /\ Pending'[k].e.inst = Pending[j].e.inst
                                   /\ Pending'[k].e.rd = Pending[j].e.rd
    <3>1. k \in InFlight /\ Broadcast(Pending[k], Pending'[k], jobs)
      BY <1>2 DEF InFlight
    <3> QED BY <3>1 DEF Broadcast, Propagated
  <2> QED BY <1>1, <2>1, TextStays DEF DataInv
<1>9. StoresLeave'
  <2>1. PendingIsList'
    <3>1. stage' # "retire"
      BY DEF WriteResult
    <3> QED BY <3>1, ListNext DEF BetweenCommits
  <2>2. ASSUME NEW i \in 1 .. Len(buf') PROVE ~HasStored(entry'[buf'[i]])
    <3>1. i \in 1 .. Len(P) /\ Pending'[i].e = entry'[buf'[i]]
      BY <1>1, <1>5, <2>1 DEF PendingIsList
    <3> QED BY <1>6, <3>1
  <2> QED BY <2>2 DEF StoresLeave, Listed, Ith
<1>10. EcallEndsCommit'
  BY <1>1 DEF DataInv, EcallEndsCommit
<1> QED BY <1>7, <1>8, <1>9, <1>10 DEF DataInv


-----------------------------------------------------------------------------
(* execute                                                                 *)

(* What an atomic that reads leaves to store. *)
AfterRead(e, e2, m) ==
  LET f == e.inst.function
      old == LoadResult(e2, m)
  IN  IF e.inst.opcode = "Amo" /\ old # NULL
        THEN /\ IsValue(e.mem_value)
             /\ e2.mem_value = Value(IF f = "Lrw" THEN 0 ELSE AmoValue(f, old, e.mem_value.val))
             /\ e2.mem_rem_cycle = IF f = "Lrw" THEN 0 ELSE MemCycle
             /\ f # "Lrw" => ~AmoPanics(f, old, e.mem_value.val)
        ELSE e2.mem_value = e.mem_value /\ e2.mem_rem_cycle = 0

(* What the address unit and the loads make of the entry e of n. *)
LoadStep(n, e, e2, load, load2, m) ==
  /\ e2 \in ReorderBufferEntry
  /\ e2.inst = e.inst /\ e2.rd = e.rd /\ e2.pc = e.pc
  /\ e2.reg_value = e.reg_value /\ e2.mem_exception = e.mem_exception
  /\ e2.addr = e.addr \/ e.addr = NoOperand
  /\ n \in DOMAIN load2 <=> n \in DOMAIN load
  /\ \/ /\ n \in DOMAIN load /\ load[n].status # "Finished"
        /\ load2[n] = [status |-> "Finished", value |-> LoadResult(e2, m)]
        /\ IsValue(e2.addr)
        /\ InAddressSpace(e2.addr.val) => SliceFits(e2.addr.val, AccessSize(e.inst.function))
        /\ AfterRead(e, e2, m)
     \/ /\ n \in DOMAIN load /\ load[n].status # "Finished" /\ load2[n].status # "Finished"
        /\ e2.mem_value = e.mem_value /\ e2.mem_rem_cycle > 0
     \/ /\ n \in DOMAIN load => load2[n] = load[n]
        /\ e2.mem_value = e.mem_value /\ e2.mem_rem_cycle = e.mem_rem_cycle

LEMMA AfterLoadGives ==
  ASSUME NEW a \in ReorderBufferEntry, NEW m, ~LoadPanics(a, m), IsValue(a.addr),
         a.inst.opcode = "Amo" => IsValue(a.mem_value)
  PROVE  LET e2 == AfterAtomicLoad(a, m) IN
         /\ e2.mem_exception = a.mem_exception
         /\ e2.addr = a.addr /\ e2.inst = a.inst
         /\ AfterRead(a, e2, m)
<1> DEFINE e2 == AfterAtomicLoad(a, m)
           f == a.inst.function
           old == LoadResult(a, m)
           v == IF f = "Lrw" THEN 0 ELSE AmoValue(f, old, a.mem_value.val)
           count == IF f = "Lrw" THEN 0 ELSE MemCycle
<1> SUFFICES /\ e2.mem_exception = a.mem_exception
             /\ e2.addr = a.addr /\ e2.inst = a.inst
             /\ AfterRead(a, e2, m)
  OBVIOUS
<1>1. old # NULL => InAddressSpace(a.addr.val)
  BY DEF LoadResult
<1>2. CASE a.inst.opcode # "Amo" \/ old = NULL
  <2>1. e2 = [a EXCEPT !.mem_rem_cycle = 0]
    BY <1>2 DEF AfterAtomicLoad
  <2> HIDE DEF e2
  <2>2. /\ e2.mem_exception = a.mem_exception /\ e2.mem_value = a.mem_value
        /\ e2.addr = a.addr /\ e2.inst = a.inst /\ e2.mem_rem_cycle = 0
    BY <2>1 DEF ReorderBufferEntry
  <2>3. LoadResult(e2, m) = old
    BY <2>2 DEF LoadResult
  <2> QED BY <1>2, <2>2, <2>3 DEF AfterRead
<1>3. CASE a.inst.opcode = "Amo" /\ old # NULL
  <2>1. e2 = [a EXCEPT !.mem_value = Value(v), !.mem_rem_cycle = count]
    BY <1>3 DEF AfterAtomicLoad
  <2>2. f # "Lrw" => ~AmoPanics(f, old, a.mem_value.val)
    BY <1>1, <1>3 DEF LoadPanics
  <2> HIDE DEF e2, v, count
  <2>3. /\ e2.mem_exception = a.mem_exception /\ e2.mem_value = Value(v)
        /\ e2.addr = a.addr /\ e2.inst = a.inst /\ e2.mem_rem_cycle = count
    BY <2>1 DEF ReorderBufferEntry
  <2>4. LoadResult(e2, m) = old
    BY <2>3 DEF LoadResult
  <2> HIDE DEF old
  <2> QED BY <1>3, <2>2, <2>3, <2>4 DEF AfterRead, v, count
<1> QED BY <1>2, <1>3

LEMMA ExecuteSteps ==
  ASSUME PipelineInv, Execute, NEW n \in DOMAIN entry
  PROVE  LoadStep(n, entry[n], LoadedEntries[n], load_buf, load_buf', mem)
<1> DEFINE e == entry[n]
           a == AddressedEntries[n]
           e2 == LoadedEntries[n]
<1>1. /\ a \in ReorderBufferEntry
      /\ a.inst = e.inst /\ a.rd = e.rd /\ a.pc = e.pc
      /\ a.reg_value = e.reg_value /\ a.mem_value = e.mem_value
      /\ a.addr = IF n \in ReadyAddresses(addresses) THEN Value(Address(addresses[n]))
                  ELSE e.addr
  BY AddressUnitGives
<1>2. n \in ReadyAddresses(addresses) => e.addr = NoOperand
  BY DEF ReadyAddresses, PipelineInv, AddressesAreMissing
<1>3. a.mem_rem_cycle = e.mem_rem_cycle /\ a.mem_exception = e.mem_exception
  <2>1. a = IF n \in ReadyAddresses(addresses)
              THEN [e EXCEPT !.addr = Value(Address(addresses[n]))] ELSE e
    BY DEF AddressedEntries, EntriesAddressed
  <2>2. e \in ReorderBufferEntry
    BY ListFacts
  <2> HIDE DEF a, e
  <2> QED BY <2>1, <2>2 DEF ReorderBufferEntry
<1>4. DOMAIN load_buf' = DOMAIN load_buf /\ (Reads(n, a, e2) \/ Counts(n, a, e2) \/ Rests(n, a, e2))
  BY ExecuteLoads
<1>5. e2 \in ReorderBufferEntry /\ SameButMemory(e2, e)
  BY LoadedFacts DEF Execute, SameButMemory
<1> SUFFICES LoadStep(n, e, e2, load_buf, load_buf', mem)
  OBVIOUS
<1> HIDE DEF e, a, e2
<1>6. CASE Reads(n, a, e2)
  <2>1. /\ e2 = AfterAtomicLoad(a, mem) /\ ~LoadPanics(a, mem) /\ IsValue(a.addr)
        /\ a.inst.opcode = "Amo" => IsValue(a.mem_value)
        /\ n \in DOMAIN load_buf /\ load_buf[n].status # "Finished"
        /\ load_buf'[n] = [status |-> "Finished", value |-> LoadResult(a, mem)]
    BY <1>6 DEF Reads
  <2>2. /\ e2.mem_exception = a.mem_exception /\ e2.addr = a.addr /\ e2.inst = a.inst
        /\ AfterRead(a, e2, mem)
    BY <1>1, <2>1, AfterLoadGives
  <2>3. SameButLoaded(e2, a)
    BY <1>1, <2>1, AfterLoadSettles
  <2>4. LoadResult(e2, mem) = LoadResult(a, mem)
    BY <2>2 DEF LoadResult
  <2>5. InAddressSpace(a.addr.val) => SliceFits(a.addr.val, AccessSize(a.inst.function))
    BY <2>1 DEF LoadPanics
  <2>6. AfterRead(e, e2, mem)
    BY <1>1, <2>2 DEF AfterRead
  <2> QED BY <1>1, <1>2, <1>3, <1>4, <1>5, <2>1, <2>2, <2>3, <2>4, <2>5, <2>6
          DEF LoadStep, SameButLoaded
<1>7. CASE Counts(n, a, e2)
  <2>1. /\ n \in DOMAIN load_buf /\ load_buf[n].status # "Finished"
        /\ load_buf'[n].status # "Finished" /\ a.mem_rem_cycle > 1
        /\ e2 = [a EXCEPT !.mem_rem_cycle = a.mem_rem_cycle - 1]
    BY <1>7 DEF Counts
  <2>2. /\ e2.inst = a.inst /\ e2.rd = a.rd /\ e2.pc = a.pc /\ e2.reg_value = a.reg_value
        /\ e2.mem_exception = a.mem_exception /\ e2.addr = a.addr
        /\ e2.mem_value = a.mem_value /\ e2.mem_rem_cycle = a.mem_rem_cycle - 1
    BY <1>1, <2>1 DEF ReorderBufferEntry
  <2>3. a.mem_rem_cycle \in Int
    BY <1>1, CycleAssumption DEF ReorderBufferEntry
  <2>4. e2.mem_rem_cycle > 0
    BY <2>1, <2>2, <2>3
  <2> QED BY <1>1, <1>2, <1>3, <1>4, <1>5, <2>1, <2>2, <2>4 DEF LoadStep
<1>8. CASE Rests(n, a, e2)
  BY <1>1, <1>2, <1>3, <1>4, <1>5, <1>8 DEF Rests, LoadStep
<1> QED BY <1>4, <1>6, <1>7, <1>8

(* What the store of the head, h, makes of the entry e2 and of memory.      *)
StoreStep(k, e2, e3, h, m, m2) ==
  \/ e3 = e2 /\ m2 = m
  \/ /\ StoreReady(h) /\ StoreFits(h) /\ m2 = Stored(h, m)
     /\ IF k = 1 THEN h = e2 /\ e3 = [e2 EXCEPT !.mem_rem_cycle = 0] ELSE e3 = e2

(* What has been read is the memory, and what an atomic stores is its.     *)
LEMMA ReadNow ==
  ASSUME NEW p, NEW e2, NEW load, NEW load2, NEW m \in Memory,
         LoadStep(p.node, p.e, e2, load, load2, m),
         IsLoaded(p, load) => ReadFrom(p.e, LoadedAs(p, load), m),
         NEW q, q.node = p.node, q.e.inst = e2.inst, q.e.addr = e2.addr,
         q.e.reg_value = e2.reg_value, q.e.mem_exception = e2.mem_exception,
         IsLoaded(q, load2)
  PROVE  /\ ReadFrom(q.e, LoadedAs(q, load2), m)
         /\ \/ /\ IsLoaded(p, load)
               /\ LoadedAs(q, load2) = LoadedAs(p, load)
               /\ e2.mem_value = p.e.mem_value
               /\ e2.mem_rem_cycle = p.e.mem_rem_cycle
            \/ /\ ~IsLoaded(p, load)
               /\ p.node \in DOMAIN load
               /\ LoadedAs(q, load2) = LoadResult(e2, m)
               /\ AfterRead(p.e, e2, m)
<1>2. /\ e2 \in ReorderBufferEntry
      /\ e2.inst = p.e.inst /\ e2.reg_value = p.e.reg_value
      /\ e2.mem_exception = p.e.mem_exception
      /\ e2.addr = p.e.addr \/ p.e.addr = NoOperand
      /\ p.node \in DOMAIN load2 <=> p.node \in DOMAIN load
  BY DEF LoadStep
<1>3. CASE IsLoaded(p, load)
  <2>1. /\ p.node \in DOMAIN load => load2[p.node] = load[p.node]
        /\ e2.mem_value = p.e.mem_value /\ e2.mem_rem_cycle = p.e.mem_rem_cycle
    BY <1>3 DEF LoadStep, IsLoaded
  <2>2. LoadedAs(q, load2) = LoadedAs(p, load)
    BY <1>2, <2>1 DEF LoadedAs
  <2>3. e2.addr = p.e.addr
    BY <1>2, <1>3 DEF ReadFrom, IsValue, NoOperand
  <2> QED BY <1>2, <1>3, <2>1, <2>2, <2>3 DEF ReadFrom
<1>4. CASE ~IsLoaded(p, load)
  <2>1. p.node \in DOMAIN load
    BY <1>2, <1>4 DEF IsLoaded
  <2>2. /\ load2[p.node] = [status |-> "Finished", value |-> LoadResult(e2, m)]
        /\ IsValue(e2.addr)
        /\ InAddressSpace(e2.addr.val) => SliceFits(e2.addr.val, AccessSize(e2.inst.function))
        /\ AfterRead(p.e, e2, m)
    BY <1>2, <1>4, <2>1 DEF LoadStep, IsLoaded
  <2>3. LoadedAs(q, load2) = LoadResult(e2, m)
    BY <1>2, <2>1, <2>2 DEF LoadedAs
  <2>4. e2.addr.val \in Word
    BY <1>2, <2>2, OperandFacts DEF ReorderBufferEntry
  <2>5. ReadFrom(q.e, LoadResult(e2, m), m)
    <3>1. CASE InAddressSpace(e2.addr.val)
      <4>1. LoadResult(e2, m) = LoadValue(m, e2.inst.function, e2.addr.val)
        BY <3>1 DEF LoadResult
      <4>2. LoadResult(e2, m) # NULL
        BY <2>2, <2>4, <3>1, <4>1, LoadValueType, WordFacts
      <4> QED BY <2>2, <3>1, <4>1, <4>2 DEF ReadFrom, Readable
    <3>2. CASE ~InAddressSpace(e2.addr.val)
      BY <2>2, <3>2 DEF ReadFrom, LoadResult
    <3> QED BY <3>1, <3>2
  <2> QED BY <1>4, <2>1, <2>2, <2>3, <2>5
<1> QED BY <1>3, <1>4

(* What an execute makes of an instruction, its memory side: h is the      *)
(* entry at the head of the list.                                          *)
LEMMA ExecuteMemoryRight ==
  ASSUME NEW P, NEW g \in [Regs -> Word], NEW k \in Nat, NEW Q, NEW N, Follows(P, g, k, Q, g, k, N),
         P[k].e \in ReorderBufferEntry,
         NEW load, NEW load2, NEW m \in Memory, NEW m2, NEW e2, NEW h,
         LoadStep(P[k].node, P[k].e, e2, load, load2, m),
         StoreStep(k, e2, Q[k].e, h, m, m2),
         P[k].node \in DOMAIN load => UsesLoadBuffer(P[k].e.inst) /\ P[k].e.reg_value = NULL,
         P[k].e.inst.opcode \in {"Store", "Amo"} => Waits(P[k].e.mem_value, N),
         ~HasStored(P[k].e),
         k # 1 /\ IsLoaded(Q[k], load2) /\ IsStoring(h.inst) /\ m2 # m =>
           Touches(Q[k].e) \cap Touches(h) = {},
         LoadIsCurrent(P, load, m, k), StoreIsRight(P, g, load, k), StoreIsOldest(P, load, k)
  PROVE  LoadIsCurrent(Q, load2, m2, k) /\ StoreIsRight(Q, g, load2, k)
         /\ StoreIsOldest(Q, load2, k)
<1> DEFINE e == P[k].e
           e3 == Q[k].e
           n == P[k].node
<1>1. /\ e2 \in ReorderBufferEntry
      /\ e2.inst = e.inst /\ e2.reg_value = e.reg_value
      /\ e2.mem_exception = e.mem_exception
      /\ e2.addr = e.addr \/ e.addr = NoOperand
      /\ n \in DOMAIN load2 <=> n \in DOMAIN load
      /\ e.inst \in Instruction
      /\ OrZero(e.inst.rs2) \in Regs
  BY FieldsAreRegs DEF LoadStep, ReorderBufferEntry
<1>2. Q[k].node = n
  BY DEF Follows
<1>3. \/ e3 = e2 /\ m2 = m
      \/ /\ StoreReady(h) /\ StoreFits(h) /\ m2 = Stored(h, m)
         /\ \/ k # 1 /\ e3 = e2
            \/ k = 1 /\ h = e2 /\ e3 = [e2 EXCEPT !.mem_rem_cycle = 0]
  BY DEF StoreStep
<1> HIDE DEF e3
<1>4. /\ e3.inst = e.inst /\ e3.addr = e2.addr /\ e3.reg_value = e.reg_value
      /\ e3.mem_exception = e.mem_exception /\ e3.mem_value = e2.mem_value
      /\ e3.mem_rem_cycle = e2.mem_rem_cycle \/ e3.mem_rem_cycle = 0
  BY <1>1, <1>3 DEF ReorderBufferEntry
<1>5. IsLoaded(P[k], load) => ReadFrom(e, LoadedAs(P[k], load), m)
  BY DEF LoadIsCurrent, StoredAt
<1>6. ASSUME IsLoaded(Q[k], load2)
      PROVE  /\ ReadFrom(e3, LoadedAs(Q[k], load2), m)
             /\ \/ /\ IsLoaded(P[k], load)
                   /\ LoadedAs(Q[k], load2) = LoadedAs(P[k], load)
                   /\ e2.mem_value = e.mem_value
                   /\ e2.mem_rem_cycle = e.mem_rem_cycle
                \/ /\ ~IsLoaded(P[k], load)
                   /\ n \in DOMAIN load
                   /\ LoadedAs(Q[k], load2) = LoadResult(e2, m)
                   /\ AfterRead(e, e2, m)
  BY <1>1, <1>2, <1>4, <1>5, <1>6, ReadNow DEF e3
<1>7. ASSUME k = 1, StoreReady(h), StoreFits(h), h = e2,
             e3 = [e2 EXCEPT !.mem_rem_cycle = 0]
      PROVE  HasStored(e3)
  <2>1. e3.mem_rem_cycle = 0 /\ IsStoring(e3.inst)
    BY <1>1, <1>4, <1>7 DEF ReorderBufferEntry, StoreReady
  <2>2. /\ IsValue(e3.addr) /\ IsValue(e3.mem_value)
        /\ e3.inst.opcode = "Amo" => e3.reg_value # NULL
    BY <1>1, <1>4, <1>7 DEF StoreReady
  <2>3. IsCompleted(e3)
    BY <2>1, <2>2 DEF IsCompleted, IsStoring
  <2>4. e3.mem_exception # "Err"
    <3> SUFFICES ASSUME e3.mem_exception = "Err" PROVE FALSE
      OBVIOUS
    <3>1. UsesLoadBuffer(e.inst) /\ e.reg_value # NULL
      BY <1>4 DEF StoreIsOldest
    <3>2. n \notin DOMAIN load
      BY <3>1
    <3>3. IsLoaded(P[k], load) /\ LoadedAs(P[k], load) = NULL
      BY <1>4, <3>1, <3>2 DEF IsLoaded, LoadedAs
    <3>4. ReadFrom(e, NULL, m)
      BY <1>5, <3>3
    <3>5. IsValue(e.addr) /\ ~InAddressSpace(e.addr.val)
      BY <3>4 DEF ReadFrom
    <3>6. InAddressSpace(e2.addr.val)
      BY <1>7 DEF StoreFits, WriteFits, Readable
    <3> QED BY <1>1, <3>5, <3>6 DEF IsValue, NoOperand
  <2>5. e3.mem_exception = "Ok"
    BY <1>1, <1>4, <2>4 DEF ReorderBufferEntry
  <2> QED BY <2>1, <2>3, <2>5 DEF HasStored
<1>8. LoadIsCurrent(Q, load2, m2, k)
  <2> SUFFICES ASSUME IsLoaded(Q[k], load2)
               PROVE  StoredAt(k, e3) \/ ReadFrom(e3, LoadedAs(Q[k], load2), m2)
    BY DEF LoadIsCurrent, e3
  <2>1. ReadFrom(e3, LoadedAs(Q[k], load2), m)
    BY <1>6
  <2>2. CASE m2 = m
    BY <2>1, <2>2
  <2>3. CASE /\ StoreReady(h) /\ StoreFits(h) /\ m2 = Stored(h, m)
             /\ k # 1 /\ m2 # m
    <3>1. /\ IsStoring(h.inst) /\ m2 = Written(m, h.addr.val, AccessSize(h.inst.function), h.mem_value.val)
      BY <2>3 DEF StoreReady, Stored
    <3>2. Touches(e3) \cap Touches(h) = {}
      BY <2>3, <3>1 DEF e3
    <3>3. IsValue(e3.addr) /\ e3.addr.val \in Word
      BY <1>1, <1>4, <2>1, OperandFacts DEF ReadFrom, ReorderBufferEntry
    <3>4. Readable(e3.addr.val, AccessSize(e3.inst.function)) =>
            LoadValue(m2, e3.inst.function, e3.addr.val) = LoadValue(m, e3.inst.function, e3.addr.val)
      BY <3>1, <3>2, <3>3, ReadElsewhere DEF Touches
    <3> QED BY <2>1, <3>4 DEF ReadFrom
  <2>4. CASE /\ StoreReady(h) /\ StoreFits(h) /\ k = 1 /\ h = e2
             /\ e3 = [e2 EXCEPT !.mem_rem_cycle = 0]
    BY <1>7, <2>4 DEF StoredAt
  <2> QED BY <1>3, <2>2, <2>3, <2>4
<1>9. StoreIsRight(Q, g, load2, k)
  <2>1. ASSUME Carries(P, g, k, OrZero(e.inst.rs2), e.mem_value), Waits(e.mem_value, N)
        PROVE  Carries(Q, g, k, OrZero(e.inst.rs2), e.mem_value)
    <3> DEFINE r == OrZero(e.inst.rs2)
               op == e.mem_value
    <3>1. r \in Regs /\ Waits(op, N) /\ Carries(P, g, k, r, op) /\ Moves(op, op, Q, k)
      BY <1>1, <2>1 DEF Moves
    <3> HIDE DEF r, op
    <3>2. Carries(Q, g, k, r, op)
      BY <3>1, CarriesOn
    <3> QED BY <3>2 DEF r, op
  <2>2. ASSUME \/ e.inst.opcode = "Store"
               \/ e.inst.opcode = "Amo" /\ ~IsLoaded(Q[k], load2)
        PROVE  Carries(Q, g, k, OrZero(e.inst.rs2), e3.mem_value)
    <3>1. e.inst.opcode = "Store" \/ ~IsLoaded(P[k], load)
      BY <1>1, <1>2, <1>4, <2>2 DEF IsLoaded, LoadStep, e3
    <3>2. Carries(P, g, k, OrZero(e.inst.rs2), e.mem_value)
      BY <2>2, <3>1 DEF StoreIsRight
    <3>3. e2.mem_value = e.mem_value
      <4>1. CASE e.inst.opcode = "Store"
        BY <4>1 DEF LoadStep, AfterRead
      <4>2. CASE e.inst.opcode = "Amo" /\ ~IsLoaded(Q[k], load2)
        <5>1. UsesLoadBuffer(e.inst) \/ n \notin DOMAIN load
          OBVIOUS
        <5> QED BY <5>1, <1>1, <1>2, <1>4, <4>2 DEF LoadStep, AfterRead, IsLoaded, e3
      <4> QED BY <2>2, <4>1, <4>2
    <3> QED BY <1>4, <2>1, <2>2, <3>2, <3>3
  <2>3. ASSUME e.inst.opcode = "Amo", e.inst.function # "Lrw",
               IsLoaded(Q[k], load2), LoadedAs(Q[k], load2) # NULL
        PROVE  Combined(Q, g, k, LoadedAs(Q[k], load2), e3.mem_value)
    <3> DEFINE old == LoadedAs(Q[k], load2)
    <3>1. CASE IsLoaded(P[k], load) /\ old = LoadedAs(P[k], load)
               /\ e2.mem_value = e.mem_value
      <4>1. Combined(P, g, k, old, e.mem_value)
        BY <2>3, <3>1 DEF StoreIsRight
      <4> QED BY <1>1, <1>4, <3>1, <4>1, CombinedOn
    <3>2. CASE ~IsLoaded(P[k], load) /\ old = LoadResult(e2, m) /\ AfterRead(e, e2, m)
      <4>1. /\ IsValue(e.mem_value)
            /\ e3.mem_value = Value(AmoValue(e.inst.function, old, e.mem_value.val))
            /\ ~AmoPanics(e.inst.function, old, e.mem_value.val)
        BY <1>4, <2>3, <3>2 DEF AfterRead
      <4>2. Carries(P, g, k, OrZero(e.inst.rs2), e.mem_value)
        BY <2>3, <3>2 DEF StoreIsRight
      <4>3. Sees(P, g, k, OrZero(e.inst.rs2), e.mem_value.val)
        BY <4>1, <4>2 DEF Carries
      <4>4. e.mem_value.val \in Word
        BY <4>1, OperandFacts DEF ReorderBufferEntry
      <4>5. Combined(P, g, k, old, e3.mem_value)
        BY <4>1, <4>3, <4>4 DEF Combined
      <4> QED BY <1>1, <4>5, CombinedOn
    <3> QED BY <1>6, <2>3, <3>1, <3>2
  <2> QED BY <1>4, <2>2, <2>3 DEF StoreIsRight, e3
<1>10. StoreIsOldest(Q, load2, k)
  <2>1. ASSUME IsStoring(e.inst), e3.mem_rem_cycle = 0, e3 = e2
        PROVE  IsLoaded(Q[k], load2) /\ LoadedAs(Q[k], load2) = NULL
    <3>1. CASE IsLoaded(Q[k], load2)
      <4>1. CASE /\ IsLoaded(P[k], load) /\ LoadedAs(Q[k], load2) = LoadedAs(P[k], load)
                 /\ e2.mem_rem_cycle = e.mem_rem_cycle
        BY <2>1, <3>1, <4>1 DEF StoreIsOldest, StoredAt
      <4>2. CASE LoadedAs(Q[k], load2) = LoadResult(e2, m) /\ AfterRead(e, e2, m)
        <5>1. e.inst.opcode = "Amo" /\ e.inst.function # "Lrw"
          BY <1>1, <1>4, <2>1, <3>1 DEF IsStoring, IsLoaded, UsesLoadBuffer, e3
        <5> QED BY <2>1, <3>1, <4>2, <5>1, CycleAssumption DEF AfterRead
      <4> QED BY <1>6, <3>1, <4>1, <4>2
    <3>2. CASE ~IsLoaded(Q[k], load2)
      <4>1. ~IsLoaded(P[k], load) /\ e2.mem_rem_cycle = e.mem_rem_cycle
        <5> USE DEF e3
        <5>1. ~IsLoaded(P[k], load)
          BY <1>1, <1>2, <1>4, <3>2 DEF IsLoaded, LoadStep
        <5>2. n \in DOMAIN load /\ UsesLoadBuffer(e.inst) => load2[n].status # "Finished"
          BY <1>1, <1>2, <1>4, <3>2 DEF IsLoaded
        <5>3. n \in DOMAIN load => UsesLoadBuffer(e.inst)
          OBVIOUS
        <5> QED BY <2>1, <5>1, <5>2, <5>3 DEF LoadStep
      <4> QED BY <2>1, <4>1 DEF StoreIsOldest, StoredAt
    <3> QED BY <3>1, <3>2
  <2>2. ASSUME e3.mem_exception = "Err" PROVE UsesLoadBuffer(e.inst) /\ e3.reg_value # NULL
    BY <1>4, <2>2 DEF StoreIsOldest
  <2>3. ASSUME IsStoring(e.inst), e3.mem_rem_cycle = 0
        PROVE  StoredAt(k, e3) \/ (IsLoaded(Q[k], load2) /\ LoadedAs(Q[k], load2) = NULL)
    BY <1>3, <1>7, <2>1, <2>3 DEF StoredAt
  <2> QED BY <1>4, <2>2, <2>3 DEF StoreIsOldest, e3
<1> QED BY <1>8, <1>9, <1>10

(* The general units and the address unit. *)
LEMMA ExecuteUnitsRight ==
  ASSUME NEW P, NEW g, NEW k \in Nat, NEW Q, NEW N, Follows(P, g, k, Q, g, k, N),
         P[k].e \in ReorderBufferEntry, Q[k].e \in ReorderBufferEntry,
         Q[k].e.reg_value = P[k].e.reg_value,
         NEW st, st \in [DOMAIN st -> RSEntry], ~StationPanics(st),
         NEW ad, ad \in [DOMAIN ad -> AddressEntry],
         P[k].node \in DOMAIN st => /\ Waits(st[P[k].node].op1, N)
                                    /\ Waits(st[P[k].node].op2, N),
         P[k].node \in DOMAIN ad => /\ Waits(ad[P[k].node].op1, N)
                                    /\ UsesAddressUnit(P[k].e.inst),
         P[k].e.inst.opcode \in {"Store", "Amo"} => Waits(P[k].e.addr, N),
         Q[k].e.addr = IF P[k].node \in ReadyAddresses(ad) THEN Value(Address(ad[P[k].node]))
                       ELSE P[k].e.addr,
         ResultIsComputed(P, g, st, k), AddressIsAimed(P, g, ad, k)
  PROVE  /\ ResultIsComputed(Q, g, StationExecuted(st), k)
         /\ AddressIsAimed(Q, g, Remove(ad, ReadyAddresses(ad)), k)
<1> DEFINE st2 == StationExecuted(st)
           ad2 == Remove(ad, ReadyAddresses(ad))
           n == P[k].node
<1>1. P[k].e.inst \in Instruction
  BY DEF ReorderBufferEntry
<1>2. ResultIsComputed(Q, g, st2, k)
  <2>1. ASSUME n \in DOMAIN st2
        PROVE  n \in DOMAIN st /\ UnitMoves(st[n], st2[n], Q, k, N)
    <3> DEFINE s == st[n]
               t == st2[n]
    <3>1. /\ n \in DOMAIN st
          /\ t = IF Ending(s)
                   THEN [s EXCEPT !.status = "Finished", !.remaining_clock = 0,
                                  !.value = Alu(s.function, s.op1.val, s.op2.val)]
                 ELSE IF Ready(s)
                   THEN [s EXCEPT !.status = "Execute", !.remaining_clock = s.remaining_clock - 1]
                 ELSE s
      BY <2>1 DEF StationExecuted
    <3>2. s \in RSEntry /\ Waits(s.op1, N) /\ Waits(s.op2, N)
      BY <3>1
    <3>3. Ending(s) => ~AluPanics(s.function, s.op1.val, s.op2.val)
      BY <3>1 DEF StationPanics, UnitPanics
    <3> HIDE DEF s, t, n
    <3>4. Ending(s) => Computes(s)
      BY <3>2, <3>3, OperandFacts DEF Ending, Ready, Computes, RSEntry
    <3>5. /\ t.function = s.function /\ t.op1 = s.op1 /\ t.op2 = s.op2
          /\ t.status = "Finished" =>
               \/ s.status = "Finished" /\ t.value = s.value
               \/ Ending(s) /\ t.value = Alu(s.function, s.op1.val, s.op2.val)
      <4>1. CASE Ending(s)
        BY <3>1, <3>2, <4>1 DEF RSEntry
      <4>2. CASE ~Ending(s) /\ Ready(s)
        BY <3>1, <3>2, <4>2 DEF RSEntry
      <4>3. CASE ~Ending(s) /\ ~Ready(s)
        BY <3>1, <4>3
      <4> QED BY <4>1, <4>2, <4>3
    <3>6. UnitMoves(s, t, Q, k, N)
      BY <3>2, <3>4, <3>5 DEF UnitMoves, Moves
    <3> QED BY <3>1, <3>6 DEF s, t
  <2> HIDE DEF st2
  <2> QED BY <1>1, <2>1, ResultOn
<1>3. AddressIsAimed(Q, g, ad2, k)
  <2>1. n \in DOMAIN ad2 => n \in DOMAIN ad /\ ad2[n] = ad[n]
    BY DEF Remove
  <2>2. IsValue(Q[k].e.addr) => Q[k].e.addr.val \in Word
    BY OperandFacts DEF ReorderBufferEntry
  <2>3. Waits(P[k].e.addr, N)
    BY DEF AddressIsAimed, Aimed, Waits
  <2>4. n \in ReadyAddresses(ad) => /\ n \in DOMAIN ad /\ P[k].e.inst.opcode # "Amo"
                                    /\ IsValue(ad[n].op1) /\ ad[n].op1.val \in Word
    BY OperandFacts DEF ReadyAddresses, UsesAddressUnit, AddressEntry
  <2> HIDE DEF ad2
  <2>5. \/ Waits(P[k].e.addr, N) /\ Moves(P[k].e.addr, Q[k].e.addr, Q, k)
        \/ /\ n \in DOMAIN ad /\ P[k].e.inst.opcode # "Amo"
           /\ IsValue(ad[n].op1) /\ ad[n].op1.val \in Word
           /\ Q[k].e.addr = Value(Address(ad[n]))
    BY <2>3, <2>4 DEF Moves
  <2>6. n \in DOMAIN ad2 =>
          /\ n \in DOMAIN ad
          /\ ad2[n].imm = ad[n].imm
          /\ Waits(ad[n].op1, N)
          /\ Moves(ad[n].op1, ad2[n].op1, Q, k)
    BY <2>1 DEF Moves
  <2> QED BY <1>1, <2>2, <2>5, <2>6, AddressOn
<1> QED BY <1>2, <1>3

(* An execute, instruction by instruction. *)
Executed(k) ==
  /\ LoadStep(Pending[k].node, Pending[k].e, LoadedEntries[buf[k]], load_buf, load_buf', mem)
  /\ StoreStep(k, LoadedEntries[buf[k]], Pending'[k].e, HeadEntry, mem, mem')
  /\ Pending'[k].node = Pending[k].node
  /\ Pending'[k].e \in ReorderBufferEntry
  /\ Pending'[k].e.inst = Pending[k].e.inst /\ Pending'[k].e.pc = Pending[k].e.pc
  /\ Pending'[k].e.rd = Pending[k].e.rd
  /\ Pending'[k].e.reg_value = Pending[k].e.reg_value
  /\ Pending'[k].e.addr = IF Pending[k].node \in ReadyAddresses(addresses)
                            THEN Value(Address(addresses[Pending[k].node])) ELSE Pending[k].e.addr
  /\ Pending[k].node = buf[k] /\ Pending[k].e = entry[buf[k]] /\ buf[k] \in DOMAIN entry
  /\ Pending'[k].node = buf'[k] /\ Pending'[k].e = entry'[buf'[k]]

LEMMA ExecutesAll ==
  ASSUME PipelineInv, PipelineInv', OrderInv, OrderInv', Execute
  PROVE  /\ Len(Pending) \in Nat /\ Len(Pending') = Len(Pending) /\ Len(Pending) = Len(buf)
         /\ \A k \in InFlight : Executed(k)
<1>1. /\ stage # "retire" /\ stage' # "retire" /\ buf' = buf
  BY DEF Execute, At
<1>2. PendingIsList /\ PendingIsList'
  BY <1>1, ListNow, ListNext DEF BetweenCommits
<1>3. ASSUME NEW k \in InFlight PROVE Executed(k)
  <2> DEFINE n == buf[k]
             e2 == LoadedEntries[n]
             e3 == entry'[n]
  <2>1. /\ k \in 1 .. Len(buf) /\ k \in 1 .. Len(buf')
        /\ Pending[k].node = n /\ Pending[k].e = entry[n] /\ n \in DOMAIN entry
        /\ Pending'[k].node = buf'[k] /\ Pending'[k].e = e3 /\ buf'[k] = n
        /\ e3 \in ReorderBufferEntry
    BY <1>1, <1>2 DEF PendingIsList, InFlight
  <2>2. LoadStep(n, entry[n], e2, load_buf, load_buf', mem)
    BY <2>1, ExecuteSteps
  <2>3. e3.addr = IF n \in ReadyAddresses(addresses) THEN Value(Address(addresses[n]))
                  ELSE entry[n].addr
    BY <2>1, ExecuteAdvances
  <2>4. /\ DOMAIN LoadedEntries = DOMAIN entry
        /\ \/ mem' = mem /\ entry' = LoadedEntries
           \/ /\ StoreReady(HeadEntry) /\ StoreFits(HeadEntry) /\ buf # <<>>
              /\ entry' = [LoadedEntries EXCEPT ![Head(buf)].mem_rem_cycle = 0]
              /\ mem' = Stored(HeadEntry, mem)
    BY LoadedFacts DEF Execute, HeadStores, ExecutePanicking
  <2>5. buf # <<>> => Head(buf) = buf[1] /\ (n = buf[1] <=> k = 1)
    <3>1. buf \in Seq(Nodes) /\ 1 \in 1 .. Len(buf)
      BY <2>1, ListFacts
    <3> QED BY <2>1, <3>1, ListFacts
  <2>6. StoreStep(k, e2, e3, HeadEntry, mem, mem')
    <3>1. CASE mem' = mem /\ entry' = LoadedEntries
      BY <3>1 DEF StoreStep
    <3>2. CASE /\ StoreReady(HeadEntry) /\ StoreFits(HeadEntry) /\ buf # <<>>
               /\ entry' = [LoadedEntries EXCEPT ![Head(buf)].mem_rem_cycle = 0]
               /\ mem' = Stored(HeadEntry, mem)
      <4>1. IF k = 1 THEN HeadEntry = e2 /\ e3 = [e2 EXCEPT !.mem_rem_cycle = 0]
            ELSE e3 = e2
        BY <2>1, <2>4, <2>5, <3>2 DEF HeadEntry
      <4> QED BY <3>2, <4>1 DEF StoreStep
    <3> QED BY <2>4, <3>1, <3>2
  <2> HIDE DEF e2, e3, n
  <2>7. /\ e2 \in ReorderBufferEntry
        /\ e2.inst = entry[n].inst /\ e2.rd = entry[n].rd /\ e2.pc = entry[n].pc
        /\ e2.reg_value = entry[n].reg_value
    BY <2>2 DEF LoadStep
  <2>8. /\ e3.inst = e2.inst /\ e3.rd = e2.rd /\ e3.pc = e2.pc
        /\ e3.reg_value = e2.reg_value
    BY <2>6, <2>7 DEF StoreStep, ReorderBufferEntry
  <2> QED BY <2>1, <2>2, <2>3, <2>6, <2>7, <2>8 DEF Executed, e2, e3, n
<1> QED BY <1>1, <1>2, <1>3 DEF PendingIsList

(* What HasLoaded says of an entry. *)
LEMMA LoadedHasLoaded ==
  ASSUME PipelineInv', OrderInv', stage' # "retire", NEW k \in 1 .. Len(buf'),
         IsLoaded(Pending'[k], load_buf')
  PROVE  HasLoaded(buf[k])'
<1>1. /\ Pending'[k].node = buf'[k] /\ Pending'[k].e = entry'[buf'[k]]
      /\ entry'[buf'[k]] \in ReorderBufferEntry
  BY ListNext DEF BetweenCommits, PendingIsList
<1>2. entry'[buf'[k]].inst \in Instruction
  BY <1>1 DEF ReorderBufferEntry
<1>3. \A inst \in Instruction : inst.opcode = "Load" => inst.function # "Scw"
  BY InstructionFields DEF FunctionsOf, FpOpcodes
<1> QED BY <1>1, <1>2, <1>3 DEF HasLoaded, IsLoaded, UsesLoadBuffer

LEMMA ExecuteKeepsData ==
  ASSUME PipelineInv, PipelineInv', OrderInv, OrderInv', DataInv, LoadsHaveWaited', Execute
  PROVE  DataInv'
<1> DEFINE P == Pending
           Q == Pending'
           N == Producing
           st == station
           st2 == StationExecuted(station)
           ad2 == Remove(addresses, ReadyAddresses(addresses))
           load2 == load_buf'
           m2 == mem'
           h == HeadEntry
<1>1. /\ station' = st2 /\ addresses' = ad2
      /\ stage = "execute" /\ stage' = "issue" /\ UNCHANGED <<code, gpr, buf, completed>>
  BY DEF Execute, At, loopVars
<1>2. /\ Len(P) \in Nat /\ Len(Q) = Len(P) /\ Len(P) = Len(buf)
      /\ \A k \in InFlight : Executed(k)
  BY ExecutesAll
<1>3. /\ station \in [DOMAIN station -> RSEntry]
      /\ addresses \in [DOMAIN addresses -> AddressEntry]
      /\ mem \in Memory /\ gpr \in [Regs -> Word]
  BY DEF PipelineInv, TypeOK
<1>4. ~StationPanics(station)
  BY DEF Execute, ExecutePanicking
<1>5. ASSUME NEW k \in InFlight
      PROVE  DataAt(Q, gpr, st2, ad2, load2, m2, k)
  <2>1. k \in Nat /\ k \in 1 .. Len(buf) /\ k \in 1 .. Len(buf')
        /\ \A j \in 1 .. k - 1 : j \in InFlight
    BY <1>1, <1>2 DEF InFlight
  <2>2. DataAt(P, gpr, station, addresses, load_buf, mem, k)
    BY DEF DataInv, ValuesAreRight
  <2>3. LET p == P[k] IN
        /\ p.e \in ReorderBufferEntry
        /\ p.node \in DOMAIN station => /\ Waits(station[p.node].op1, N)
                                        /\ Waits(station[p.node].op2, N)
        /\ p.node \in DOMAIN addresses => Waits(addresses[p.node].op1, N)
        /\ p.e.inst.opcode \in {"Store", "Amo"} => /\ Waits(p.e.addr, N)
                                                   /\ Waits(p.e.mem_value, N)
    BY InFlightWaits
  <2>4. ~HasStored(P[k].e)
    <3>1. P[k].e = Ith(k)
      BY <1>2 DEF Executed, Ith
    <3> QED BY <1>1, <2>1, <3>1 DEF DataInv, StoresLeave, Listed
  <2>5. /\ P[k].node \in DOMAIN load_buf => UsesLoadBuffer(P[k].e.inst) /\ P[k].e.reg_value = NULL
        /\ P[k].node \in DOMAIN addresses => UsesAddressUnit(P[k].e.inst)
    <3>1. P[k].node = buf[k] /\ P[k].e = entry[buf[k]]
      BY <1>2 DEF Executed
    <3> QED BY <3>1 DEF PipelineInv, ProducersAreUnfinished, AddressesAreMissing, Producing
  <2>6. /\ LoadStep(P[k].node, P[k].e, LoadedEntries[buf[k]], load_buf, load2, mem)
        /\ StoreStep(k, LoadedEntries[buf[k]], Q[k].e, h, mem, m2)
        /\ Q[k].e \in ReorderBufferEntry /\ Q[k].node = P[k].node
        /\ Q[k].e.inst = P[k].e.inst /\ Q[k].e.pc = P[k].e.pc
        /\ Q[k].e.reg_value = P[k].e.reg_value
        /\ Q[k].e.addr = IF P[k].node \in ReadyAddresses(addresses)
                           THEN Value(Address(addresses[P[k].node])) ELSE P[k].e.addr
    BY <1>2 DEF Executed
  <2>7. ASSUME NEW j \in 1 .. k - 1
        PROVE  /\ Q[j].node = P[j].node /\ Q[j].e.rd = P[j].e.rd
               /\ P[j].e.reg_value # NULL => Q[j].e.reg_value = P[j].e.reg_value
    <3>1. Executed(j)
      BY <1>2, <2>1
    <3> QED BY <3>1 DEF Executed
  <2>8. ASSUME k # 1, IsLoaded(Q[k], load2), IsStoring(h.inst), m2 # mem
        PROVE  Touches(Q[k].e) \cap Touches(h) = {}
    <3>1. HasLoaded(buf[k])'
      BY <1>1, <2>1, <2>8, LoadedHasLoaded
    <3>2. 1 \in 1 .. k - 1 /\ 1 \in InFlight /\ 1 \in 1 .. Len(buf) /\ buf[1] = Head(buf)
      BY <1>2, <2>1, <2>8, ListFacts DEF InFlight
    <3>3. Executed(1) /\ Executed(k)
      BY <1>2, <3>2
    <3>4. /\ h = LoadedEntries[buf[1]] /\ h \in ReorderBufferEntry
          /\ Q[1].e = entry'[buf'[1]] /\ Q[k].e = entry'[buf'[k]]
      BY <3>2, <3>3 DEF Executed, HeadEntry, LoadStep
    <3>5. Q[1].e.inst = h.inst /\ Q[1].e.addr = h.addr
      BY <3>3, <3>4 DEF Executed, StoreStep, ReorderBufferEntry
    <3>6. IsStoring(entry'[buf'[1]].inst) =>
            Touches(entry'[buf'[k]]) \cap Touches(entry'[buf'[1]]) = {}
      BY <2>1, <3>1, <3>2 DEF LoadsHaveWaited, Listed, Ith, Touches
    <3> QED BY <2>8, <3>4, <3>5, <3>6 DEF Touches
  <2> HIDE DEF P, Q, N, st, load2, m2, h
  <2>9. Follows(P, gpr, k, Q, gpr, k, N)
    BY <2>1, <2>6, <2>7, FollowsInPlace
  <2>10. ResultIsComputed(Q, gpr, st2, k) /\ AddressIsAimed(Q, gpr, ad2, k)
    BY <1>3, <1>4, <2>1, <2>2, <2>3, <2>5, <2>6, <2>9, ExecuteUnitsRight DEF DataAt
  <2> HIDE DEF st2, ad2
  <2>11. LoadIsCurrent(Q, load2, m2, k) /\ StoreIsRight(Q, gpr, load2, k)
         /\ StoreIsOldest(Q, load2, k)
    BY <1>3, <2>1, <2>2, <2>3, <2>4, <2>5, <2>6, <2>8, <2>9, ExecuteMemoryRight DEF DataAt
  <2> QED BY <2>10, <2>11 DEF DataAt
<1>6. ValuesAreRight'
  <2>1. ASSUME NEW k \in 1 .. Len(Pending')
        PROVE  DataAt(Pending', gpr', station', addresses', load_buf', mem', k)
    <3>1. DataAt(Q, gpr, st2, ad2, load2, m2, k)
      BY <1>2, <1>5 DEF InFlight
    <3> HIDE DEF st2, ad2
    <3> QED BY <1>1, <3>1
  <2> QED BY <2>1 DEF ValuesAreRight, InFlight
<1>7. TextIsFetched'
  <2>1. ASSUME NEW k \in 1 .. Len(Pending')
        PROVE  \E j \in InFlight : /\ Pending'[k].e.pc = Pending[j].e.pc
                                   /\ Pending'[k].e.inst = Pending[j].e.inst
                                   /\ Pending'[k].e.rd = Pending[j].e.rd
    <3>1. k \in InFlight /\ Executed(k)
      BY <1>2 DEF InFlight
    <3> QED BY <3>1 DEF Executed
  <2> QED BY <1>1, <2>1, TextStays DEF DataInv
<1>8. StoresLeave'
  BY <1>1 DEF StoresLeave
<1>9. EcallEndsCommit'
  BY <1>1 DEF DataInv, EcallEndsCommit
<1> QED BY <1>6, <1>7, <1>8, <1>9 DEF DataInv

-----------------------------------------------------------------------------
(* All the steps                                                           *)

LEMMA InitIsRight == Init /\ EcallsNameNoRegister => DataInv
<1> SUFFICES ASSUME Init, EcallsNameNoRegister PROVE DataInv
  OBVIOUS
<1>1. PipelineInv
  BY InitEstablishes
<1>2. Len(completed) = 0 /\ retired = 0 /\ Len(buf) = 0
  BY DEF Init
<1>3. Len(Pending) = 0
  BY <1>1, <1>2, PendingNow DEF PendingIs
<1> QED BY <1>2, <1>3 DEF DataInv, TextIsFetched, ValuesAreRight, StoresLeave, EcallEndsCommit,
                          InFlight, Listed

LEMMA DataPreserved ==
  ASSUME PipelineInv, PipelineInv', OrderInv, OrderInv', DataInv, LoadsHaveWaited', [Next]_vars
  PROVE  DataInv'
<1>1. CASE PopCompleted
  BY <1>1, PopKeepsData
<1>2. CASE Retire
  <2>1. CASE RetirePredicted \/ RetireValue
    BY <2>1, RetireKeepsData
  <2>2. CASE RetireMispredicted
    BY <2>2, FlushKeepsData
  <2>3. CASE RetireEcall
    BY <2>3, EcallKeepsData
  <2>4. CASE RetirePanics
    BY <2>4, QuietSteps, QuietKeepsData DEF RetirePanics, Panic, regVars
  <2> QED BY <1>2, <2>1, <2>2, <2>3, <2>4 DEF Retire
<1>3. CASE CommitDone
  BY <1>3, DrainKeepsData
<1>4. CASE WriteResult
  BY <1>4, WriteResultKeepsData
<1>5. CASE Execute
  BY <1>5, ExecuteKeepsData
<1>6. CASE Issue
  BY <1>6, IssueKeepsData
<1>7. CASE ExecutePanics \/ IssuePanics
  BY <1>7, QuietSteps, QuietKeepsData DEF ExecutePanics, IssuePanics, Panic, regVars
<1>8. CASE IssueStalls \/ Ended \/ UNCHANGED vars
  BY <1>8, QuietSteps, QuietKeepsData DEF IssueStalls, Ended, vars, regVars
<1> QED BY <1>1, <1>2, <1>3, <1>4, <1>5, <1>6, <1>7, <1>8 DEF Next

(* In a run in which no load overtakes a store, every value in flight is   *)
(* right: operands, results, addresses, what loads have read and what      *)
(* stores will write are those the sequential machine has when it comes to *)
(* the instruction, whatever the units' order and the predictions.  A load *)
(* that overtakes reads what the sequential machine does not.              *)
THEOREM ValuesInFlightAreRight == Spec /\ EcallsNameNoRegister /\ [](~LoadOvertakes) => []DataInv
<1>1. Init /\ EcallsNameNoRegister => LoadsHaveWaited /\ DataInv
  BY InitHasWaited, InitIsRight
<1>2. PipelineInv /\ PipelineInv' /\ LoadsHaveWaited /\ ~LoadOvertakes /\ [Next]_vars
        => LoadsHaveWaited'
  BY WaitedPreserved
<1>3. PipelineInv /\ PipelineInv' /\ OrderInv /\ OrderInv' /\ DataInv /\
      LoadsHaveWaited' /\ [Next]_vars
        => DataInv'
  BY DataPreserved
<1>4. Spec /\ EcallsNameNoRegister => [](PipelineInv /\ OrderInv)
  BY PTL, OrderHolds
<1> QED BY <1>1, <1>2, <1>3, <1>4, PTL DEF Spec
=============================================================================
