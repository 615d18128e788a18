-------------------------- MODULE ReservationStation -------------------------
(***************************************************************************)
(* pipeline/reservation_staion.rs and functional_units/address.rs.         *)
(* station maps a node to its RSEntry; addresses is the AddressUnit's buf, *)
(* whose entries leave in the call that computes them.                     *)
(***************************************************************************)
EXTENDS LoadBuffer

RSEntry ==
  [status : {"Wait", "Execute", "Finished"}, function : Function,
   op1 : Operand, op2 : Operand, value : Word,
   remaining_clock : 0 .. (MulCycle + DivCycle)]

AddressEntry == [is_jalr : BOOLEAN, op1 : Operand, imm : Word]

RemainClock(function) ==
  CASE function \in MulFunctions -> MulCycle
    [] function \in DivFunctions -> DivCycle
    [] OTHER -> 1

-----------------------------------------------------------------------------

(* ReservationStation::issue sends an instruction to one, two or three of  *)
(* the units.                                                              *)
UsesAddressUnit(inst) == inst.opcode \in {"Store", "Load", "Jalr"}
UsesLoadBuffer(inst)  ==
  inst.opcode = "Load" \/ (inst.opcode = "Amo" /\ inst.function # "Scw")
UsesStation(inst)     ==
  /\ inst.opcode \notin {"Store", "Load"}
  /\ inst.opcode = "Amo" => inst.function = "Scw"

(* AddressUnit::issue. *)
NewAddressEntry(regs, entry, inst) ==
  [is_jalr |-> inst.opcode = "Jalr",
   op1 |-> GetRegValue(regs, entry, inst.rs1),
   imm |-> OrZero(inst.imm)]

StationOperands(regs, entry, pc, inst) ==
  CASE inst.opcode \in {"Jal", "Jalr"} -> <<Value(pc), Value(WordSize)>>
    [] inst.opcode = "AuiPc"           -> <<Value(pc), Value(inst.imm)>>
    [] inst.opcode = "Lui"             -> <<Value(0), Value(inst.imm)>>
    [] inst.opcode = "Amo"             -> <<Value(0), Value(0)>>
    [] OTHER -> <<GetRegValue(regs, entry, OrZero(inst.rs1)),
                  IF inst.rs2 # NULL THEN GetRegValue(regs, entry, inst.rs2)
                  ELSE Value(OrZero(inst.imm))>>

NewRSEntry(regs, entry, pc, inst) ==
  LET operand == StationOperands(regs, entry, pc, inst)
  IN  [status |-> "Wait", function |-> inst.function,
       op1 |-> operand[1], op2 |-> operand[2], value |-> 0,
       remaining_clock |-> RemainClock(inst.function)]

(* HashMap::insert. *)
Insert(map, node, new) ==
  [n \in DOMAIN map \cup {node} |-> IF n = node THEN new ELSE map[n]]

(* HashMap::remove of a set of keys. *)
Remove(map, nodes) == [n \in DOMAIN map \ nodes |-> map[n]]

-----------------------------------------------------------------------------

(* AddressUnit::execute: every entry whose register is known gives its     *)
(* address to the reorder buffer and leaves.                               *)
ReadyAddresses(addresses) == {n \in DOMAIN addresses : IsValue(addresses[n].op1)}

Address(a) == WrapAdd(a.op1.val, a.imm)

EntriesAddressed(addresses, entry) ==
  [n \in DOMAIN entry |->
     IF n \in ReadyAddresses(addresses)
       THEN [entry[n] EXCEPT !.addr = Value(Address(addresses[n]))]
       ELSE entry[n]]

(* The pc AddressUnit::execute returns: the target of a finished jalr.     *)
(* Zero stands for "none", so a jalr to address 0 returns nothing.         *)
JalrTargets(addresses) ==
  {Address(addresses[n]) : n \in {m \in ReadyAddresses(addresses) :
                                    addresses[m].is_jalr}} \ {0}

(* The general units: every unfinished entry with both operands spends a   *)
(* clock, and computes its value on the last one.                          *)
Ready(s) == s.status # "Finished" /\ IsValue(s.op1) /\ IsValue(s.op2)
Ending(s) == Ready(s) /\ s.remaining_clock = 1

StationExecuted(station) ==
  [n \in DOMAIN station |->
     LET s == station[n] IN
     IF Ending(s)
       THEN [s EXCEPT !.status = "Finished", !.remaining_clock = 0,
                      !.value = Alu(s.function, s.op1.val, s.op2.val)]
     ELSE IF Ready(s)
       THEN [s EXCEPT !.status = "Execute", !.remaining_clock = @ - 1]
     ELSE s]

UnitPanics(s) == Ending(s) /\ AluPanics(s.function, s.op1.val, s.op2.val)

StationPanics(station) == \E n \in DOMAIN station : UnitPanics(station[n])

-----------------------------------------------------------------------------

(* completed_jobs: the finished loads and the finished station entries.    *)
FinishedStation(station) ==
  [n \in {m \in DOMAIN station : station[m].status = "Finished"} |->
     [reg_value |-> station[n].value, exception |-> "Ok"]]

CompletedJobs(load, station) ==
  LET loads    == FinishedLoads(load)
      generals == FinishedStation(station)
  IN  [n \in DOMAIN loads \cup DOMAIN generals |->
         IF n \in DOMAIN loads THEN loads[n] ELSE generals[n]]

(* ReservationStation::propagate and AddressUnit::propagate. *)
StationPropagated(station, jobs) ==
  [n \in DOMAIN station |->
     [station[n] EXCEPT !.op1 = Resolve(@, jobs), !.op2 = Resolve(@, jobs)]]

AddressesPropagated(addresses, jobs) ==
  [n \in DOMAIN addresses |-> [addresses[n] EXCEPT !.op1 = Resolve(@, jobs)]]
=============================================================================
