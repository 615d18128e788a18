---------------------------- MODULE ReorderBuffer ----------------------------
(***************************************************************************)
(* pipeline/reorder_buffer and the register file's renaming table          *)
(* (register.rs).  The buffer is a linked list whose nodes are named by    *)
(* their heap address: buf is the order of the list, entry maps each live  *)
(* node to its contents, and reading a freed node is a reading outside     *)
(* DOMAIN entry.  regs is the register file: gpr and related_rob.          *)
(***************************************************************************)
EXTENDS Machine

ReorderBufferEntry ==
  [pc : Word, inst : Instruction, mem_value : Operand, reg_value : Word \cup {NULL},
   rd : Regs, addr : Operand, branch_pred : BOOLEAN, mem_rem_cycle : 0 .. MemCycle,
   mem_exception : {"Ok", "Err"}]

(* What a functional unit hands over (FinishedCalc), keyed by rob_idx.     *)
FinishedCalc == [reg_value : Word, exception : {"Ok", "Err"}]

IsCompleted(e) ==
  LET memDone == e.mem_rem_cycle = 0
      regDone == e.reg_value # NULL
  IN  CASE e.inst.opcode = "Store" -> IsValue(e.mem_value) /\ IsValue(e.addr) /\ memDone
        [] e.inst.opcode = "Amo"   -> /\ IsValue(e.mem_value) /\ IsValue(e.addr)
                                      /\ regDone /\ memDone
        [] e.inst.opcode = "Jalr"  -> IsValue(e.addr) /\ regDone
        [] OTHER                   -> regDone

(* completed_entries: n is the length of the completed prefix of the list. *)
IsCompletedPrefix(buf, entry, n) ==
  /\ \A k \in 1 .. n : IsCompleted(entry[buf[k]])
  /\ n < Len(buf) => ~IsCompleted(entry[buf[n + 1]])

(* RegisterFile::get_reg_value; the mutant looks at the renaming alone.    *)
RenamedOrValue(regs, entry, r) ==
  IF regs.related_rob[r] = NULL THEN Value(regs.gpr[r]) ELSE Rob(regs.related_rob[r])

GetRegValue(regs, entry, r) ==
  LET node == regs.related_rob[r]
  IN  IF node = NULL THEN Value(regs.gpr[r])
      ELSE IF entry[node].reg_value # NULL THEN Value(entry[node].reg_value)
      ELSE Rob(node)

(* RegisterFile::set_reg_rob_index. *)
SetRegRobIndex(related, r, node) ==
  IF r = 0 THEN related ELSE [related EXCEPT ![r] = node]

(* retire frees the renaming of a register, unless a younger instruction   *)
(* has renamed it since.                                                   *)
FreedAlways(related, r, node) == [related EXCEPT ![r] = NULL]
Freed(related, r, node) ==
  IF related[r] = node THEN [related EXCEPT ![r] = NULL] ELSE related

(* Register::write, x0 being read-only. *)
WriteReg(gpr, r, value) == IF r = 0 THEN gpr ELSE [gpr EXCEPT ![r] = value]

(* ReorderBuffer::issue: the entry pushed for an instruction.              *)
NewEntry(regs, entry, pc, inst, prediction) ==
  [pc |-> pc,
   inst |-> inst,
   mem_value |-> IF inst.opcode \in {"Store", "Amo"}
                   THEN GetRegValue(regs, entry, inst.rs2) ELSE NoOperand,
   reg_value |-> NULL,
   rd |-> OrZero(inst.rd),
   addr |-> IF inst.opcode = "Amo"
              THEN GetRegValue(regs, entry, inst.rs1) ELSE NoOperand,
   branch_pred |-> inst.opcode = "Branch" /\ prediction,
   mem_rem_cycle |-> MemCycle,
   mem_exception |-> "Ok"]

(* An operand after the finished jobs are broadcast. *)
Resolve(op, jobs) ==
  IF op.tag = "Rob" /\ op.idx \in DOMAIN jobs THEN Value(jobs[op.idx].reg_value) ELSE op

(* The jobs but the node's own. *)
OtherJobs(jobs, node) == [j \in DOMAIN jobs \ {node} |-> jobs[j]]

(* propagate, for every job: the job's own entry takes the result and its  *)
(* operands are skipped, the operands of the others are resolved.  Jobs    *)
(* have different rob_idx, so the order they are broadcast in is immaterial. *)
Propagate(entry, jobs) ==
  [node \in DOMAIN entry |->
     LET e      == entry[node]
         others == OtherJobs(jobs, node)
         own    == node \in DOMAIN jobs
     IN  [e EXCEPT
            !.reg_value     = IF own THEN jobs[node].reg_value ELSE @,
            !.mem_exception = IF own /\ jobs[node].exception = "Err" THEN "Err" ELSE @,
            !.addr          = Resolve(@, others),
            !.mem_value     = Resolve(@, others)]]
=============================================================================
