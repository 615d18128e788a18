------------------------------ MODULE Pipeline -------------------------------
(***************************************************************************)
(* pipeline::Pipeline, the whole simulator.  run_clock calls commit,       *)
(* write_result, execute and issue in turn; stage is the point it has      *)
(* reached.  commit pops the completed prefix of the reorder buffer and    *)
(* retires it entry by entry, issue fetches at most two instructions.      *)
(* An unwrap of an Err, an index out of range and a failing arithmetic     *)
(* operation end the process: status becomes "panicked".                   *)
(***************************************************************************)
EXTENDS ReservationStation, BranchPredictor, SystemCall

CONSTANTS
  Programs,        \* the text segments to run: pc -> decoded instruction
  InitialMemory,   \* the memory ProcessMemory::new builds
  EntryPoint,      \* elf.entry
  StackPointer,    \* stack_pointer_init
  AllocChoice(_)   \* which of the free addresses malloc may return next

(* The text segment is read-only, as linkers lay it out: a program that    *)
(* writes its own instructions, where the checks of writes let it, is not  *)
(* modelled.                                                               *)
ASSUME ImageAssumption ==
  /\ \A text \in Programs : /\ DOMAIN text \subseteq ReadOnlyStart .. (ReadOnlyEnd - 1)
                            /\ \A p \in DOMAIN text : text[p] \in Instruction
  /\ InitialMemory \in Memory
  /\ EntryPoint \in Word
  /\ StackPointer \in Word

VARIABLES
  code,         \* the read-only text segment
  mem,          \* ProcessMemory's bytes
  pc,           \* reg.pc
  gpr,          \* reg.gpr
  related_rob,  \* reg.related_rob: the node that will write each register
  buf,          \* rob.buf: the nodes, oldest first
  entry,        \* the contents of the live nodes
  load_buf,     \* rs.load_buf
  station,      \* rs.station
  addresses,    \* rs.address_unit
  branch_map,   \* branch_predictor
  completed,    \* commit's local completed_entries
  retired,      \* how many of them have been retired
  stage,        \* where run_clock is
  status        \* of the process

regVars  == <<pc, gpr, related_rob>>
rsVars   == <<load_buf, station, addresses>>
robVars  == <<buf, entry>>
loopVars == <<completed, retired>>
vars == <<code, mem, regVars, robVars, rsVars, branch_map, loopVars, stage, status>>

regs == [gpr |-> gpr, related_rob |-> related_rob]

NoEntries == [n \in {} |-> 0]

Init ==
  /\ code \in Programs
  /\ mem = InitialMemory
  /\ pc = EntryPoint
  /\ gpr = [r \in Regs |-> IF r = 2 THEN StackPointer ELSE 0]
  /\ related_rob = [r \in Regs |-> NULL]
  /\ buf = <<>>
  /\ entry = NoEntries
  /\ load_buf = NoEntries
  /\ station = NoEntries
  /\ addresses = NoEntries
  /\ branch_map = NoEntries
  /\ completed = <<>>
  /\ retired = 0
  /\ stage = "commit"
  /\ status = "running"

At(s) == status = "running" /\ stage = s

Panic == /\ status' = "panicked"
         /\ UNCHANGED <<code, mem, regVars, robVars, rsVars, branch_map, loopVars, stage>>

-----------------------------------------------------------------------------
(* commit                                                                  *)

(* ReorderBuffer::completed_entries: every completed entry at the front of *)
(* the list is popped, which frees its node, before any is retired.        *)
PopCompleted ==
  /\ At("commit")
  /\ \E n \in 0 .. Len(buf) :
       /\ IsCompletedPrefix(buf, entry, n)
       /\ completed' = [k \in 1 .. n |-> [node |-> buf[k], e |-> entry[buf[k]]]]
       /\ buf' = SubSeq(buf, n + 1, Len(buf))
       /\ entry' = Remove(entry, {buf[k] : k \in 1 .. n})
  /\ retired' = 0
  /\ stage' = "retire"
  /\ UNCHANGED <<code, mem, regVars, rsVars, branch_map, status>>

(* The entry ReorderBufferEntry::retire is called on next. *)
Retiring == At("retire") /\ retired < Len(completed)
Current  == completed[retired + 1]

IsBranch(e) == e.inst.opcode = "Branch"
IsEcall(e)  == e.inst.function = "Ecall"

(* A branch that went as predicted trains the predictor. *)
RetirePredicted ==
  /\ Retiring
  /\ Current.e.mem_exception = "Ok"
  /\ IsBranch(Current.e)
  /\ Current.e.reg_value = AsWord(Current.e.branch_pred)
  /\ branch_map' = Update(branch_map, Current.e.pc, Current.e.reg_value)
  /\ retired' = retired + 1
  /\ UNCHANGED <<code, mem, regVars, robVars, rsVars, completed, stage, status>>

(* Where a branch goes. *)
BranchTargetAlways(e) == WrapAdd(e.pc, e.inst.imm)
BranchTarget(e) ==
  IF e.reg_value = 1 THEN WrapAdd(e.pc, e.inst.imm) ELSE NextPc(e.pc)

(* take_while and truncate: no popped entry after the n-th is retired.     *)
NotTruncated(entries, n) == entries
Truncated(entries, n)    == SubSeq(entries, 1, n)

(* clear_all_buffers' reset of the renaming table. *)
RenamesKept    == related_rob
RenamesCleared == [r \in Regs |-> NULL]

(* One that did not also drops everything younger, the popped entries that *)
(* were not retired yet included, and redirects the fetch.                 *)
RetireMispredicted ==
  LET e == Current.e IN
  /\ Retiring
  /\ e.mem_exception = "Ok"
  /\ IsBranch(e)
  /\ e.reg_value # AsWord(e.branch_pred)
  /\ branch_map' = Update(branch_map, e.pc, e.reg_value)
  /\ pc' = BranchTarget(e)
  /\ related_rob' = RenamesCleared
  /\ buf' = <<>>
  /\ entry' = NoEntries
  /\ load_buf' = NoEntries
  /\ station' = NoEntries
  /\ addresses' = NoEntries
  /\ completed' = Truncated(completed, retired + 1)
  /\ retired' = retired + 1
  /\ UNCHANGED <<code, mem, gpr, stage, status>>

RetireEcall ==
  /\ Retiring
  /\ Current.e.mem_exception = "Ok"
  /\ IsEcall(Current.e)
  /\ \E ret \in Word : /\ SyscallReturns(gpr, mem, ret, mem')
                       /\ gpr' = WriteReg(gpr, SyscallRetReg, ret)
  /\ retired' = retired + 1
  /\ UNCHANGED <<code, pc, related_rob, robVars, rsVars, branch_map, completed,
                 stage, status>>

(* Any other entry writes its register and frees its renaming. *)
RetireValue ==
  LET e == Current.e IN
  /\ Retiring
  /\ e.mem_exception = "Ok"
  /\ ~IsBranch(e) /\ ~IsEcall(e)
  /\ IF e.reg_value = NULL THEN UNCHANGED <<gpr, related_rob>>
     ELSE /\ gpr' = WriteReg(gpr, e.rd, e.reg_value)
          /\ related_rob' = Freed(related_rob, e.rd, Current.node)
  /\ retired' = retired + 1
  /\ UNCHANGED <<code, mem, pc, robVars, rsVars, branch_map, completed, stage, status>>

RetirePanics ==
  /\ Retiring
  /\ \/ Current.e.mem_exception = "Err"
     \/ IsEcall(Current.e) /\ SyscallFails(gpr)
  /\ Panic

(* All retired: is_program_finished, or on to write_result. *)
CommitDone ==
  /\ At("retire")
  /\ retired = Len(completed)
  /\ IF (\E k \in 1 .. retired : IsEcall(completed[k].e)) /\ AsksToExit(gpr)
       THEN status' = "finished" /\ stage' = stage
       ELSE status' = status /\ stage' = "write_result"
  /\ completed' = <<>>
  /\ retired' = 0
  /\ UNCHANGED <<code, mem, regVars, robVars, rsVars, branch_map>>

-----------------------------------------------------------------------------
(* write_result and execute                                                *)

WriteResult ==
  LET jobs == CompletedJobs(load_buf, station) IN
  /\ At("write_result")
  /\ load_buf' = Remove(load_buf, DOMAIN jobs)
  /\ station' = StationPropagated(Remove(station, DOMAIN jobs), jobs)
  /\ addresses' = AddressesPropagated(addresses, jobs)
  /\ entry' = Propagate(entry, jobs)
  /\ stage' = "execute"
  /\ UNCHANGED <<code, mem, regVars, buf, branch_map, loopVars, status>>

(* ReservationStation::execute: the address unit first, then the loads,    *)
(* then the store at the head of the list, then the general units.         *)
AddressedEntries == EntriesAddressed(addresses, entry)
LoadedEntries    == EntriesLoaded(load_buf, buf, AddressedEntries, mem)

HeadEntry  == LoadedEntries[Head(buf)]
HeadStores == buf # <<>> /\ StoreReady(HeadEntry)

ExecutePanicking ==
  \/ \E n \in EndingLoads(load_buf, buf, AddressedEntries) :
       LoadPanics(AddressedEntries[n], mem)
  \/ HeadStores /\ ~StoreFits(HeadEntry)
  \/ StationPanics(station)

Execute ==
  /\ At("execute")
  /\ ~ExecutePanicking
  /\ addresses' = Remove(addresses, ReadyAddresses(addresses))
  /\ load_buf' = LoadsExecuted(load_buf, buf, AddressedEntries, mem)
  /\ IF HeadStores
       THEN /\ entry' = [LoadedEntries EXCEPT ![Head(buf)].mem_rem_cycle = 0]
            /\ mem' = Stored(HeadEntry, mem)
       ELSE /\ entry' = LoadedEntries
            /\ mem' = mem
  /\ station' = StationExecuted(station)
  /\ IF JalrTargets(addresses) = {} THEN pc' = pc ELSE pc' \in JalrTargets(addresses)
  /\ stage' = "issue"
  /\ UNCHANGED <<code, gpr, related_rob, buf, branch_map, loopVars, status>>

ExecutePanics == At("execute") /\ ExecutePanicking /\ Panic

-----------------------------------------------------------------------------
(* issue                                                                   *)

(* Mutants: an ecall, or a jalr, that does not hold the fetch. *)
EcallDoesNotStall ==
  /\ buf # <<>>
  /\ LET last == entry[buf[Len(buf)]] IN last.inst.opcode = "Jalr" /\ ~IsCompleted(last)

JalrDoesNotStall == buf # <<>> /\ IsEcall(entry[buf[Len(buf)]])

(* Nothing is fetched behind an ecall, or behind a jalr whose target is    *)
(* not known; the test is made once for the two slots.                     *)
MustStall ==
  /\ buf # <<>>
  /\ LET last == entry[buf[Len(buf)]] IN
       \/ IsEcall(last)
       \/ last.inst.opcode = "Jalr" /\ ~IsCompleted(last)

IssueStalls ==
  /\ At("issue")
  /\ MustStall
  /\ stage' = "commit"
  /\ UNCHANGED <<code, mem, regVars, robVars, rsVars, branch_map, loopVars, status>>

Fetching == (At("issue") /\ ~MustStall) \/ At("issue_second")

(* Floating-point instructions are replaced by a no-op. *)
Fetched == IF code[pc].opcode \in FpOpcodes THEN Nop ELSE code[pc]

(* Where the fetch goes after inst at p; a jalr leaves the pc on itself.   *)
FetchNext(inst, p, prediction) ==
  CASE inst.opcode = "Jal"                   -> WrapAdd(p, inst.imm)
    [] inst.opcode = "Jalr"                  -> p
    [] inst.opcode = "Branch" /\ prediction  -> WrapAdd(p, inst.imm)
    [] OTHER                                 -> NextPc(p)

(* After a jump or an ecall the second slot stays empty. *)
OnlyJumpsEndGroup(inst) == inst.opcode \in {"Jal", "Jalr"}
EndsGroup(inst) == inst.opcode \in {"Jal", "Jalr"} \/ inst.function = "Ecall"

(* rs.issue reads the register file before set_reg_rob_index renames rd.   *)
RegsAfterRenaming(inst, node) ==
  [regs EXCEPT !.related_rob = SetRegRobIndex(related_rob, OrZero(inst.rd), node)]
RegsForUnits(inst, node) == regs

Issue ==
  LET inst       == Fetched
      prediction == inst.opcode = "Branch" /\ Predict(branch_map, pc)
  IN
  /\ Fetching
  /\ pc \in DOMAIN code
  /\ branch_map' = IF inst.opcode = "Branch" THEN Touched(branch_map, pc) ELSE branch_map
  /\ \E node \in Nodes \ DOMAIN entry :
       /\ node \in AllocChoice(Nodes \ DOMAIN entry)
       /\ buf' = Append(buf, node)
       /\ entry' = Insert(entry, node, NewEntry(regs, entry, pc, inst, prediction))
       /\ addresses' = IF UsesAddressUnit(inst)
            THEN Insert(addresses, node, NewAddressEntry(RegsForUnits(inst, node), entry', inst)) ELSE addresses
       /\ load_buf' = IF UsesLoadBuffer(inst)
            THEN Insert(load_buf, node, NewLoad) ELSE load_buf
       /\ station' = IF UsesStation(inst)
            THEN Insert(station, node, NewRSEntry(RegsForUnits(inst, node), entry', pc, inst)) ELSE station
       /\ related_rob' = SetRegRobIndex(related_rob, OrZero(inst.rd), node)
  /\ pc' = FetchNext(inst, pc, prediction)
  /\ stage' = IF stage = "issue" /\ ~EndsGroup(inst) THEN "issue_second" ELSE "commit"
  /\ UNCHANGED <<code, mem, gpr, loopVars, status>>

(* read_inst fails, or the word there is no instruction: words outside the *)
(* text are taken for data that the decoder refuses.                       *)
IssuePanics == Fetching /\ pc \notin DOMAIN code /\ Panic

-----------------------------------------------------------------------------

Retire == \/ RetirePredicted \/ RetireMispredicted \/ RetireEcall \/ RetireValue
          \/ RetirePanics

(* main's loop ends when the process does. *)
Ended == status # "running" /\ UNCHANGED vars

Next == \/ PopCompleted \/ Retire \/ CommitDone
        \/ WriteResult
        \/ Execute \/ ExecutePanics
        \/ IssueStalls \/ Issue \/ IssuePanics
        \/ Ended

Spec == Init /\ [][Next]_vars

(* One thread runs the loop and nothing it calls can block. *)
FairSpec == Spec /\ WF_vars(Next)

-----------------------------------------------------------------------------

Stages == {"commit", "retire", "write_result", "execute", "issue", "issue_second"}

(* Every variable has its type; the four maps are keyed by nodes.          *)
TypeOK ==
  /\ code \in Programs
  /\ mem \in Memory
  /\ pc \in Word
  /\ gpr \in [Regs -> Word]
  /\ related_rob \in [Regs -> Nodes \cup {NULL}]
  /\ buf \in Seq(Nodes)
  /\ entry \in [DOMAIN entry -> ReorderBufferEntry] /\ DOMAIN entry \subseteq Nodes
  /\ load_buf \in [DOMAIN load_buf -> LoadBufferEntry]
  /\ station \in [DOMAIN station -> RSEntry]
  /\ addresses \in [DOMAIN addresses -> AddressEntry]
  /\ branch_map \in [DOMAIN branch_map -> BOOLEAN \X BOOLEAN]
  /\ completed \in Seq([node : Nodes, e : ReorderBufferEntry])
  /\ retired \in 0 .. Len(completed)
  /\ stage \in Stages
  /\ status \in {"running", "finished", "panicked"}
=============================================================================
