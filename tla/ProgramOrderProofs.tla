------------------------- MODULE ProgramOrderProofs --------------------------
(***************************************************************************)
(* Proofs about the order of the instructions in flight.  What each step   *)
(* of the pipeline does to them is stated first, position by position and  *)
(* field by field.  From it: OrderInv is inductive with PipelineInv, and   *)
(* so is PathInv, which says that they are one path through the program,   *)
(* in the runs in which no jalr jumps to address 0; loads do not overtake  *)
(* the stores they wait for; and read-only memory stays as it is.  Each    *)
(* flaw of the code that must be avoided is named where it is assumed.     *)
(***************************************************************************)
EXTENDS ProgramOrder, PipelineProofs, WellFoundedInduction

-----------------------------------------------------------------------------
(* What each step does to the instructions in flight                       *)

(* The steps that touch no instruction in flight: a panic, a stall of      *)
(* issue, and the stuttering of a process that ended.                      *)
Quiet ==
  /\ stage' = stage \/ stage' = "commit"
  /\ stage' = "retire" <=> stage = "retire"
  /\ UNCHANGED <<pc, related_rob, buf, entry, load_buf, station, addresses, completed,
                 retired>>

(* The end of commit's loop. *)
Drains ==
  /\ stage = "retire" /\ stage' \in {"retire", "write_result"}
  /\ retired = Len(completed)
  /\ completed' = <<>> /\ retired' = 0
  /\ UNCHANGED <<pc, related_rob, buf, entry, load_buf, station, addresses>>

(* commit pops the first n entries of the list. *)
Pops(n) ==
  /\ Len(completed') = n /\ retired' = 0
  /\ \A k \in 1 .. n : /\ completed'[k] = [node |-> buf[k], e |-> entry[buf[k]]]
                       /\ IsCompleted(entry[buf[k]])
  /\ Len(buf') = Len(buf) - n
  /\ \A i \in 1 .. Len(buf) - n : buf'[i] = buf[n + i]
  /\ DOMAIN entry' = DOMAIN entry \ {buf[k] : k \in 1 .. n}
  /\ \A m \in DOMAIN entry' : entry'[m] = entry[m]
  /\ \A k \in 1 .. n : buf[k] \notin Producing /\ buf[k] \notin DOMAIN addresses
  /\ stage' = "retire"
  /\ UNCHANGED <<pc, related_rob, load_buf, station, addresses>>

(* commit retires one entry and keeps what is younger. *)
RetiresOne ==
  /\ Retiring
  /\ retired' = retired + 1
  /\ stage' = stage
  /\ \/ /\ IsBranch(Current.e) \/ IsEcall(Current.e) \/ Current.e.reg_value = NULL
        /\ related_rob' = related_rob
     \/ related_rob' = Freed(related_rob, Current.e.rd, Current.node)
  /\ UNCHANGED <<pc, buf, entry, load_buf, station, addresses, completed>>

(* commit retires one entry and drops what is younger. *)
Flushes ==
  /\ Retiring
  /\ retired' = retired + 1 /\ Len(completed') = retired'
  /\ buf' = <<>>
  /\ DOMAIN entry' = {} /\ DOMAIN station' = {} /\ DOMAIN addresses' = {}
  /\ related_rob' = [r \in Regs |-> NULL]
  /\ stage' = stage

(* issue appends the instruction at pc to the list, in a new node. *)
Issues(node, inst, e) ==
  /\ node \in Nodes \ DOMAIN entry
  /\ stage \in {"issue", "issue_second"}
  /\ stage = "issue" => ~MustStall
  /\ stage' = IF stage = "issue" /\ ~EndsGroup(inst) THEN "issue_second" ELSE "commit"
  /\ inst \in Instruction
  /\ Len(buf') = Len(buf) + 1 /\ buf'[Len(buf) + 1] = node
  /\ \A i \in 1 .. Len(buf) : buf'[i] = buf[i]
  /\ DOMAIN entry' = DOMAIN entry \cup {node}
  /\ entry'[node] = e
  /\ \A m \in DOMAIN entry : entry'[m] = entry[m]
  /\ e.pc = pc /\ e.inst = inst /\ e.rd = OrZero(inst.rd) /\ e.reg_value = NULL
  /\ inst.opcode # "Amo" => e.addr = NoOperand
  /\ GoodOperand(e.addr) /\ GoodOperand(e.mem_value)
  /\ DOMAIN addresses' = IF UsesAddressUnit(inst) THEN DOMAIN addresses \cup {node}
                         ELSE DOMAIN addresses
  /\ \A n \in DOMAIN addresses : addresses'[n] = addresses[n]
  /\ UsesAddressUnit(inst) => /\ addresses'[node].is_jalr <=> inst.opcode = "Jalr"
                              /\ GoodOperand(addresses'[node].op1)
  /\ DOMAIN station' = IF UsesStation(inst) THEN DOMAIN station \cup {node} ELSE DOMAIN station
  /\ \A n \in DOMAIN station : station'[n] = station[n]
  /\ UsesStation(inst) => /\ GoodOperand(station'[node].op1)
                          /\ GoodOperand(station'[node].op2)
  /\ pc' = FetchNext(inst, pc, e.branch_pred)
  /\ related_rob' = SetRegRobIndex(related_rob, e.rd, node)
  /\ UNCHANGED <<completed, retired>>

(* A step of the units: operands are resolved to values or stay, and the   *)
(* other fields an order depends on stay.                                  *)
Settled(op2, op) == op2 = op \/ IsValue(op2)

Advances ==
  /\ DOMAIN entry' = DOMAIN entry
  /\ \A n \in DOMAIN entry :
       /\ entry'[n].inst = entry[n].inst /\ entry'[n].rd = entry[n].rd
       /\ entry'[n].pc = entry[n].pc /\ entry'[n].branch_pred = entry[n].branch_pred
       /\ Settled(entry'[n].addr, entry[n].addr)
       /\ Settled(entry'[n].mem_value, entry[n].mem_value)
  /\ DOMAIN station' \subseteq DOMAIN station
  /\ \A n \in DOMAIN station' : /\ Settled(station'[n].op1, station[n].op1)
                                /\ Settled(station'[n].op2, station[n].op2)
  /\ DOMAIN addresses' \subseteq DOMAIN addresses
  /\ \A n \in DOMAIN addresses' : /\ Settled(addresses'[n].op1, addresses[n].op1)
                                  /\ addresses'[n].is_jalr = addresses[n].is_jalr
  /\ UNCHANGED <<buf, completed, retired, related_rob>>

-----------------------------------------------------------------------------
(* The lists                                                               *)

LEMMA ListFacts ==
  ASSUME PipelineInv
  PROVE  /\ buf \in Seq(Nodes) /\ Len(buf) \in Nat
         /\ \A i \in 1 .. Len(buf) : buf[i] \in DOMAIN entry /\ buf[i] \in Nodes
         /\ \A i, j \in 1 .. Len(buf) : buf[i] = buf[j] => i = j
         /\ \A n \in DOMAIN entry : /\ \E i \in 1 .. Len(buf) : buf[i] = n
                                    /\ entry[n] \in ReorderBufferEntry
                                    /\ entry[n].inst \in Instruction
         /\ Len(completed) \in Nat /\ retired \in Nat /\ retired <= Len(completed)
         /\ \A k \in 1 .. Len(completed) : /\ completed[k].e \in ReorderBufferEntry
                                           /\ completed[k].e.inst \in Instruction
<1>1. /\ buf \in Seq(Nodes) /\ completed \in Seq([node : Nodes, e : ReorderBufferEntry])
      /\ retired \in 0 .. Len(completed)
      /\ entry \in [DOMAIN entry -> ReorderBufferEntry] /\ DOMAIN entry \subseteq Nodes
  BY DEF PipelineInv, TypeOK
<1>2. \A k \in 1 .. Len(completed) : completed[k] \in [node : Nodes, e : ReorderBufferEntry]
  BY <1>1, ElementOfSeq
<1>3. \A e \in ReorderBufferEntry : e.inst \in Instruction
  BY DEF ReorderBufferEntry
<1>4. Len(buf) \in Nat /\ Len(completed) \in Nat /\ retired \in Nat /\ retired <= Len(completed)
  BY <1>1
<1> QED BY <1>1, <1>2, <1>3, <1>4 DEF PipelineInv, BufferIsLive

LEMMA PopCompletedPops ==
  ASSUME PipelineInv, PopCompleted PROVE \E n \in 0 .. Len(buf) : Pops(n)
<1>1. PICK n \in 0 .. Len(buf) :
        /\ IsCompletedPrefix(buf, entry, n)
        /\ completed' = [k \in 1 .. n |-> [node |-> buf[k], e |-> entry[buf[k]]]]
        /\ buf' = SubSeq(buf, n + 1, Len(buf))
        /\ entry' = Remove(entry, {buf[k] : k \in 1 .. n})
  BY DEF PopCompleted
<1>2. /\ retired' = 0 /\ stage' = "retire"
      /\ UNCHANGED <<pc, related_rob, load_buf, station, addresses>>
  BY DEF PopCompleted, regVars, rsVars
<1>3. buf \in Seq(Nodes) /\ Len(buf) \in Nat /\ n \in Nat /\ n <= Len(buf)
  BY ListFacts
<1>4. \A k \in 1 .. n : IsCompleted(entry[buf[k]])
  BY <1>1 DEF IsCompletedPrefix
<1>5. \A k \in 1 .. n : buf[k] \notin Producing /\ buf[k] \notin DOMAIN addresses
  <2>1. \A k \in 1 .. n : buf[k] \in DOMAIN entry
    BY <1>3, ListFacts
  <2> QED BY <2>1, <1>4, CompletedIsReleased
<1>6. /\ DOMAIN entry' = DOMAIN entry \ {buf[k] : k \in 1 .. n}
      /\ \A m \in DOMAIN entry' : entry'[m] = entry[m]
  BY <1>1 DEF Remove
<1>7. /\ Len(completed') = n
      /\ \A k \in 1 .. n : completed'[k] = [node |-> buf[k], e |-> entry[buf[k]]]
  BY <1>1, <1>3
<1>8. Len(buf') = Len(buf) - n /\ \A i \in 1 .. Len(buf) - n : buf'[i] = buf[n + i]
  <2>1. n + 1 \in Int /\ Len(buf) \in Int /\ \A i \in n + 1 .. Len(buf) : buf[i] \in Nodes
    BY <1>3, ListFacts
  <2>2. /\ Len(buf') = IF n + 1 <= Len(buf) THEN Len(buf) - (n + 1) + 1 ELSE 0
        /\ \A i \in 1 .. Len(buf) - (n + 1) + 1 : buf'[i] = buf[n + 1 + i - 1]
    BY <2>1, <1>1, SubSeqProperties
  <2>3. \A i \in 1 .. Len(buf) - n : n + 1 + i - 1 = n + i
    BY <1>3
  <2>4. 1 .. Len(buf) - (n + 1) + 1 = 1 .. Len(buf) - n
    BY <1>3
  <2>5. Len(buf') = Len(buf) - n
    BY <2>2, <1>3
  <2> QED BY <2>2, <2>3, <2>4, <2>5
<1> QED BY <1>2, <1>4, <1>5, <1>6, <1>7, <1>8 DEF Pops

-----------------------------------------------------------------------------
(* commit                                                                  *)

LEMMA RetireKeeps ==
  ASSUME RetirePredicted \/ RetireEcall \/ RetireValue PROVE RetiresOne
BY DEF RetirePredicted, RetireEcall, RetireValue, RetiresOne, robVars, rsVars, regVars

LEMMA MispredictionFlushes == ASSUME PipelineInv, RetireMispredicted PROVE Flushes
<1>1. retired + 1 \in 1 .. Len(completed)
  BY CurrentType DEF RetireMispredicted, PipelineInv
<1>2. Len(SubSeq(completed, 1, retired + 1)) = retired + 1
  BY <1>1, ListFacts, SubSeqProperties DEF PipelineInv, TypeOK
<1> QED BY <1>2 DEF RetireMispredicted, Flushes, Truncated, NoEntries, RenamesCleared

-----------------------------------------------------------------------------
(* issue                                                                   *)

LEMMA IssueIssues ==
  ASSUME PipelineInv, Issue
  PROVE  \E node, e : Issues(node, Fetched, e)
<1> DEFINE inst == Fetched
           prediction == inst.opcode = "Branch" /\ Predict(branch_map, pc)
           e == NewEntry(regs, entry, pc, inst, prediction)
<1>1. /\ pc \in DOMAIN code
      /\ pc' = FetchNext(inst, pc, prediction)
      /\ stage \in {"issue", "issue_second"}
      /\ stage = "issue" => ~MustStall
      /\ stage' = IF stage = "issue" /\ ~EndsGroup(inst) THEN "issue_second" ELSE "commit"
      /\ UNCHANGED <<completed, retired>>
  BY DEF Issue, Fetching, At, loopVars
<1>2. PICK node \in Nodes \ DOMAIN entry :
       /\ buf' = Append(buf, node)
       /\ entry' = Insert(entry, node, e)
       /\ addresses' = IF UsesAddressUnit(inst)
            THEN Insert(addresses, node, NewAddressEntry(regs, entry', inst)) ELSE addresses
       /\ station' = IF UsesStation(inst)
            THEN Insert(station, node, NewRSEntry(regs, entry', pc, inst)) ELSE station
       /\ related_rob' = SetRegRobIndex(related_rob, OrZero(inst.rd), node)
  BY DEF Issue, RegsForUnits
<1>3. inst \in Instruction /\ prediction \in BOOLEAN
  <2>1. TypeOK
    BY DEF PipelineInv
  <2> QED BY <1>1, <2>1, FetchedType
<1>4. /\ e.inst = inst /\ e.reg_value = NULL /\ e.rd = OrZero(inst.rd)
      /\ inst.opcode # "Amo" => e.addr = NoOperand
      /\ GoodOperand(e.addr) /\ GoodOperand(e.mem_value)
  BY <1>1, <1>3, NewEntryFacts
<1>5. e.pc = pc /\ e.branch_pred = prediction
  BY DEF NewEntry
<1> HIDE DEF inst, prediction, e
<1>6. /\ DOMAIN entry' = DOMAIN entry \cup {node}
      /\ entry'[node] = e
      /\ \A n \in DOMAIN entry : entry'[n] = entry[n]
  BY <1>2 DEF Insert
<1>7. node \notin Producing /\ node \notin DOMAIN addresses
  BY <1>2 DEF PipelineInv, ProducersAreUnfinished, AddressesAreMissing
<1>8. /\ DOMAIN addresses' = IF UsesAddressUnit(inst) THEN DOMAIN addresses \cup {node}
                             ELSE DOMAIN addresses
      /\ \A n \in DOMAIN addresses : addresses'[n] = addresses[n]
      /\ UsesAddressUnit(inst) => /\ addresses'[node].is_jalr <=> inst.opcode = "Jalr"
                                  /\ GoodOperand(addresses'[node].op1)
  <2>1. CASE UsesAddressUnit(inst)
    <3> DEFINE a == NewAddressEntry(regs, entry', inst)
    <3>1. GoodOperand(a.op1)
      BY <1>1, <1>3, <1>6, <2>1, NewAddressEntryFacts
    <3>2. a.is_jalr <=> inst.opcode = "Jalr"
      BY DEF NewAddressEntry
    <3>3. addresses' = Insert(addresses, node, a)
      BY <1>2, <2>1
    <3> HIDE DEF a
    <3> QED BY <1>7, <2>1, <3>1, <3>2, <3>3 DEF Insert
  <2>2. CASE ~UsesAddressUnit(inst)
    BY <1>2, <2>2
  <2> QED BY <2>1, <2>2
<1>9. /\ DOMAIN station' = IF UsesStation(inst) THEN DOMAIN station \cup {node}
                           ELSE DOMAIN station
      /\ \A n \in DOMAIN station : station'[n] = station[n]
      /\ UsesStation(inst) => /\ GoodOperand(station'[node].op1)
                              /\ GoodOperand(station'[node].op2)
  <2>1. CASE UsesStation(inst)
    <3> DEFINE s == NewRSEntry(regs, entry', pc, inst)
    <3>1. GoodOperand(s.op1) /\ GoodOperand(s.op2)
      BY <1>1, <1>3, <1>6, NewRSEntryFacts
    <3>2. station' = Insert(station, node, s)
      BY <1>2, <2>1
    <3> HIDE DEF s
    <3> QED BY <1>7, <2>1, <3>1, <3>2 DEF Insert, Producing
  <2>2. CASE ~UsesStation(inst)
    BY <1>2, <2>2
  <2> QED BY <2>1, <2>2
<1>10. /\ Len(buf') = Len(buf) + 1 /\ buf'[Len(buf) + 1] = node
       /\ \A i \in 1 .. Len(buf) : buf'[i] = buf[i]
  BY <1>2, ListFacts
<1>11. pc' = FetchNext(inst, pc, e.branch_pred)
  BY <1>1, <1>5
<1>12. related_rob' = SetRegRobIndex(related_rob, e.rd, node)
  BY <1>2, <1>4
<1>13. Issues(node, inst, e)
  BY <1>1, <1>2, <1>3, <1>4, <1>5, <1>6, <1>8, <1>9, <1>10, <1>11, <1>12 DEF Issues
<1> QED BY <1>13 DEF inst

-----------------------------------------------------------------------------
(* write_result                                                            *)

LEMMA ResolveSettles ==
  ASSUME NEW jobs, NEW op
  PROVE  /\ Settled(Resolve(op, jobs), op)
         /\ op.tag # "Rob" => Resolve(op, jobs) = op
BY DEF Resolve, Settled, IsValue, Value

LEMMA WriteResultAdvances ==
  ASSUME PipelineInv, WriteResult
  PROVE  /\ Advances
         /\ stage = "write_result" /\ stage' = "execute" /\ pc' = pc
         /\ addresses' = AddressesPropagated(addresses, CompletedJobs(load_buf, station))
         /\ \A n \in DOMAIN entry :
              entry[n].addr.tag # "Rob" => entry'[n].addr = entry[n].addr
<1> DEFINE jobs == CompletedJobs(load_buf, station)
<1>1. /\ station' = StationPropagated(Remove(station, DOMAIN jobs), jobs)
      /\ addresses' = AddressesPropagated(addresses, jobs)
      /\ entry' = Propagate(entry, jobs)
      /\ stage = "write_result" /\ stage' = "execute"
      /\ UNCHANGED <<pc, related_rob, buf, completed, retired>>
  BY DEF WriteResult, At, regVars, loopVars
<1>2. /\ entry \in [DOMAIN entry -> ReorderBufferEntry]
      /\ station \in [DOMAIN station -> RSEntry]
      /\ addresses \in [DOMAIN addresses -> AddressEntry]
  BY DEF PipelineInv, TypeOK
<1> HIDE DEF jobs
<1>3. DOMAIN entry' = DOMAIN entry
  BY <1>1 DEF Propagate
<1>4. ASSUME NEW n \in DOMAIN entry
      PROVE  /\ entry'[n].inst = entry[n].inst /\ entry'[n].rd = entry[n].rd
             /\ entry'[n].pc = entry[n].pc /\ entry'[n].branch_pred = entry[n].branch_pred
             /\ entry'[n].addr = Resolve(entry[n].addr, OtherJobs(jobs, n))
             /\ entry'[n].mem_value = Resolve(entry[n].mem_value, OtherJobs(jobs, n))
  <2> DEFINE own == n \in DOMAIN jobs
             others == OtherJobs(jobs, n)
             value == IF own THEN jobs[n].reg_value ELSE entry[n].reg_value
             exception == IF own /\ jobs[n].exception = "Err" THEN "Err"
                          ELSE entry[n].mem_exception
             addr == Resolve(entry[n].addr, others)
             mem_value == Resolve(entry[n].mem_value, others)
  <2>1. entry'[n] = [entry[n] EXCEPT !.reg_value = value, !.mem_exception = exception,
                                     !.addr = addr, !.mem_value = mem_value]
    BY <1>1 DEF Propagate
  <2>2. entry[n] \in ReorderBufferEntry
    BY <1>2
  <2> HIDE DEF value, exception, addr, mem_value
  <2>3. /\ entry'[n].inst = entry[n].inst /\ entry'[n].rd = entry[n].rd
        /\ entry'[n].pc = entry[n].pc /\ entry'[n].branch_pred = entry[n].branch_pred
        /\ entry'[n].addr = addr /\ entry'[n].mem_value = mem_value
    BY <2>1, <2>2 DEF ReorderBufferEntry
  <2> QED BY <2>3 DEF addr, mem_value
<1>5. DOMAIN station' \subseteq DOMAIN station
  BY <1>1 DEF StationPropagated, Remove
<1>6. ASSUME NEW n \in DOMAIN station'
      PROVE  /\ Settled(station'[n].op1, station[n].op1)
             /\ Settled(station'[n].op2, station[n].op2)
  <2>1. station'[n] = [station[n] EXCEPT !.op1 = Resolve(station[n].op1, jobs),
                                         !.op2 = Resolve(station[n].op2, jobs)]
    BY <1>1 DEF StationPropagated, Remove
  <2>2. station[n] \in RSEntry
    BY <1>2, <1>5
  <2>3. /\ station'[n].op1 = Resolve(station[n].op1, jobs)
        /\ station'[n].op2 = Resolve(station[n].op2, jobs)
    BY <2>1, <2>2 DEF RSEntry
  <2> QED BY <2>3, ResolveSettles
<1>7. DOMAIN addresses' = DOMAIN addresses
  BY <1>1 DEF AddressesPropagated
<1>8. ASSUME NEW n \in DOMAIN addresses'
      PROVE  /\ Settled(addresses'[n].op1, addresses[n].op1)
             /\ addresses'[n].is_jalr = addresses[n].is_jalr
  <2>1. addresses'[n] = [addresses[n] EXCEPT !.op1 = Resolve(addresses[n].op1, jobs)]
    BY <1>1, <1>7 DEF AddressesPropagated
  <2>2. addresses[n] \in AddressEntry
    BY <1>2, <1>7
  <2>3. /\ addresses'[n].op1 = Resolve(addresses[n].op1, jobs)
        /\ addresses'[n].is_jalr = addresses[n].is_jalr
    BY <2>1, <2>2 DEF AddressEntry
  <2> QED BY <2>3, ResolveSettles
<1>9. Advances
  BY <1>1, <1>3, <1>4, <1>5, <1>6, <1>7, <1>8, ResolveSettles DEF Advances
<1>10. \A n \in DOMAIN entry :
         entry[n].addr.tag # "Rob" => entry'[n].addr = entry[n].addr
  BY <1>4, ResolveSettles
<1> QED BY <1>1, <1>9, <1>10 DEF jobs

(* A job is a finished load, or a finished entry of the station.           *)
LEMMA JobsAre ==
  ASSUME PipelineInv
  PROVE  LET jobs == CompletedJobs(load_buf, station) IN
         /\ jobs \in [DOMAIN jobs -> FinishedCalc]
         /\ DOMAIN jobs \subseteq Producing
         /\ \A n \in DOMAIN load_buf :
              /\ n \in DOMAIN jobs <=> load_buf[n].status = "Finished"
              /\ n \in DOMAIN jobs =>
                   /\ jobs[n].reg_value = OrZero(load_buf[n].value)
                   /\ jobs[n].exception = IF load_buf[n].value = NULL THEN "Err" ELSE "Ok"
         /\ \A n \in DOMAIN jobs \ DOMAIN load_buf :
              /\ n \in DOMAIN station /\ station[n].status = "Finished"
              /\ jobs[n].reg_value = station[n].value /\ jobs[n].exception = "Ok"
<1> DEFINE jobs == CompletedJobs(load_buf, station)
           loads == FinishedLoads(load_buf)
           generals == FinishedStation(station)
<1>1. jobs \in [DOMAIN jobs -> FinishedCalc] /\ DOMAIN jobs \subseteq Producing
  BY JobFacts
<1>2. /\ DOMAIN jobs = DOMAIN loads \cup DOMAIN generals
      /\ \A n \in DOMAIN jobs : jobs[n] = IF n \in DOMAIN loads THEN loads[n] ELSE generals[n]
  BY DEF CompletedJobs
<1>3. /\ DOMAIN loads = {n \in DOMAIN load_buf : load_buf[n].status = "Finished"}
      /\ \A n \in DOMAIN loads :
           /\ loads[n].reg_value = OrZero(load_buf[n].value)
           /\ loads[n].exception = IF load_buf[n].value = NULL THEN "Err" ELSE "Ok"
  BY DEF FinishedLoads
<1>4. /\ DOMAIN generals = {n \in DOMAIN station : station[n].status = "Finished"}
      /\ \A n \in DOMAIN generals : /\ generals[n].reg_value = station[n].value
                                    /\ generals[n].exception = "Ok"
  BY DEF FinishedStation
<1>5. DOMAIN load_buf \cap DOMAIN station = {}
  BY UnitFacts DEF PipelineInv, ProducersAreUnfinished
<1> HIDE DEF jobs, loads, generals
<1>6. \A n \in DOMAIN load_buf :
        /\ n \in DOMAIN jobs <=> load_buf[n].status = "Finished"
        /\ n \in DOMAIN jobs =>
             /\ jobs[n].reg_value = OrZero(load_buf[n].value)
             /\ jobs[n].exception = IF load_buf[n].value = NULL THEN "Err" ELSE "Ok"
  BY <1>2, <1>3, <1>4, <1>5
<1>7. \A n \in DOMAIN jobs \ DOMAIN load_buf :
        /\ n \in DOMAIN station /\ station[n].status = "Finished"
        /\ jobs[n].reg_value = station[n].value /\ jobs[n].exception = "Ok"
  BY <1>2, <1>3, <1>4
<1> QED BY <1>1, <1>6, <1>7 DEF jobs

(* The entry of n before and after the broadcast of jobs. *)
Propagated(e, e2, n, jobs) ==
  LET others == OtherJobs(jobs, n) IN
  /\ e2 \in ReorderBufferEntry
  /\ e2.inst = e.inst /\ e2.rd = e.rd /\ e2.pc = e.pc
  /\ e2.mem_rem_cycle = e.mem_rem_cycle
  /\ e2.reg_value = IF n \in DOMAIN jobs THEN jobs[n].reg_value ELSE e.reg_value
  /\ e2.mem_exception = IF n \in DOMAIN jobs /\ jobs[n].exception = "Err"
                          THEN "Err" ELSE e.mem_exception
  /\ e2.addr = Resolve(e.addr, others) /\ e2.mem_value = Resolve(e.mem_value, others)

LEMMA WriteResultPropagates ==
  ASSUME PipelineInv, WriteResult, NEW n \in DOMAIN entry
  PROVE  Propagated(entry[n], entry'[n], n, CompletedJobs(load_buf, station))
<1> DEFINE jobs == CompletedJobs(load_buf, station)
           own == n \in DOMAIN jobs
           others == OtherJobs(jobs, n)
           value == IF own THEN jobs[n].reg_value ELSE entry[n].reg_value
           exception == IF own /\ jobs[n].exception = "Err" THEN "Err"
                        ELSE entry[n].mem_exception
           addr == Resolve(entry[n].addr, others)
           mem_value == Resolve(entry[n].mem_value, others)
<1>1. entry' = Propagate(entry, jobs)
  BY DEF WriteResult
<1>2. /\ entry[n] \in ReorderBufferEntry /\ entry \in [DOMAIN entry -> ReorderBufferEntry]
      /\ jobs \in [DOMAIN jobs -> FinishedCalc]
  BY JobFacts DEF PipelineInv, TypeOK
<1> HIDE DEF jobs
<1>3. entry'[n] = [entry[n] EXCEPT !.reg_value = value, !.mem_exception = exception,
                                   !.addr = addr, !.mem_value = mem_value]
  BY <1>1 DEF Propagate
<1>4. entry'[n] \in ReorderBufferEntry
  BY <1>1, <1>2, PropagateFacts
<1> HIDE DEF value, exception, addr, mem_value
<1>5. /\ entry'[n].inst = entry[n].inst /\ entry'[n].rd = entry[n].rd
      /\ entry'[n].pc = entry[n].pc
      /\ entry'[n].mem_rem_cycle = entry[n].mem_rem_cycle
      /\ entry'[n].reg_value = value /\ entry'[n].mem_exception = exception
      /\ entry'[n].addr = addr /\ entry'[n].mem_value = mem_value
  BY <1>2, <1>3 DEF ReorderBufferEntry
<1> QED BY <1>4, <1>5 DEF Propagated, addr, mem_value, value, exception, jobs

-----------------------------------------------------------------------------
(* execute                                                                 *)

(* What loads and the store of the head leave alone in an entry. *)
SameButLoaded(e2, e) ==
  /\ e2.inst = e.inst /\ e2.rd = e.rd /\ e2.pc = e.pc /\ e2.branch_pred = e.branch_pred
  /\ e2.addr = e.addr /\ e2.reg_value = e.reg_value
  /\ Settled(e2.mem_value, e.mem_value)

LEMMA CountSettles ==
  ASSUME NEW e \in ReorderBufferEntry, NEW count
  PROVE  SameButLoaded([e EXCEPT !.mem_rem_cycle = count], e)
BY DEF ReorderBufferEntry, SameButLoaded, Settled

LEMMA ValueSettles ==
  ASSUME NEW e \in ReorderBufferEntry, NEW count, NEW v
  PROVE  SameButLoaded([e EXCEPT !.mem_value = Value(v), !.mem_rem_cycle = count], e)
BY DEF ReorderBufferEntry, SameButLoaded, Settled, IsValue, Value

LEMMA AfterLoadSettles ==
  ASSUME NEW e \in ReorderBufferEntry, NEW m
  PROVE  SameButLoaded(AfterAtomicLoad(e, m), e)
<1>1. CASE e.inst.opcode # "Amo" \/ LoadResult(e, m) = NULL
  <2>1. AfterAtomicLoad(e, m) = [e EXCEPT !.mem_rem_cycle = 0]
    BY <1>1 DEF AfterAtomicLoad
  <2> QED BY <2>1, CountSettles
<1>2. CASE e.inst.opcode = "Amo" /\ LoadResult(e, m) # NULL
  <2> DEFINE f == e.inst.function
             value == IF f = "Lrw" THEN 0
                      ELSE AmoValue(f, LoadResult(e, m), e.mem_value.val)
             count == IF f = "Lrw" THEN 0 ELSE MemCycle
  <2>1. AfterAtomicLoad(e, m) = [e EXCEPT !.mem_value = Value(value),
                                          !.mem_rem_cycle = count]
    BY <1>2 DEF AfterAtomicLoad
  <2> HIDE DEF value, count
  <2> QED BY <2>1, ValueSettles
<1> QED BY <1>1, <1>2

(* The address unit gives the ready addresses and touches nothing else.    *)
LEMMA AddressUnitGives ==
  ASSUME PipelineInv, NEW n \in DOMAIN entry
  PROVE  LET e2 == AddressedEntries[n] IN
         /\ e2 \in ReorderBufferEntry
         /\ e2.inst = entry[n].inst /\ e2.rd = entry[n].rd
         /\ e2.pc = entry[n].pc /\ e2.branch_pred = entry[n].branch_pred
         /\ e2.reg_value = entry[n].reg_value /\ e2.mem_value = entry[n].mem_value
         /\ e2.addr = IF n \in ReadyAddresses(addresses) THEN Value(Address(addresses[n]))
                      ELSE entry[n].addr
<1>1. AddressedEntries[n] = IF n \in ReadyAddresses(addresses)
                              THEN [entry[n] EXCEPT !.addr = Value(Address(addresses[n]))]
                              ELSE entry[n]
  BY DEF AddressedEntries, EntriesAddressed
<1>2. entry[n] \in ReorderBufferEntry
  BY ListFacts
<1>3. AddressedEntries[n] \in ReorderBufferEntry
  BY AddressedFacts DEF PipelineInv, SameButMemory
<1> QED BY <1>1, <1>2, <1>3 DEF ReorderBufferEntry

LEMMA ExecuteAdvances ==
  ASSUME PipelineInv, Execute
  PROVE  /\ Advances
         /\ stage = "execute" /\ stage' = "issue"
         /\ addresses' = Remove(addresses, ReadyAddresses(addresses))
         /\ IF JalrTargets(addresses) = {} THEN pc' = pc ELSE pc' \in JalrTargets(addresses)
         /\ \A n \in DOMAIN entry :
              entry'[n].addr = IF n \in ReadyAddresses(addresses)
                                 THEN Value(Address(addresses[n])) ELSE entry[n].addr
<1>1. /\ addresses' = Remove(addresses, ReadyAddresses(addresses))
      /\ station' = StationExecuted(station)
      /\ IF JalrTargets(addresses) = {} THEN pc' = pc ELSE pc' \in JalrTargets(addresses)
      /\ stage = "execute" /\ stage' = "issue"
      /\ UNCHANGED <<related_rob, buf, completed, retired>>
  BY DEF Execute, At, loopVars
<1> DEFINE ready  == ReadyLoads(load_buf, buf, AddressedEntries)
           ending == EndingLoads(load_buf, buf, AddressedEntries)
<1>2. /\ DOMAIN LoadedEntries = DOMAIN entry
      /\ \A n \in DOMAIN entry :
           LoadedEntries[n] =
             IF n \in ending THEN AfterAtomicLoad(AddressedEntries[n], mem)
             ELSE IF n \in ready
               THEN [AddressedEntries[n] EXCEPT !.mem_rem_cycle =
                                           AddressedEntries[n].mem_rem_cycle - 1]
             ELSE AddressedEntries[n]
  BY AddressedFacts DEF PipelineInv, LoadedEntries, EntriesLoaded
<1> HIDE DEF ready, ending
<1>3. ASSUME NEW n \in DOMAIN entry
      PROVE  /\ LoadedEntries[n] \in ReorderBufferEntry
             /\ SameButLoaded(LoadedEntries[n], AddressedEntries[n])
  <2>1. AddressedEntries[n] \in ReorderBufferEntry
    BY AddressUnitGives
  <2>2. SameButLoaded(AddressedEntries[n], AddressedEntries[n])
    BY DEF SameButLoaded, Settled
  <2>3. LoadedEntries[n] \in ReorderBufferEntry
    BY LoadedFacts DEF Execute, SameButMemory
  <2> QED BY <1>2, <2>1, <2>2, <2>3, AfterLoadSettles, CountSettles
<1>4. /\ DOMAIN entry' = DOMAIN entry
      /\ \A n \in DOMAIN entry :
           \/ entry'[n] = LoadedEntries[n]
           \/ entry'[n] = [LoadedEntries[n] EXCEPT !.mem_rem_cycle = 0]
  BY <1>2 DEF Execute
<1>5. ASSUME NEW n \in DOMAIN entry
      PROVE  SameButLoaded(entry'[n], AddressedEntries[n])
  <2>1. \/ entry'[n] = LoadedEntries[n]
        \/ SameButLoaded(entry'[n], LoadedEntries[n])
    BY <1>3, <1>4, CountSettles
  <2> QED BY <1>3, <2>1 DEF SameButLoaded, Settled
<1>6. \A n \in DOMAIN entry :
        /\ entry'[n].inst = entry[n].inst /\ entry'[n].rd = entry[n].rd
        /\ entry'[n].pc = entry[n].pc /\ entry'[n].branch_pred = entry[n].branch_pred
        /\ entry'[n].addr = IF n \in ReadyAddresses(addresses)
                              THEN Value(Address(addresses[n])) ELSE entry[n].addr
        /\ Settled(entry'[n].mem_value, entry[n].mem_value)
  BY <1>5, AddressUnitGives DEF SameButLoaded
<1>7. ASSUME NEW n \in DOMAIN entry PROVE Settled(entry'[n].addr, entry[n].addr)
  <2>1. \A v : IsValue(Value(v))
    BY DEF IsValue, Value
  <2> QED BY <1>6, <2>1 DEF Settled
<1>8. /\ DOMAIN station' = DOMAIN station
      /\ \A n \in DOMAIN station : /\ station'[n].op1 = station[n].op1
                                   /\ station'[n].op2 = station[n].op2
  BY <1>1, StationFacts
<1>9. /\ DOMAIN addresses' \subseteq DOMAIN addresses
      /\ \A n \in DOMAIN addresses' : addresses'[n] = addresses[n]
  BY <1>1 DEF Remove
<1>10. Advances
  BY <1>1, <1>4, <1>6, <1>7, <1>8, <1>9 DEF Advances, Settled
<1> QED BY <1>1, <1>6, <1>10

(* What the loads do to the entry a of n: it reads, counts or rests.        *)
Reads(n, a, e2) ==
  /\ n \in EndingLoads(load_buf, buf, AddressedEntries)
  /\ n \in DOMAIN load_buf /\ load_buf[n].status # "Finished"
  /\ load_buf'[n] = [status |-> "Finished", value |-> LoadResult(a, mem)]
  /\ e2 = AfterAtomicLoad(a, mem) /\ ~LoadPanics(a, mem)
  /\ IsValue(a.addr)
  /\ a.inst.opcode = "Amo" => IsValue(a.mem_value)

Counts(n, a, e2) ==
  /\ n \in DOMAIN load_buf /\ load_buf[n].status # "Finished"
  /\ load_buf'[n].status # "Finished"
  /\ a.mem_rem_cycle > 1
  /\ e2 = [a EXCEPT !.mem_rem_cycle = a.mem_rem_cycle - 1]

Rests(n, a, e2) == e2 = a /\ (n \in DOMAIN load_buf => load_buf'[n] = load_buf[n])

LEMMA ExecuteLoads ==
  ASSUME PipelineInv, Execute
  PROVE  /\ DOMAIN load_buf' = DOMAIN load_buf
         /\ \A n \in DOMAIN entry :
              LET a == AddressedEntries[n]
                  e2 == LoadedEntries[n]
              IN  Reads(n, a, e2) \/ Counts(n, a, e2) \/ Rests(n, a, e2)
<1> DEFINE ready  == ReadyLoads(load_buf, buf, AddressedEntries)
           ending == EndingLoads(load_buf, buf, AddressedEntries)
<1>1. /\ DOMAIN load_buf' = DOMAIN load_buf
      /\ \A n \in DOMAIN load_buf :
           load_buf'[n] =
             IF n \in ending
               THEN [status |-> "Finished", value |-> LoadResult(AddressedEntries[n], mem)]
             ELSE IF n \in ready THEN [load_buf[n] EXCEPT !.status = "Execute"]
             ELSE load_buf[n]
  BY DEF Execute, LoadsExecuted
<1>2. \A n \in DOMAIN entry :
        LoadedEntries[n] =
          IF n \in ending THEN AfterAtomicLoad(AddressedEntries[n], mem)
          ELSE IF n \in ready
            THEN [AddressedEntries[n] EXCEPT !.mem_rem_cycle =
                                        AddressedEntries[n].mem_rem_cycle - 1]
          ELSE AddressedEntries[n]
  BY AddressedFacts DEF PipelineInv, LoadedEntries, EntriesLoaded
<1>3. \A n \in ready :
        /\ n \in DOMAIN load_buf /\ load_buf[n].status # "Finished"
        /\ AddressedEntries[n] \in ReorderBufferEntry
        /\ IsValue(AddressedEntries[n].addr)
        /\ AddressedEntries[n].inst.opcode = "Amo" => IsValue(AddressedEntries[n].mem_value)
  BY ReadyLoadFacts
<1>4. /\ \A n \in ending : n \in ready /\ ~LoadPanics(AddressedEntries[n], mem)
      /\ \A n \in ready \ ending : ~(AddressedEntries[n].mem_rem_cycle <= 1)
  BY DEF Execute, ExecutePanicking, EndingLoads
<1>5. \A n \in DOMAIN load_buf : load_buf[n] \in LoadBufferEntry
  BY DEF PipelineInv, TypeOK
<1>6. ready \subseteq DOMAIN load_buf
  BY DEF ReadyLoads
<1> HIDE DEF ready
<1>7. ASSUME NEW n \in DOMAIN entry
      PROVE  \/ Reads(n, AddressedEntries[n], LoadedEntries[n])
             \/ Counts(n, AddressedEntries[n], LoadedEntries[n])
             \/ Rests(n, AddressedEntries[n], LoadedEntries[n])
  <2> DEFINE a == AddressedEntries[n]
             e2 == LoadedEntries[n]
  <2>1. CASE n \in ending
    <3>1. /\ n \in DOMAIN load_buf /\ load_buf[n].status # "Finished"
          /\ load_buf'[n] = [status |-> "Finished", value |-> LoadResult(a, mem)]
          /\ e2 = AfterAtomicLoad(a, mem) /\ ~LoadPanics(a, mem)
          /\ IsValue(a.addr)
          /\ a.inst.opcode = "Amo" => IsValue(a.mem_value)
      BY <1>1, <1>2, <1>3, <1>4, <2>1
    <3> HIDE DEF a, e2
    <3> QED BY <2>1, <3>1 DEF Reads, a, e2
  <2> HIDE DEF ending
  <2>2. CASE n \in ready /\ n \notin ending
    <3>1. /\ n \in DOMAIN load_buf /\ load_buf[n].status # "Finished"
          /\ load_buf'[n] = [load_buf[n] EXCEPT !.status = "Execute"]
          /\ e2 = [a EXCEPT !.mem_rem_cycle = a.mem_rem_cycle - 1]
      BY <1>1, <1>2, <1>3, <2>2
    <3>2. load_buf'[n].status # "Finished"
      BY <1>5, <3>1 DEF LoadBufferEntry
    <3>3. a.mem_rem_cycle \in Int /\ ~(a.mem_rem_cycle <= 1)
      BY <1>3, <1>4, <2>2, CycleAssumption DEF ReorderBufferEntry
    <3> HIDE DEF a, e2
    <3>4. a.mem_rem_cycle > 1
      BY <3>3
    <3> QED BY <3>1, <3>2, <3>4 DEF Counts, a, e2
  <2>3. CASE n \notin ready /\ n \notin ending
    BY <1>1, <1>2, <2>3 DEF Rests
  <2> QED BY <1>4, <2>1, <2>2, <2>3
<1> QED BY <1>1, <1>7

-----------------------------------------------------------------------------
(* All the steps                                                           *)

LEMMA QuietSteps ==
  ASSUME Panic \/ IssueStalls \/ Ended \/ UNCHANGED vars PROVE Quiet
BY DEF Panic, IssueStalls, Ended, At, Quiet, vars, regVars, robVars, rsVars, loopVars

LEMMA CommitDoneDrains == ASSUME CommitDone PROVE Drains
BY DEF CommitDone, At, Drains, regVars, robVars, rsVars

(* Every step is one of the shapes above. *)
LEMMA EveryStep ==
  ASSUME PipelineInv, [Next]_vars
  PROVE  \/ \E n \in 0 .. Len(buf) : Pops(n)
         \/ RetiresOne \/ Flushes \/ Drains
         \/ Advances /\ (WriteResult \/ Execute)
         \/ Issue /\ \E node, e : Issues(node, Fetched, e)
         \/ Quiet
<1>1. CASE PopCompleted
  BY <1>1, PopCompletedPops
<1>2. CASE Retire
  <2>1. CASE RetirePredicted \/ RetireEcall \/ RetireValue
    BY <2>1, RetireKeeps
  <2>2. CASE RetireMispredicted
    BY <2>2, MispredictionFlushes
  <2>3. CASE RetirePanics
    BY <2>3, QuietSteps DEF RetirePanics
  <2> QED BY <1>2, <2>1, <2>2, <2>3 DEF Retire
<1>3. CASE CommitDone
  BY <1>3, CommitDoneDrains
<1>4. CASE WriteResult
  BY <1>4, WriteResultAdvances
<1>5. CASE Execute
  BY <1>5, ExecuteAdvances
<1>6. CASE Issue
  BY <1>6, IssueIssues
<1>7. CASE ExecutePanics \/ IssuePanics
  BY <1>7, QuietSteps DEF ExecutePanics, IssuePanics
<1>8. CASE IssueStalls \/ Ended \/ UNCHANGED vars
  BY <1>8, QuietSteps
<1> QED BY <1>1, <1>2, <1>3, <1>4, <1>5, <1>6, <1>7, <1>8 DEF Next

-----------------------------------------------------------------------------
(* WaitsAreOlder                                                           *)

LEMMA SettledWaits ==
  ASSUME NEW op2, NEW op, Settled(op2, op), NEW i, WaitsFor(op2, i) PROVE WaitsFor(op, i)
BY DEF Settled, WaitsFor, IsValue

LEMMA TagsShrink ==
  ASSUME Advances, NEW n \in DOMAIN entry PROVE TagsOf(n)' \subseteq TagsOf(n)
<1> SUFFICES ASSUME NEW i \in TagsOf(n)' PROVE i \in TagsOf(n)
  OBVIOUS
<1>1. i \in Nodes
  BY DEF TagsOf
<1>2. CASE WaitsFor(entry'[n].addr, i) \/ WaitsFor(entry'[n].mem_value, i)
  <2>1. WaitsFor(entry[n].addr, i) \/ WaitsFor(entry[n].mem_value, i)
    BY <1>2, SettledWaits DEF Advances
  <2> QED BY <1>1, <2>1 DEF TagsOf
<1>3. CASE n \in DOMAIN station' /\ (WaitsFor(station'[n].op1, i) \/ WaitsFor(station'[n].op2, i))
  <2>1. n \in DOMAIN station /\ (WaitsFor(station[n].op1, i) \/ WaitsFor(station[n].op2, i))
    BY <1>3, SettledWaits DEF Advances
  <2> QED BY <1>1, <2>1 DEF TagsOf
<1>4. CASE n \in DOMAIN addresses' /\ WaitsFor(addresses'[n].op1, i)
  <2>1. n \in DOMAIN addresses /\ WaitsFor(addresses[n].op1, i)
    BY <1>4, SettledWaits DEF Advances
  <2> QED BY <1>1, <2>1 DEF TagsOf
<1> QED BY <1>2, <1>3, <1>4 DEF TagsOf

LEMMA PopKeepsWaits ==
  ASSUME PipelineInv, WaitsAreOlder, NEW n \in 0 .. Len(buf), Pops(n)
  PROVE  WaitsAreOlder'
<1> SUFFICES ASSUME NEW i \in 1 .. Len(buf'), NEW m \in TagsOf(buf[i])'
             PROVE  \E k \in 1 .. i - 1 : buf'[k] = m
  BY DEF WaitsAreOlder, Listed
<1>1. Len(buf) \in Nat /\ n \in Nat /\ n <= Len(buf)
  BY ListFacts
<1>2. n + i \in 1 .. Len(buf) /\ buf'[i] = buf[n + i] /\ i \in Nat /\ i > 0
  BY <1>1 DEF Pops
<1>3. buf[n + i] \in DOMAIN entry'
  <2>1. buf[n + i] \in DOMAIN entry
    BY <1>2, ListFacts
  <2>2. ASSUME NEW k \in 1 .. n PROVE buf[k] # buf[n + i]
    <3>1. k \in 1 .. Len(buf) /\ k # n + i
      BY <1>1, <1>2
    <3> QED BY <1>2, <3>1, ListFacts
  <2> QED BY <2>1, <2>2 DEF Pops
<1>4. m \in TagsOf(buf[n + i])
  <2> DEFINE b == buf[n + i]
  <2>1. /\ entry'[b] = entry[b] /\ buf'[i] = b
        /\ station' = station /\ addresses' = addresses
    BY <1>2, <1>3 DEF Pops
  <2> HIDE DEF b
  <2>2. /\ m \in Nodes
        /\ \/ WaitsFor(entry'[b].addr, m) \/ WaitsFor(entry'[b].mem_value, m)
           \/ b \in DOMAIN station' /\ (\/ WaitsFor(station'[b].op1, m)
                                        \/ WaitsFor(station'[b].op2, m))
           \/ b \in DOMAIN addresses' /\ WaitsFor(addresses'[b].op1, m)
    BY <2>1 DEF TagsOf
  <2>3. m \in TagsOf(b)
    BY <2>1, <2>2 DEF TagsOf
  <2> QED BY <2>3 DEF b
<1>5. PICK k \in 1 .. (n + i) - 1 : buf[k] = m
  <2>1. \A j \in 1 .. Len(buf) : \A t \in TagsOf(buf[j]) : \E k \in 1 .. j - 1 : buf[k] = t
    BY DEF WaitsAreOlder, Listed
  <2> QED BY <1>2, <1>4, <2>1, Zenon
<1>6. m \in Producing
  BY <1>2, <1>4, ListFacts, TagsAreProducing
<1>7. k \notin 1 .. n
  BY <1>5, <1>6 DEF Pops
<1>8. k - n \in 1 .. i - 1 /\ n + (k - n) = k /\ k - n \in 1 .. Len(buf) - n
  BY <1>1, <1>2, <1>7
<1>9. buf'[k - n] = m
  BY <1>5, <1>8 DEF Pops
<1> QED BY <1>8, <1>9

LEMMA IssueKeepsWaits ==
  ASSUME PipelineInv, WaitsAreOlder, NEW node, NEW inst, NEW e, Issues(node, inst, e)
  PROVE  WaitsAreOlder'
<1> SUFFICES ASSUME NEW i \in 1 .. Len(buf'), NEW m \in TagsOf(buf[i])'
             PROVE  \E k \in 1 .. i - 1 : buf'[k] = m
  BY DEF WaitsAreOlder, Listed
<1>1. Len(buf) \in Nat /\ Len(buf') = Len(buf) + 1
  BY ListFacts DEF Issues
<1>2. CASE i \in 1 .. Len(buf)
  <2>1. buf'[i] = buf[i] /\ buf[i] \in DOMAIN entry /\ buf[i] # node
    BY <1>2, ListFacts DEF Issues
  <2>2. m \in TagsOf(buf[i])
    BY <2>1 DEF Issues, TagsOf
  <2>3. PICK k \in 1 .. i - 1 : buf[k] = m
    BY <1>2, <2>2 DEF WaitsAreOlder, Listed
  <2>4. buf'[k] = m
    BY <1>1, <1>2, <2>3 DEF Issues
  <2> QED BY <2>4
<1>3. CASE i = Len(buf) + 1
  <2>1. buf'[i] = node /\ entry'[node] = e
    BY <1>3 DEF Issues
  <2>2. node \notin Producing /\ node \notin DOMAIN addresses
    BY DEF Issues, PipelineInv, ProducersAreUnfinished, AddressesAreMissing
  <2>3. m \in Producing
    BY <2>1, <2>2 DEF Issues, TagsOf, WaitsFor, GoodOperand, Producing
  <2>4. PICK k \in 1 .. Len(buf) : buf[k] = m
    BY <2>3, ListFacts DEF PipelineInv, ProducersAreUnfinished
  <2>5. k \in 1 .. i - 1 /\ buf'[k] = m
    BY <1>1, <1>3, <2>4 DEF Issues
  <2> QED BY <2>5
<1> QED BY <1>1, <1>2, <1>3

LEMMA WaitsPreserved ==
  ASSUME PipelineInv, WaitsAreOlder, [Next]_vars PROVE WaitsAreOlder'
<1>1. CASE \E n \in 0 .. Len(buf) : Pops(n)
  BY <1>1, PopKeepsWaits
<1>2. CASE RetiresOne \/ Drains \/ Quiet
  <2>1. UNCHANGED <<buf, entry, station, addresses>>
    BY <1>2 DEF RetiresOne, Drains, Quiet
  <2> QED BY <2>1 DEF WaitsAreOlder, Listed, TagsOf
<1>3. CASE Flushes
  BY <1>3 DEF Flushes, WaitsAreOlder, Listed
<1>4. CASE Advances
  <2>1. \A i \in 1 .. Len(buf) : TagsOf(buf[i])' \subseteq TagsOf(buf[i])
    <3> SUFFICES ASSUME NEW i \in 1 .. Len(buf)
                 PROVE  TagsOf(buf[i])' \subseteq TagsOf(buf[i])
      OBVIOUS
    <3> DEFINE n == buf[i]
    <3>1. n \in DOMAIN entry /\ buf' = buf
      BY <1>4, ListFacts DEF Advances
    <3> QED BY <1>4, <3>1, TagsShrink DEF TagsOf
  <2> QED BY <1>4, <2>1 DEF WaitsAreOlder, Listed, Advances
<1>5. CASE \E node, e : Issues(node, Fetched, e)
  BY <1>5, IssueKeepsWaits
<1> QED BY <1>1, <1>2, <1>3, <1>4, <1>5, EveryStep

-----------------------------------------------------------------------------
(* PoppedAreCompleted                                                      *)

(* commit's loop goes up: what is still to be retired was so before.       *)
LEMMA PoppedShrink ==
  ASSUME PipelineInv, RetiresOne PROVE Popped' \subseteq Popped
BY ListFacts DEF Popped, RetiresOne

LEMMA AdvanceKeepsCompleted ==
  ASSUME PipelineInv, WriteResult \/ Execute PROVE stage # "retire" /\ stage' # "retire"
BY WriteResultAdvances, ExecuteAdvances

LEMMA PoppedPreserved ==
  ASSUME PipelineInv, PoppedAreCompleted, [Next]_vars PROVE PoppedAreCompleted'
<1>1. ASSUME NEW n \in 0 .. Len(buf), Pops(n) PROVE PoppedAreCompleted'
  <2>1. Len(buf) \in Nat /\ n \in Nat /\ n <= Len(buf)
    BY ListFacts
  <2>2. Popped' = 1 .. n
    BY <1>1, <2>1 DEF Popped, Pops
  <2>3. \A k \in 1 .. n : /\ completed'[k].node = buf[k]
                          /\ completed'[k].e = entry[buf[k]]
                          /\ IsCompleted(entry[buf[k]])
                          /\ buf[k] \notin DOMAIN entry'
    BY <1>1 DEF Pops
  <2>4. \A j, k \in 1 .. n : buf[j] = buf[k] => j = k
    BY <2>1, ListFacts
  <2>5. stage' = "retire"
    BY <1>1 DEF Pops
  <2> QED BY <2>2, <2>3, <2>4, <2>5 DEF PoppedAreCompleted
<1>2. CASE RetiresOne
  <2>1. UNCHANGED <<completed, entry, stage>>
    BY <1>2 DEF RetiresOne
  <2> QED BY <1>2, <2>1, PoppedShrink DEF PoppedAreCompleted
<1>3. CASE Flushes
  <2>1. Popped' = {} /\ stage' = "retire"
    BY <1>3, ListFacts DEF Popped, Flushes, Retiring, At
  <2> QED BY <2>1 DEF PoppedAreCompleted
<1>4. CASE Drains
  <2>1. Popped' = {} /\ completed' = <<>>
    BY <1>4 DEF Popped, Drains
  <2> QED BY <2>1 DEF PoppedAreCompleted
<1>5. CASE Advances /\ (WriteResult \/ Execute)
  <2>1. stage # "retire" /\ completed' = completed /\ retired' = retired
    BY <1>5, AdvanceKeepsCompleted DEF Advances
  <2>2. Popped' = {} /\ completed' = <<>>
    BY <2>1, ListFacts DEF PoppedAreCompleted, Popped
  <2> QED BY <2>2 DEF PoppedAreCompleted
<1>6. CASE \E node, e : Issues(node, Fetched, e)
  <2>1. stage # "retire" /\ completed' = completed /\ retired' = retired
    BY <1>6 DEF Issues
  <2>2. Popped' = {} /\ completed' = <<>>
    BY <2>1, ListFacts DEF PoppedAreCompleted, Popped
  <2> QED BY <2>2 DEF PoppedAreCompleted
<1>7. CASE Quiet
  BY <1>7 DEF Quiet, PoppedAreCompleted, Popped
<1> QED BY <1>1, <1>2, <1>3, <1>4, <1>5, <1>6, <1>7, EveryStep

(* Outside commit's loop nothing is popped. *)
LEMMA NothingPopped ==
  ASSUME PipelineInv, PoppedAreCompleted, stage # "retire" PROVE Popped = {}
BY ListFacts DEF PoppedAreCompleted, Popped

-----------------------------------------------------------------------------
(* EcallsAreLast                                                           *)

LEMMA EcallsPreserved ==
  ASSUME PipelineInv, PoppedAreCompleted, EcallsAreLast, [Next]_vars PROVE EcallsAreLast'
<1>1. ASSUME NEW n \in 0 .. Len(buf), Pops(n) PROVE EcallsAreLast'
  <2>1. Len(buf) \in Nat /\ n \in Nat /\ n <= Len(buf)
    BY ListFacts
  <2>2. Popped' = 1 .. n /\ Len(completed') = n /\ Len(buf') = Len(buf) - n
    BY <1>1, <2>1 DEF Popped, Pops
  <2>3. ASSUME NEW k \in 1 .. n, IsEcall(completed'[k].e)
        PROVE  k = n /\ Len(buf') = 0
    <3>1. k \in Listed /\ completed'[k].e = Ith(k)
      BY <1>1, <2>1 DEF Pops, Listed, Ith
    <3>2. k = Len(buf)
      BY <2>3, <3>1 DEF EcallsAreLast
    <3> QED BY <2>1, <2>2, <3>2
  <2>4. buf' \in Seq(Nodes)
    BY NextPreserves DEF PipelineInv, TypeOK
  <2>5. ASSUME NEW i \in 1 .. Len(buf'), IsEcall(entry'[buf'[i]]) PROVE i = Len(buf')
    <3>1. n + i \in Listed /\ buf'[i] = buf[n + i]
      BY <1>1, <2>1, <2>2 DEF Pops, Listed
    <3>2. buf'[i] \in DOMAIN entry'
      BY NextPreserves, ListFacts DEF PipelineInv, BufferIsLive
    <3>3. IsEcall(Ith(n + i))
      BY <1>1, <2>5, <3>1, <3>2 DEF Pops, Ith
    <3>4. n + i = Len(buf)
      BY <3>1, <3>3 DEF EcallsAreLast
    <3> QED BY <2>1, <2>2, <3>4
  <2>6. stage' = "retire"
    BY <1>1 DEF Pops
  <2> QED BY <2>2, <2>3, <2>4, <2>5, <2>6 DEF EcallsAreLast, Listed, Ith
<1>2. CASE RetiresOne
  <2>1. UNCHANGED <<completed, buf, entry, stage>>
    BY <1>2 DEF RetiresOne
  <2> QED BY <1>2, <2>1, PoppedShrink DEF EcallsAreLast, Listed, Ith
<1>3. CASE Flushes
  <2>1. Popped' = {} /\ buf' = <<>> /\ stage' = "retire"
    BY <1>3, ListFacts DEF Popped, Flushes, Retiring, At
  <2> QED BY <2>1 DEF EcallsAreLast, Listed
<1>4. CASE Drains
  <2>1. Popped' = {} /\ stage' # "issue_second" /\ UNCHANGED <<buf, entry>>
    BY <1>4 DEF Popped, Drains
  <2> QED BY <2>1 DEF EcallsAreLast, Listed, Ith
<1>5. CASE Advances /\ (WriteResult \/ Execute)
  <2>1. Popped' = Popped /\ completed' = completed /\ buf' = buf
    BY <1>5 DEF Popped, Advances
  <2>2. \A i \in Listed : entry'[buf[i]].inst = entry[buf[i]].inst
    BY <1>5, ListFacts DEF Advances, Listed
  <2>3. stage' # "issue_second"
    BY <1>5, WriteResultAdvances, ExecuteAdvances
  <2> QED BY <2>1, <2>2, <2>3 DEF EcallsAreLast, Listed, Ith, IsEcall
<1>6. ASSUME NEW node, NEW e, Issues(node, Fetched, e) PROVE EcallsAreLast'
  <2>1. Popped' = {}
    BY <1>6, NothingPopped DEF Issues, Popped
  <2>2. Len(buf) \in Nat /\ Len(buf') = Len(buf) + 1 /\ buf'[Len(buf) + 1] = node
        /\ entry'[node].inst = Fetched
    BY <1>6, ListFacts DEF Issues
  <2>3. ASSUME NEW i \in 1 .. Len(buf) PROVE ~IsEcall(Ith(i)) /\ Ith(i)' = Ith(i)
    <3>1. i \in Listed /\ buf # <<>>
      BY <2>2 DEF Listed
    <3>2. IsEcall(Ith(i)) => i = Len(buf)
      BY <3>1 DEF EcallsAreLast
    <3>3. ~IsEcall(Ith(Len(buf)))
      BY <1>6, <3>1 DEF Issues, MustStall, EcallsAreLast, EndsGroup, Ith, IsEcall
    <3>4. Ith(i)' = Ith(i)
      BY <1>6, <2>2, ListFacts DEF Issues, Ith
    <3> QED BY <3>2, <3>3, <3>4
  <2>4. \A i \in 1 .. Len(buf') : IsEcall(Ith(i))' => i = Len(buf')
    BY <2>2, <2>3 DEF IsEcall
  <2>5. stage' = "issue_second" => buf' # <<>> /\ ~EndsGroup(Ith(Len(buf)).inst)'
    BY <1>6, <2>2 DEF Issues, Ith
  <2> QED BY <2>1, <2>4, <2>5 DEF EcallsAreLast, Listed
<1>7. CASE Quiet
  <2>1. stage' = "issue_second" => stage = "issue_second"
    BY <1>7 DEF Quiet
  <2> QED BY <1>7, <2>1 DEF Quiet, EcallsAreLast, Popped, Listed, Ith
<1> QED BY <1>1, <1>2, <1>3, <1>4, <1>5, <1>6, <1>7, EveryStep

-----------------------------------------------------------------------------
(* LastWritersAreNamed                                                     *)

(* The two halves of LastWritersAreNamed for one register. *)
LastInListNamed(r) ==
  \A i \in Listed :
    (Ith(i).rd = r /\ \A j \in i + 1 .. Len(buf) : Ith(j).rd # r) => related_rob[r] = buf[i]

LastPoppedNamed(r) ==
  \A k \in Popped :
    (/\ completed[k].e.rd = r
     /\ \A j \in k + 1 .. Len(completed) : completed[j].e.rd # r
     /\ \A i \in Listed : Ith(i).rd # r)
      => related_rob[r] = completed[k].node

LEMMA PopKeepsWriters ==
  ASSUME PipelineInv, LastWritersAreNamed, NEW n \in 0 .. Len(buf), Pops(n), PipelineInv',
         NEW r \in Regs \ {0}
  PROVE  LastInListNamed(r)' /\ LastPoppedNamed(r)'
<1>1. Len(buf) \in Nat /\ n \in Nat /\ n <= Len(buf)
  BY ListFacts
<1>2. Popped' = 1 .. n /\ Len(completed') = n /\ Len(buf') = Len(buf) - n
      /\ related_rob' = related_rob
  BY <1>1 DEF Popped, Pops
<1>3. \A i \in 1 .. Len(buf') : buf'[i] = buf[n + i] /\ entry'[buf'[i]] = entry[buf[n + i]]
  <2>1. \A i \in 1 .. Len(buf') : buf'[i] \in DOMAIN entry'
    BY DEF PipelineInv, BufferIsLive
  <2> QED BY <1>2, <2>1 DEF Pops
<1>4. \A j \in n + 1 .. Len(buf) : j - n \in 1 .. Len(buf') /\ n + (j - n) = j
  BY <1>1, <1>2
<1>5. \A j \in n + 1 .. Len(buf) : entry'[buf'[j - n]] = entry[buf[j]]
  BY <1>3, <1>4
<1>6. \A i \in 1 .. Len(buf) :
        (entry[buf[i]].rd = r /\ \A j \in i + 1 .. Len(buf) : entry[buf[j]].rd # r)
          => related_rob[r] = buf[i]
  BY DEF LastWritersAreNamed, Listed, Ith
<1>7. LastInListNamed(r)'
  <2> SUFFICES ASSUME NEW i \in 1 .. Len(buf'), entry'[buf'[i]].rd = r,
                      \A j \in i + 1 .. Len(buf') : entry'[buf'[j]].rd # r
               PROVE  related_rob[r] = buf[n + i]
    BY <1>2, <1>3 DEF LastInListNamed, Listed, Ith
  <2>1. n + i \in 1 .. Len(buf) /\ entry[buf[n + i]].rd = r
    BY <1>1, <1>2, <1>3
  <2>2. ASSUME NEW j \in (n + i) + 1 .. Len(buf) PROVE entry[buf[j]].rd # r
    <3>1. j \in n + 1 .. Len(buf) /\ j - n \in i + 1 .. Len(buf')
      BY <1>1, <1>2
    <3> QED BY <1>5, <3>1
  <2> QED BY <1>6, <2>1, <2>2
<1>8. LastPoppedNamed(r)'
  <2> SUFFICES ASSUME NEW k \in 1 .. n, completed'[k].e.rd = r,
                      \A j \in k + 1 .. n : completed'[j].e.rd # r,
                      \A i \in 1 .. Len(buf') : entry'[buf'[i]].rd # r
               PROVE  related_rob[r] = completed'[k].node
    BY <1>2 DEF LastPoppedNamed, Listed, Ith
  <2>1. \A j \in 1 .. n : completed'[j].node = buf[j] /\ completed'[j].e = entry[buf[j]]
    BY DEF Pops
  <2>2. ASSUME NEW j \in k + 1 .. Len(buf) PROVE entry[buf[j]].rd # r
    <3>1. CASE j <= n
      BY <1>1, <2>1, <3>1
    <3>2. CASE j > n
      <4>1. j \in n + 1 .. Len(buf) /\ j - n \in 1 .. Len(buf')
        BY <1>1, <1>2, <3>2
      <4> QED BY <1>5, <4>1
    <3> QED BY <1>1, <3>1, <3>2
  <2> QED BY <1>1, <1>6, <2>1, <2>2
<1> QED BY <1>7, <1>8

LEMMA RetireKeepsWriters ==
  ASSUME PipelineInv, PoppedAreCompleted, LastWritersAreNamed, RetiresOne,
         NEW r \in Regs \ {0}
  PROVE  LastInListNamed(r)' /\ LastPoppedNamed(r)'
<1>1. Popped' \subseteq Popped /\ retired + 1 \in Popped /\ retired + 1 \notin Popped'
  BY ListFacts DEF Popped, RetiresOne, Retiring
<1>2. /\ UNCHANGED <<completed, buf, entry>>
      /\ related_rob' = related_rob \/ related_rob' = Freed(related_rob, Current.e.rd, Current.node)
  BY DEF RetiresOne
<1>3. related_rob[r] # Current.node => related_rob'[r] = related_rob[r]
  BY <1>2 DEF Freed, PipelineInv, TypeOK
<1>4. LastInListNamed(r)'
  <2>1. \A i \in Listed : buf[i] # Current.node
    BY <1>1, ListFacts DEF PoppedAreCompleted, Listed, Current
  <2> QED BY <1>2, <1>3, <2>1 DEF LastInListNamed, LastWritersAreNamed, Listed, Ith
<1>5. LastPoppedNamed(r)'
  <2>1. \A k \in Popped' : completed[k].node # Current.node
    BY <1>1 DEF PoppedAreCompleted, Current
  <2> QED BY <1>1, <1>2, <1>3, <2>1 DEF LastPoppedNamed, LastWritersAreNamed, Listed, Ith
<1> QED BY <1>4, <1>5

LEMMA IssueKeepsWriters ==
  ASSUME PipelineInv, PoppedAreCompleted, LastWritersAreNamed,
         NEW node, NEW inst, NEW e, Issues(node, inst, e),
         NEW r \in Regs \ {0}
  PROVE  LastInListNamed(r)' /\ LastPoppedNamed(r)'
<1>1. Popped' = {}
  BY NothingPopped DEF Issues, Popped
<1>2. /\ Len(buf) \in Nat /\ Len(buf') = Len(buf) + 1
      /\ buf'[Len(buf) + 1] = node /\ entry'[node] = e
      /\ \A i \in 1 .. Len(buf) : buf'[i] = buf[i] /\ entry'[buf'[i]] = entry[buf[i]]
  BY ListFacts DEF Issues
<1>3. /\ e.rd = r => related_rob'[r] = node
      /\ e.rd # r => related_rob'[r] = related_rob[r]
  BY DEF Issues, SetRegRobIndex, PipelineInv, TypeOK
<1>4. LastInListNamed(r)'
  <2> SUFFICES ASSUME NEW i \in 1 .. Len(buf'), entry'[buf'[i]].rd = r,
                      \A j \in i + 1 .. Len(buf') : entry'[buf'[j]].rd # r
               PROVE  related_rob'[r] = buf'[i]
    BY DEF LastInListNamed, Listed, Ith
  <2>1. CASE i = Len(buf) + 1
    BY <1>2, <1>3, <2>1
  <2>2. CASE i \in 1 .. Len(buf)
    <3>1. Len(buf) + 1 \in i + 1 .. Len(buf')
      BY <1>2, <2>2
    <3>2. e.rd # r
      BY <1>2, <3>1
    <3>3. \A j \in i + 1 .. Len(buf) : j \in 1 .. Len(buf) /\ j \in i + 1 .. Len(buf')
      BY <1>2, <2>2
    <3>4. \A j \in i + 1 .. Len(buf) : entry[buf[j]].rd # r
      BY <1>2, <3>3
    <3>5. related_rob[r] = buf[i]
      BY <1>2, <2>2, <3>4 DEF LastWritersAreNamed, Listed, Ith
    <3> QED BY <1>2, <1>3, <2>2, <3>2, <3>5
  <2> QED BY <1>2, <2>1, <2>2
<1> QED BY <1>1, <1>4 DEF LastPoppedNamed

LEMMA WritersPreserved ==
  ASSUME PipelineInv, PoppedAreCompleted, LastWritersAreNamed, [Next]_vars
  PROVE  LastWritersAreNamed'
<1> SUFFICES ASSUME NEW r \in Regs \ {0} PROVE LastInListNamed(r)' /\ LastPoppedNamed(r)'
  BY DEF LastWritersAreNamed, LastInListNamed, LastPoppedNamed
<1>1. LastInListNamed(r) /\ LastPoppedNamed(r)
  BY DEF LastWritersAreNamed, LastInListNamed, LastPoppedNamed
<1>2. CASE \E n \in 0 .. Len(buf) : Pops(n)
  BY <1>2, NextPreserves, PopKeepsWriters
<1>3. CASE RetiresOne
  BY <1>3, RetireKeepsWriters
<1>4. CASE Flushes
  <2>1. Popped' = {} /\ Listed' = {}
    BY <1>4, ListFacts DEF Popped, Flushes, Listed
  <2> QED BY <2>1 DEF LastInListNamed, LastPoppedNamed
<1>5. CASE Drains
  <2>1. Popped' = {} /\ UNCHANGED <<buf, entry, related_rob>>
    BY <1>5 DEF Popped, Drains
  <2> QED BY <1>1, <2>1 DEF LastInListNamed, LastPoppedNamed, Listed, Ith
<1>6. CASE Advances
  <2>1. UNCHANGED <<buf, completed, retired, related_rob>>
    BY <1>6 DEF Advances
  <2>2. \A i \in 1 .. Len(buf) : entry'[buf[i]].rd = entry[buf[i]].rd
    BY <1>6, ListFacts DEF Advances
  <2>3. \A i \in 1 .. Len(buf) : \A j \in i + 1 .. Len(buf) : j \in 1 .. Len(buf)
    BY ListFacts
  <2>4. LastInListNamed(r)'
    BY <1>1, <2>1, <2>2, <2>3 DEF LastInListNamed, Listed, Ith
  <2>5. LastPoppedNamed(r)'
    BY <1>1, <2>1, <2>2 DEF LastPoppedNamed, Listed, Ith, Popped
  <2> QED BY <2>4, <2>5
<1>7. CASE \E node, e : Issues(node, Fetched, e)
  BY <1>7, IssueKeepsWriters
<1>8. CASE Quiet
  BY <1>1, <1>8 DEF Quiet, LastInListNamed, LastPoppedNamed, Popped, Listed, Ith
<1> QED BY <1>2, <1>3, <1>4, <1>5, <1>6, <1>7, <1>8, EveryStep

-----------------------------------------------------------------------------
(* The instructions in flight, as one sequence                             *)

LEMMA PendingFacts ==
  ASSUME PipelineInv
  PROVE  LET popped == Len(completed) - retired IN
         /\ popped \in Nat
         /\ Len(Pending) = popped + Len(buf)
         /\ \A k \in 1 .. popped : Pending[k] = completed[retired + k]
         /\ \A i \in 1 .. Len(buf) : /\ Pending[popped + i].node = buf[i]
                                     /\ Pending[popped + i].e = Ith(i)
<1> DEFINE popped == Len(completed) - retired
           S == [node : Nodes, e : ReorderBufferEntry]
           front == SubSeq(completed, retired + 1, Len(completed))
           back == [k \in 1 .. Len(buf) |-> [node |-> buf[k], e |-> entry[buf[k]]]]
<1>1. /\ completed \in Seq(S) /\ retired \in Nat /\ Len(completed) \in Nat
      /\ retired <= Len(completed) /\ Len(buf) \in Nat
  BY ListFacts DEF PipelineInv, TypeOK
<1>2. \A k \in 1 .. Len(completed) : completed[k] \in S
  BY <1>1, ElementOfSeq
<1>3. \A k \in 1 .. Len(buf) : [node |-> buf[k], e |-> entry[buf[k]]] \in S
  BY ListFacts
<1>4. back \in Seq(S) /\ Len(back) = Len(buf)
  BY <1>1, <1>3
<1> HIDE DEF S
<1>5. /\ front \in Seq(S) /\ Len(front) = popped
      /\ \A k \in 1 .. popped : front[k] = completed[retired + k]
  <2>1. /\ retired + 1 \in Int /\ Len(completed) \in Int
        /\ \A k \in retired + 1 .. Len(completed) : completed[k] \in S
    BY <1>1, <1>2
  <2>2. /\ front \in Seq(S)
        /\ Len(front) = IF retired + 1 <= Len(completed)
                          THEN Len(completed) - (retired + 1) + 1 ELSE 0
        /\ \A k \in 1 .. Len(completed) - (retired + 1) + 1 :
             front[k] = completed[retired + 1 + k - 1]
    BY <2>1, SubSeqProperties
  <2>3. Len(completed) - (retired + 1) + 1 = popped /\ popped \in Nat
    BY <1>1
  <2>4. \A k \in 1 .. popped : retired + 1 + k - 1 = retired + k
    BY <1>1
  <2>5. Len(front) = popped
    BY <1>1, <2>2
  <2>6. 1 .. Len(completed) - (retired + 1) + 1 = 1 .. popped
    BY <2>3
  <2> HIDE DEF front, popped
  <2>7. \A k \in 1 .. popped : front[k] = completed[retired + k]
    BY <2>2, <2>4, <2>6
  <2> QED BY <2>2, <2>5, <2>7
<1>6. Pending = front \o back
  BY DEF Pending
<1>7. \A i \in 1 .. Len(buf) : back[i].node = buf[i] /\ back[i].e = Ith(i)
  BY DEF Ith
<1>8. popped \in Nat
  BY <1>1
<1> HIDE DEF front, back, popped
<1>9. /\ Len(Pending) = popped + Len(buf)
      /\ \A k \in 1 .. popped + Len(buf) :
           Pending[k] = IF k <= popped THEN front[k] ELSE back[k - popped]
  BY <1>4, <1>5, <1>6, ConcatProperties
<1>10. \A k \in 1 .. popped : k \in 1 .. popped + Len(buf) /\ k <= popped
  BY <1>1, <1>8
<1>11. \A i \in 1 .. Len(buf) : /\ popped + i \in 1 .. popped + Len(buf)
                                /\ ~(popped + i <= popped)
                                /\ (popped + i) - popped = i
  BY <1>1, <1>8
<1>12. \A i \in 1 .. Len(buf) : Pending[popped + i] = back[i]
  BY <1>9, <1>11
<1> QED BY <1>5, <1>7, <1>8, <1>9, <1>10, <1>12 DEF popped

-----------------------------------------------------------------------------
(* Sets of naturals                                                        *)

LEMMA LeastElement ==
  ASSUME NEW S \in SUBSET Nat, S # {}
  PROVE  \E n \in S : \A m \in S : n <= m
<1>1. IsWellFoundedOn({ss \in Nat \X Nat : ss[1] < ss[2]}, Nat)
  BY NatLessThanWellFounded DEF OpToRel
<1> DEFINE R == {ss \in Nat \X Nat : ss[1] < ss[2]}
<1>2. \A x, y \in Nat : <<y, x>> \in R <=> y < x
  OBVIOUS
<1> HIDE DEF R
<1>3. PICK n \in S : \A m \in S : ~(<<m, n>> \in R)
  BY <1>1, WFMin DEF R
<1>4. ASSUME NEW m \in S PROVE n <= m
  <2>1. n \in Nat /\ m \in Nat /\ ~(m < n)
    BY <1>2, <1>3
  <2> QED BY <2>1
<1> QED BY <1>4

LEMMA GreatestElement ==
  ASSUME NEW S \in SUBSET Nat, S # {}, NEW b \in Nat, \A m \in S : m <= b
  PROVE  \E n \in S : \A m \in S : m <= n
<1> DEFINE T == {b - m : m \in S}
<1>1. T \in SUBSET Nat /\ T # {}
  <2>1. ASSUME NEW m \in S PROVE b - m \in Nat
    <3>1. m \in Nat /\ m <= b
      OBVIOUS
    <3> QED BY <3>1
  <2> QED BY <2>1
<1>2. PICK t \in T : \A u \in T : t <= u
  BY <1>1, LeastElement
<1>3. PICK n \in S : t = b - n
  OBVIOUS
<1>4. ASSUME NEW m \in S PROVE m <= n
  <2>1. b - n <= b - m /\ n \in Nat /\ m \in Nat
    BY <1>2, <1>3
  <2> QED BY <2>1
<1> QED BY <1>4

-----------------------------------------------------------------------------
(* The theorems                                                            *)

LEMMA InitIsOrdered == Init => OrderInv
BY DEF Init, OrderInv, WaitsAreOlder, PoppedAreCompleted, EcallsAreLast,
       LastWritersAreNamed, Popped, Listed

(* The order of the instructions in flight is kept by every step.          *)
THEOREM OrderHolds == Spec /\ EcallsNameNoRegister => [](PipelineInv /\ OrderInv)
<1>1. Init /\ EcallsNameNoRegister => PipelineInv /\ OrderInv
  BY InitEstablishes, InitIsOrdered
<1>2. PipelineInv /\ OrderInv /\ [Next]_vars => PipelineInv' /\ OrderInv'
  BY NextPreserves, WaitsPreserved, PoppedPreserved, EcallsPreserved, WritersPreserved
     DEF OrderInv
<1> QED BY <1>1, <1>2, PTL DEF Spec

(* An operand only waits for an instruction fetched earlier, whatever the  *)
(* order of the broadcasts (ReservationStation::issue, propagate) and of   *)
(* the retirements: no wait is circular.                                   *)
THEOREM WaitsGoBack == Spec /\ EcallsNameNoRegister => []TagsAreOlder
<1>1. PipelineInv /\ OrderInv => TagsAreOlder
  <2> SUFFICES ASSUME PipelineInv, OrderInv, NEW n \in DOMAIN entry, NEW i \in TagsOf(n)
               PROVE  i \in DOMAIN entry /\ Position(i) < Position(n)
    BY DEF TagsAreOlder
  <2>1. PICK j \in 1 .. Len(buf) : buf[j] = n
    BY ListFacts
  <2>2. PICK k \in 1 .. j - 1 : buf[k] = i
    BY <2>1 DEF OrderInv, WaitsAreOlder, Listed
  <2>3. k \in 1 .. Len(buf) /\ k < j
    BY <2>1, <2>2, ListFacts
  <2>4. \A m \in 1 .. Len(buf) : (buf[m] = n => m = j) /\ (buf[m] = i => m = k)
    BY <2>1, <2>2, <2>3, ListFacts
  <2>5. Position(n) = j /\ Position(i) = k
    BY <2>1, <2>2, <2>3, <2>4 DEF Position
  <2> QED BY <2>2, <2>3, <2>5, ListFacts
<1> QED BY <1>1, OrderHolds, PTL

(* So the oldest instruction of the list waits for nobody: the buffers     *)
(* cannot be deadlocked on each other's broadcasts.                        *)
THEOREM OldestNeverWaits == Spec /\ EcallsNameNoRegister => [](buf # <<>> => TagsOf(buf[1]) = {})
<1>1. PipelineInv /\ OrderInv => (buf # <<>> => TagsOf(buf[1]) = {})
  <2> SUFFICES ASSUME PipelineInv, OrderInv, buf # <<>>, NEW i \in TagsOf(buf[1])
               PROVE  FALSE
    OBVIOUS
  <2>1. 1 \in Listed
    BY ListFacts DEF Listed
  <2> QED BY <2>1 DEF OrderInv, WaitsAreOlder
<1> QED BY <1>1, OrderHolds, PTL

(* When system_call runs, on the register file itself, nothing else is in  *)
(* flight: the ecall is alone, and every register holds its value.         *)
THEOREM SystemCallsRunAlone == Spec /\ EcallsNameNoRegister => []SystemCallsAreSerialized
<1>1. PipelineInv /\ OrderInv => SystemCallsAreSerialized
  <2> SUFFICES ASSUME PipelineInv, OrderInv, Retiring, IsEcall(Current.e)
               PROVE  /\ buf = <<>> /\ retired + 1 = Len(completed)
                      /\ \A r \in Regs : related_rob[r] = NULL
    BY DEF SystemCallsAreSerialized
  <2>1. retired + 1 \in Popped
    BY ListFacts DEF Retiring, Popped
  <2>2. buf = <<>> /\ retired + 1 = Len(completed)
    BY <2>1 DEF OrderInv, EcallsAreLast, Current
  <2>3. ASSUME NEW r \in Regs, related_rob[r] # NULL PROVE FALSE
    <3>1. Renames(related_rob[r], r)
      BY <2>3 DEF PipelineInv, RenamesAreWriters
    <3>2. DOMAIN entry = {}
      <4>1. \A i \in 1 .. Len(buf) : FALSE
        BY <2>2
      <4>2. \A n \in DOMAIN entry : \E i \in 1 .. Len(buf) : buf[i] = n
        BY ListFacts
      <4> QED BY <4>1, <4>2
    <3>3. PICK k \in retired + 1 .. Len(completed) : Writes(completed[k].e, r)
      BY <3>1, <3>2 DEF Renames
    <3>4. k = retired + 1
      BY <2>2, <3>3, ListFacts
    <3> QED BY <3>3, <3>4 DEF Writes, Current, IsEcall
  <2> QED BY <2>2, <2>3
<1> QED BY <1>1, OrderHolds, PTL

(* The register file is renamed to the youngest writer in flight and to    *)
(* nobody when there is none, however retirements, flushes and reused      *)
(* nodes interleave (set_reg_rob_index, retire, clear_all_buffers).        *)
THEOREM RenamingIsRight == Spec /\ EcallsNameNoRegister => []RenamingIsYoungestWriter
<1>1. PipelineInv /\ OrderInv => RenamingIsYoungestWriter
  <2> SUFFICES ASSUME PipelineInv, OrderInv, NEW r \in Regs \ {0}
               PROVE  related_rob[r] =
                        IF WritersOf(r) = {} THEN NULL
                        ELSE Pending[CHOOSE k \in WritersOf(r) :
                                       \A j \in WritersOf(r) : j <= k].node
    BY DEF RenamingIsYoungestWriter
  <2> DEFINE popped == Len(completed) - retired
  <2>1. /\ popped \in Nat /\ Len(Pending) = popped + Len(buf)
        /\ \A k \in 1 .. popped : Pending[k] = completed[retired + k]
        /\ \A i \in 1 .. Len(buf) : /\ Pending[popped + i].node = buf[i]
                                    /\ Pending[popped + i].e = Ith(i)
    BY PendingFacts
  <2>2. Len(buf) \in Nat /\ retired \in Nat /\ Len(completed) \in Nat
    BY ListFacts
  <2>3. \A k : k \in WritersOf(r) <=> k \in 1 .. Len(Pending) /\ Pending[k].e.rd = r
    BY DEF WritersOf, PendingAt
  <2>4. \A k \in 1 .. Len(Pending) : \/ k \in 1 .. popped
                                     \/ /\ k - popped \in 1 .. Len(buf)
                                        /\ popped + (k - popped) = k
    BY <2>1, <2>2
  <2>5. Len(Pending) \in Nat
    BY <2>1, <2>2
  <2>6. CASE WritersOf(r) = {}
    <3> SUFFICES ASSUME related_rob[r] # NULL PROVE FALSE
      BY <2>6
    <3>1. Renames(related_rob[r], r)
      BY DEF PipelineInv, RenamesAreWriters
    <3>2. CASE related_rob[r] \in DOMAIN entry /\ Writes(entry[related_rob[r]], r)
      <4>1. PICK i \in 1 .. Len(buf) : buf[i] = related_rob[r]
        BY <3>2, ListFacts
      <4>2. Ith(i).rd = r
        BY <3>2, <4>1 DEF Ith, Writes
      <4>3. popped + i \in 1 .. Len(Pending)
        BY <2>1, <2>2
      <4> QED BY <2>1, <2>3, <2>6, <4>2, <4>3
    <3>3. CASE \E k \in retired + 1 .. Len(completed) : Writes(completed[k].e, r)
      <4>1. PICK k \in retired + 1 .. Len(completed) : completed[k].e.rd = r
        BY <3>3 DEF Writes
      <4>2. /\ k - retired \in 1 .. popped /\ k - retired \in 1 .. Len(Pending)
            /\ retired + (k - retired) = k
        BY <2>1, <2>2
      <4>3. Pending[k - retired] = completed[k]
        BY <2>1, <4>2
      <4> QED BY <2>3, <2>6, <4>1, <4>2, <4>3
    <3> QED BY <3>1, <3>2, <3>3 DEF Renames
  <2>7. CASE WritersOf(r) # {}
    <3> DEFINE last == CHOOSE k \in WritersOf(r) : \A j \in WritersOf(r) : j <= k
    <3>1. \E k \in WritersOf(r) : \A j \in WritersOf(r) : j <= k
      <4>1. /\ WritersOf(r) \in SUBSET Nat
            /\ \A k \in WritersOf(r) : k <= Len(Pending)
        BY <2>3, <2>5
      <4> QED BY <2>7, <2>5, <4>1, GreatestElement
    <3>2. last \in WritersOf(r) /\ \A j \in WritersOf(r) : j <= last
      BY <3>1
    <3> HIDE DEF last
    <3>3. last \in 1 .. Len(Pending) /\ Pending[last].e.rd = r /\ last \in Nat
      BY <2>3, <2>5, <3>2
    <3>4. ASSUME NEW j \in 1 .. Len(Pending), j > last PROVE Pending[j].e.rd # r
      <4>1. ~(j <= last)
        BY <2>5, <3>3, <3>4
      <4> QED BY <2>3, <3>2, <4>1
    <3>5. \A i \in 1 .. Len(buf) : popped + i > last => Ith(i).rd # r
      <4>1. \A i \in 1 .. Len(buf) : popped + i \in 1 .. Len(Pending)
        BY <2>1, <2>2
      <4> QED BY <2>1, <3>4, <4>1
    <3>6. related_rob[r] = Pending[last].node
      <4>1. CASE last \in 1 .. popped
        <5>1. retired + last \in Popped /\ Pending[last] = completed[retired + last]
          BY <2>1, <2>2, <4>1 DEF Popped
        <5>2. ASSUME NEW j \in (retired + last) + 1 .. Len(completed)
              PROVE  completed[j].e.rd # r
          <6>1. /\ j - retired \in 1 .. popped /\ retired + (j - retired) = j
                /\ j - retired > last /\ j - retired \in 1 .. Len(Pending)
            BY <2>1, <2>2, <3>3
          <6> QED BY <2>1, <3>4, <6>1
        <5>3. ASSUME NEW i \in Listed PROVE Ith(i).rd # r
          <6>1. i \in 1 .. Len(buf) /\ popped + i > last
            BY <2>1, <2>2, <4>1 DEF Listed
          <6> QED BY <3>5, <6>1
        <5> QED BY <3>3, <5>1, <5>2, <5>3 DEF OrderInv, LastWritersAreNamed
      <4>2. CASE last - popped \in 1 .. Len(buf) /\ popped + (last - popped) = last
        <5>1. /\ last - popped \in Listed
              /\ Pending[last].e = Ith(last - popped) /\ Pending[last].node = buf[last - popped]
          BY <2>1, <4>2 DEF Listed
        <5>2. ASSUME NEW j \in (last - popped) + 1 .. Len(buf) PROVE Ith(j).rd # r
          <6>1. j \in 1 .. Len(buf) /\ popped + j > last
            BY <2>1, <2>2, <3>3, <4>2
          <6> QED BY <3>5, <6>1
        <5> QED BY <3>3, <5>1, <5>2 DEF OrderInv, LastWritersAreNamed
      <4> QED BY <2>4, <3>3, <4>1, <4>2
    <3> QED BY <2>7, <3>6 DEF last
  <2> QED BY <2>6, <2>7
<1> QED BY <1>1, OrderHolds, PTL

-----------------------------------------------------------------------------
(* The path of the fetch                                                   *)

(* A jalr's address is missing or known: it never waits for a register in  *)
(* the reorder buffer, the address unit does.                              *)
LEMMA JalrAddress ==
  ASSUME PipelineInv, JumpsAreLast, NEW i \in Listed, Ith(i).inst.opcode = "Jalr"
  PROVE  /\ Ith(i).addr.tag # "Rob"
         /\ ~IsValue(Ith(i).addr) => i = Len(buf) /\ buf[i] \in DOMAIN addresses
<1>1. ~IsValue(Ith(i).addr) => i = Len(buf) /\ buf[i] \in DOMAIN addresses
  BY DEF JumpsAreLast
<1>2. ~IsValue(Ith(i).addr) => Ith(i).addr = NoOperand
  BY <1>1 DEF PipelineInv, AddressesAreMissing, Ith
<1> QED BY <1>1, <1>2 DEF IsValue, NoOperand

LEMMA SameSuccessor ==
  ASSUME NEW e2, NEW e, e2.inst = e.inst, e2.pc = e.pc, e2.branch_pred = e.branch_pred,
         e.inst.opcode = "Jalr" => e2.addr = e.addr
  PROVE  Successor(e2) = Successor(e)
BY DEF Successor

(* What issue follows goes on where it is known to: every jalr in flight   *)
(* has its target when an instruction is fetched.                          *)
LEMMA NoOpenJump ==
  ASSUME PipelineInv, EcallsAreLast, JumpsAreLast, stage \in {"issue", "issue_second"},
         stage = "issue" => ~MustStall,
         NEW i \in Listed, Ith(i).inst.opcode = "Jalr"
  PROVE  IsValue(Ith(i).addr)
<1> SUFFICES ASSUME ~IsValue(Ith(i).addr) PROVE FALSE
  OBVIOUS
<1>1. i = Len(buf) /\ buf # <<>>
  BY ListFacts DEF JumpsAreLast, Listed
<1>2. CASE stage = "issue"
  <2>1. IsCompleted(Ith(i))
    BY <1>1, <1>2 DEF MustStall, Ith
  <2> QED BY <2>1 DEF IsCompleted
<1>3. CASE stage = "issue_second"
  BY <1>1, <1>3 DEF EcallsAreLast, EndsGroup
<1> QED BY <1>2, <1>3

LEMMA JumpsPreserved ==
  ASSUME PipelineInv, EcallsAreLast, JumpsAreLast, [Next]_vars PROVE JumpsAreLast'
<1>0. \A n \in DOMAIN addresses : n \in DOMAIN entry
  BY DEF PipelineInv, AddressesAreMissing
<1>1. ASSUME NEW n \in 0 .. Len(buf), Pops(n) PROVE JumpsAreLast'
  <2>1. Len(buf) \in Nat /\ n \in Nat /\ n <= Len(buf) /\ Len(buf') = Len(buf) - n
    BY <1>1, ListFacts DEF Pops
  <2>2. \A m \in DOMAIN addresses : entry'[m] = entry[m]
    BY <1>0, <1>1 DEF Pops
  <2>3. ASSUME NEW i \in Listed' PROVE n + i \in Listed /\ Ith(i)' = Ith(n + i) /\ buf'[i] = buf[n + i]
    <3>1. n + i \in Listed /\ buf'[i] = buf[n + i]
      BY <1>1, <2>1 DEF Pops, Listed
    <3>2. buf'[i] \in DOMAIN entry'
      BY NextPreserves DEF PipelineInv, BufferIsLive, Listed
    <3> QED BY <1>1, <3>1, <3>2 DEF Pops, Ith
  <2>4. ASSUME NEW i \in Listed', Ith(i)'.inst.opcode = "Jalr", ~IsValue(Ith(i)'.addr)
        PROVE  i = Len(buf') /\ buf'[i] \in DOMAIN addresses
    <3>1. n + i = Len(buf) /\ buf[n + i] \in DOMAIN addresses
      BY <2>3, <2>4 DEF JumpsAreLast
    <3>2. i \in Nat
      BY <2>1 DEF Listed
    <3> QED BY <2>1, <2>3, <3>1, <3>2
  <2>5. addresses' = addresses
    BY <1>1 DEF Pops
  <2> QED BY <2>2, <2>4, <2>5 DEF JumpsAreLast
<1>2. CASE RetiresOne \/ Drains \/ Quiet
  <2>1. UNCHANGED <<buf, entry, addresses>>
    BY <1>2 DEF RetiresOne, Drains, Quiet
  <2> QED BY <2>1 DEF JumpsAreLast, Listed, Ith
<1>3. CASE Flushes
  BY <1>3 DEF Flushes, JumpsAreLast, Listed
<1>4. CASE Advances /\ WriteResult
  <2>1. /\ DOMAIN addresses' = DOMAIN addresses /\ buf' = buf
        /\ \A n \in DOMAIN addresses : addresses'[n].is_jalr = addresses[n].is_jalr
        /\ \A n \in DOMAIN entry : entry'[n].inst = entry[n].inst
        /\ \A n \in DOMAIN entry : entry[n].addr.tag # "Rob" => entry'[n].addr = entry[n].addr
    BY <1>4, WriteResultAdvances DEF Advances, AddressesPropagated
  <2>2. ASSUME NEW i \in Listed, entry'[buf[i]].inst.opcode = "Jalr", ~IsValue(entry'[buf[i]].addr)
        PROVE  i = Len(buf) /\ buf[i] \in DOMAIN addresses
    <3>1. buf[i] \in DOMAIN entry
      BY ListFacts DEF Listed
    <3>2. Ith(i).inst.opcode = "Jalr" /\ Ith(i).addr.tag # "Rob"
      BY <2>1, <2>2, <3>1, JalrAddress DEF Ith
    <3>3. ~IsValue(Ith(i).addr)
      BY <2>1, <2>2, <3>1, <3>2 DEF Ith
    <3> QED BY <3>2, <3>3 DEF JumpsAreLast
  <2>3. \A n \in DOMAIN addresses' :
          addresses'[n].is_jalr <=> entry'[n].inst.opcode = "Jalr"
    BY <1>0, <2>1 DEF JumpsAreLast
  <2> QED BY <2>1, <2>2, <2>3 DEF JumpsAreLast, Listed, Ith
<1>5. CASE Advances /\ Execute
  <2>1. /\ DOMAIN addresses' = DOMAIN addresses \ ReadyAddresses(addresses) /\ buf' = buf
        /\ \A n \in DOMAIN addresses' : addresses'[n].is_jalr = addresses[n].is_jalr
        /\ \A n \in DOMAIN entry : entry'[n].inst = entry[n].inst
        /\ \A n \in DOMAIN entry :
             entry'[n].addr = IF n \in ReadyAddresses(addresses)
                                THEN Value(Address(addresses[n])) ELSE entry[n].addr
    BY <1>5, ExecuteAdvances DEF Advances, Remove
  <2>2. ASSUME NEW i \in Listed, entry'[buf[i]].inst.opcode = "Jalr", ~IsValue(entry'[buf[i]].addr)
        PROVE  i = Len(buf) /\ buf[i] \in DOMAIN addresses'
    <3>1. buf[i] \in DOMAIN entry
      BY ListFacts DEF Listed
    <3>2. \A v : IsValue(Value(v))
      BY DEF IsValue, Value
    <3>3. Ith(i).inst.opcode = "Jalr" /\ buf[i] \notin ReadyAddresses(addresses)
      BY <2>1, <2>2, <3>1, <3>2 DEF Ith
    <3>4. ~IsValue(Ith(i).addr)
      BY <2>1, <2>2, <3>1, <3>3 DEF Ith
    <3> QED BY <2>1, <3>3, <3>4 DEF JumpsAreLast
  <2>3. \A n \in DOMAIN addresses' :
          addresses'[n].is_jalr <=> entry'[n].inst.opcode = "Jalr"
    BY <1>0, <2>1 DEF JumpsAreLast
  <2> QED BY <2>1, <2>2, <2>3 DEF JumpsAreLast, Listed, Ith
<1>6. ASSUME NEW node, NEW e, Issues(node, Fetched, e) PROVE JumpsAreLast'
  <2>1. /\ Len(buf) \in Nat /\ Len(buf') = Len(buf) + 1 /\ buf'[Len(buf) + 1] = node
        /\ entry'[node] = e /\ e.inst = Fetched
        /\ \A i \in 1 .. Len(buf) : buf'[i] = buf[i]
    BY <1>6, ListFacts DEF Issues
  <2>2. ASSUME NEW i \in 1 .. Len(buf) PROVE Ith(i)' = Ith(i) /\ i \in Listed
    BY <1>6, <2>1, ListFacts DEF Issues, Ith, Listed
  <2>3. ASSUME NEW i \in Listed', Ith(i)'.inst.opcode = "Jalr", ~IsValue(Ith(i)'.addr)
        PROVE  i = Len(buf') /\ buf'[i] \in DOMAIN addresses'
    <3>1. i = Len(buf) + 1
      <4>1. i \notin 1 .. Len(buf)
        BY <1>6, <2>2, <2>3, NoOpenJump DEF Issues
      <4> QED BY <2>1, <4>1 DEF Listed
    <3>2. UsesAddressUnit(Fetched)
      BY <2>1, <2>3, <3>1 DEF UsesAddressUnit, Ith
    <3>3. node \in DOMAIN addresses'
      BY <1>6, <3>2 DEF Issues
    <3> QED BY <2>1, <3>1, <3>3
  <2>4. ASSUME NEW n \in DOMAIN addresses'
        PROVE  addresses'[n].is_jalr <=> entry'[n].inst.opcode = "Jalr"
    <3>1. CASE n \in DOMAIN addresses
      BY <1>0, <1>6, <3>1 DEF Issues, JumpsAreLast
    <3>2. CASE n \notin DOMAIN addresses
      <4>1. n = node /\ UsesAddressUnit(Fetched)
        BY <1>6, <3>2 DEF Issues
      <4> QED BY <1>6, <2>1, <4>1 DEF Issues
    <3> QED BY <3>1, <3>2
  <2> QED BY <2>3, <2>4 DEF JumpsAreLast
<1> QED BY <1>1, <1>2, <1>3, <1>4, <1>5, <1>6, EveryStep

-----------------------------------------------------------------------------
(* PathIsFollowed                                                          *)

(* The youngest jalr is the only one the address unit can answer, and the  *)
(* pc it answers is that jalr's target.                                    *)
LEMMA JalrRedirects ==
  ASSUME PipelineInv, JumpsAreLast, ~JalrToZero, Execute,
         NEW n \in ReadyAddresses(addresses), addresses[n].is_jalr
  PROVE  buf # <<>> /\ n = buf[Len(buf)] /\ pc' = Address(addresses[n])
<1> DEFINE ready == {m \in ReadyAddresses(addresses) : addresses[m].is_jalr}
<1>1. ASSUME NEW m \in ready PROVE buf # <<>> /\ m = buf[Len(buf)]
  <2>1. m \in DOMAIN addresses /\ m \in DOMAIN entry /\ entry[m].addr = NoOperand
    BY DEF ReadyAddresses, PipelineInv, AddressesAreMissing
  <2>2. PICK i \in Listed : buf[i] = m
    BY <2>1, ListFacts DEF Listed
  <2>3. Ith(i).inst.opcode = "Jalr" /\ ~IsValue(Ith(i).addr)
    BY <2>1, <2>2 DEF JumpsAreLast, Ith, IsValue, NoOperand
  <2>4. i = Len(buf)
    BY <2>3 DEF JumpsAreLast
  <2> QED BY <2>2, <2>4, ListFacts DEF Listed
<1>2. n \in ready /\ \A m \in ready : m = n
  BY <1>1
<1>3. Address(addresses[n]) # 0
  BY DEF JalrToZero, Execute
<1>4. JalrTargets(addresses) = {Address(addresses[n])}
  BY <1>2, <1>3 DEF JalrTargets
<1>5. pc' \in JalrTargets(addresses)
  BY <1>4, ExecuteAdvances
<1> QED BY <1>1, <1>2, <1>4, <1>5

LEMMA PopKeepsPath ==
  ASSUME PipelineInv, PoppedAreCompleted, PathIsFollowed, [Next]_vars,
         NEW n \in 0 .. Len(buf), Pops(n)
  PROVE  PathIsFollowed'
<1>1. /\ Len(buf) \in Nat /\ n \in Nat /\ n <= Len(buf)
      /\ Len(buf') = Len(buf) - n /\ Len(completed') = n /\ retired' = 0 /\ pc' = pc
  BY ListFacts DEF Pops
<1>2. ASSUME NEW k \in 1 .. n PROVE completed'[k].e = Ith(k)
  <2>1. completed'[k] = [node |-> buf[k], e |-> entry[buf[k]]]
    BY DEF Pops
  <2> QED BY <2>1 DEF Ith
<1>3. ASSUME NEW i \in 1 .. Len(buf') PROVE Ith(i)' = Ith(n + i)
  <2>1. buf'[i] \in DOMAIN entry' /\ buf'[i] = buf[n + i]
    BY <1>1, NextPreserves DEF PipelineInv, BufferIsLive, Pops
  <2> QED BY <2>1 DEF Pops, Ith
<1>4. Popped' # {} => n > 0
  BY <1>1 DEF Popped
<1>5. buf' \in Seq(Nodes) /\ buf \in Seq(Nodes)
  BY NextPreserves, ListFacts DEF PipelineInv, TypeOK
<1>6. (buf' # <<>> <=> Len(buf') > 0) /\ (buf # <<>> <=> Len(buf) > 0)
  BY <1>5
<1>7. ASSUME NEW k \in retired' + 1 .. Len(completed') - 1
      PROVE  completed'[k + 1].e.pc = Successor(completed'[k].e)
  <2>1. k \in 1 .. n /\ k + 1 \in 1 .. n /\ k \in 1 .. Len(buf) - 1
    BY <1>1
  <2> QED BY <1>2, <2>1 DEF PathIsFollowed
<1>8. ASSUME Popped' # {}, buf' # <<>>
      PROVE  Ith(1)'.pc = Successor(completed'[Len(completed')].e)
  <2>1. n \in 1 .. n /\ n \in 1 .. Len(buf) - 1 /\ 1 \in 1 .. Len(buf')
    BY <1>1, <1>4, <1>6, <1>8
  <2>2. completed'[Len(completed')].e = Ith(n) /\ Ith(1)' = Ith(n + 1)
    BY <1>1, <1>2, <1>3, <2>1
  <2> QED BY <2>1, <2>2 DEF PathIsFollowed
<1>9. ASSUME NEW i \in 1 .. Len(buf') - 1 PROVE Ith(i + 1)'.pc = Successor(Ith(i)')
  <2>1. /\ i \in 1 .. Len(buf') /\ i + 1 \in 1 .. Len(buf')
        /\ n + i \in 1 .. Len(buf) - 1 /\ n + (i + 1) = (n + i) + 1
    BY <1>1
  <2>2. Ith(i)' = Ith(n + i) /\ buf'[i + 1] = buf[(n + i) + 1]
        /\ buf'[i + 1] \in DOMAIN entry'
    BY <1>1, <1>3, <2>1, NextPreserves DEF PipelineInv, BufferIsLive, Pops
  <2>3. Ith(i + 1)' = Ith((n + i) + 1)
    BY <2>2 DEF Pops, Ith
  <2> QED BY <2>1, <2>2, <2>3 DEF PathIsFollowed
<1>10. ASSUME buf' # <<>> PROVE pc' = Successor(Ith(Len(buf))')
  <2>1. Len(buf') \in 1 .. Len(buf') /\ n + Len(buf') = Len(buf) /\ buf # <<>>
    BY <1>1, <1>6, <1>10
  <2>2. Ith(Len(buf))' = Ith(Len(buf))
    BY <1>3, <2>1 DEF Ith
  <2> QED BY <1>1, <2>1, <2>2 DEF PathIsFollowed
<1>11. ASSUME Popped' # {}, buf' = <<>> PROVE pc' = Successor(completed'[Len(completed')].e)
  <2>1. n = Len(buf) /\ n \in 1 .. n /\ buf # <<>>
    BY <1>1, <1>4, <1>6, <1>11
  <2>2. completed'[Len(completed')].e = Ith(Len(buf))
    BY <1>1, <1>2, <2>1
  <2> QED BY <1>1, <2>1, <2>2 DEF PathIsFollowed
<1> QED BY <1>7, <1>8, <1>9, <1>10, <1>11 DEF PathIsFollowed

LEMMA IssueKeepsPath ==
  ASSUME PipelineInv, OrderInv, PathInv, NEW node, NEW e, Issues(node, Fetched, e)
  PROVE  PathIsFollowed'
<1>1. Popped' = {} /\ Popped = {}
  BY NothingPopped DEF Issues, Popped, OrderInv
<1>2. /\ Len(buf) \in Nat /\ Len(buf') = Len(buf) + 1 /\ buf'[Len(buf) + 1] = node
      /\ entry'[node] = e /\ e.inst = Fetched /\ e.pc = pc
      /\ pc' = FetchNext(Fetched, pc, e.branch_pred)
      /\ e.inst.opcode # "Amo" => e.addr = NoOperand
      /\ completed' = completed /\ retired' = retired
  BY ListFacts DEF Issues
<1>3. ASSUME NEW i \in 1 .. Len(buf) PROVE Ith(i)' = Ith(i)
  BY <1>2, ListFacts DEF Issues, Ith
<1>4. entry'[buf'[Len(buf) + 1]] = e
  BY <1>2
<1>5. pc' = Successor(e)
  BY <1>2 DEF Successor, IsValue, NoOperand
<1>6. \A k \in retired' + 1 .. Len(completed') - 1 :
        completed'[k + 1].e.pc = Successor(completed'[k].e)
  BY <1>2 DEF PathInv, PathIsFollowed
<1>7. ASSUME NEW i \in 1 .. Len(buf') - 1 PROVE Ith(i + 1)'.pc = Successor(Ith(i)')
  <2>1. i \in 1 .. Len(buf) /\ Ith(i)' = Ith(i)
    BY <1>2, <1>3
  <2>2. CASE i = Len(buf)
    <3>1. buf # <<>>
      BY <2>1, <2>2
    <3>2. pc = Successor(Ith(i))
      BY <2>2, <3>1 DEF PathInv, PathIsFollowed
    <3>3. Ith(i + 1)'.pc = pc
      BY <1>2, <1>4, <2>2 DEF Ith
    <3> QED BY <2>1, <3>2, <3>3
  <2>3. CASE i # Len(buf)
    <3>1. i \in 1 .. Len(buf) - 1 /\ i + 1 \in 1 .. Len(buf)
      BY <1>2, <2>1, <2>3
    <3>2. Ith(i + 1)' = Ith(i + 1)
      BY <1>2, <3>1, ListFacts DEF Issues, Ith
    <3> QED BY <2>1, <3>1, <3>2 DEF PathInv, PathIsFollowed
  <2> QED BY <2>2, <2>3
<1>8. buf' # <<>> => pc' = Successor(Ith(Len(buf))')
  BY <1>2, <1>4, <1>5 DEF Ith
<1> QED BY <1>1, <1>6, <1>7, <1>8 DEF PathIsFollowed

(* The units change neither where an instruction is nor where it goes,     *)
(* but for a jalr that gets its target together with the pc.               *)
LEMMA AdvanceKeepsPath ==
  ASSUME PipelineInv, OrderInv, PathInv, ~JalrToZero, Advances, WriteResult \/ Execute
  PROVE  PathIsFollowed'
<1>1. Popped' = {} /\ UNCHANGED <<completed, retired, buf>> /\ Len(buf) \in Nat
  BY NothingPopped, AdvanceKeepsCompleted, ListFacts DEF Advances, Popped, OrderInv
<1>2. ASSUME NEW i \in Listed
      PROVE  /\ buf[i] \in DOMAIN entry
             /\ Ith(i)'.pc = Ith(i).pc /\ Ith(i)'.inst = Ith(i).inst
             /\ Ith(i)'.branch_pred = Ith(i).branch_pred
  BY <1>1, ListFacts DEF Advances, Ith, Listed
<1>3. ASSUME \A i \in Listed : Successor(Ith(i)') = Successor(Ith(i)), pc' = pc
      PROVE  PathIsFollowed'
  <2>1. \A i \in 1 .. Len(buf) - 1 : i \in Listed /\ i + 1 \in Listed
    BY <1>1 DEF Listed
  <2>2. ASSUME NEW i \in 1 .. Len(buf) - 1 PROVE entry'[buf[i + 1]].pc = Successor(Ith(i)')
    <3>1. entry'[buf[i + 1]].pc = Ith(i + 1).pc
      BY <1>1, <1>2, <2>1 DEF Ith
    <3> QED BY <1>3, <2>1, <3>1 DEF PathInv, PathIsFollowed
  <2>3. buf # <<>> => Len(buf) \in Listed
    BY ListFacts DEF Listed
  <2>4. buf # <<>> => pc = Successor(entry'[buf[Len(buf)]])
    BY <1>1, <1>3, <2>3 DEF PathInv, PathIsFollowed, Ith
  <2>5. \A k \in retired + 1 .. Len(completed) - 1 :
          completed[k + 1].e.pc = Successor(completed[k].e)
    BY DEF PathInv, PathIsFollowed
  <2> QED BY <1>1, <1>3, <2>2, <2>4, <2>5 DEF PathIsFollowed, Ith
<1>4. CASE WriteResult
  <2>1. ASSUME NEW i \in Listed PROVE Successor(Ith(i)') = Successor(Ith(i))
    <3>1. Ith(i).inst.opcode = "Jalr" => Ith(i)'.addr = Ith(i).addr
      BY <1>1, <1>2, <1>4, WriteResultAdvances, JalrAddress DEF PathInv, Ith
    <3> QED BY <1>2, <3>1, SameSuccessor
  <2> QED BY <1>3, <1>4, <2>1, WriteResultAdvances
<1>5. CASE Execute
  <2>1. \A n \in DOMAIN entry :
          entry'[n].addr = IF n \in ReadyAddresses(addresses)
                             THEN Value(Address(addresses[n])) ELSE entry[n].addr
    BY <1>5, ExecuteAdvances
  <2>2. ASSUME NEW i \in Listed, ~(buf[i] \in ReadyAddresses(addresses) /\ addresses[buf[i]].is_jalr)
        PROVE  Successor(Ith(i)') = Successor(Ith(i))
    <3>1. ReadyAddresses(addresses) \subseteq DOMAIN addresses
      BY DEF ReadyAddresses
    <3>2. Ith(i).inst.opcode = "Jalr" => buf[i] \notin ReadyAddresses(addresses)
      BY <2>2, <3>1 DEF PathInv, JumpsAreLast, Ith
    <3>3. Ith(i).inst.opcode = "Jalr" => Ith(i)'.addr = Ith(i).addr
      BY <1>1, <1>2, <2>1, <3>2 DEF Ith
    <3> QED BY <1>2, <3>3, SameSuccessor
  <2>3. CASE \E n \in ReadyAddresses(addresses) : addresses[n].is_jalr
    <3>1. PICK n \in ReadyAddresses(addresses) : addresses[n].is_jalr
      BY <2>3
    <3>2. buf # <<>> /\ n = buf[Len(buf)] /\ pc' = Address(addresses[n])
      BY <1>5, <3>1, JalrRedirects DEF PathInv
    <3>3. Len(buf) \in Listed
      BY <3>2, ListFacts DEF Listed
    <3>4. n \in DOMAIN addresses /\ entry[n].inst.opcode = "Jalr"
      BY <3>1 DEF PathInv, JumpsAreLast, ReadyAddresses
    <3>5. pc' = Successor(Ith(Len(buf))')
      <4>1. Ith(Len(buf))'.inst.opcode = "Jalr"
        BY <1>1, <1>2, <3>2, <3>3, <3>4 DEF Ith
      <4>2. Ith(Len(buf))'.addr = Value(pc')
        BY <1>1, <1>2, <2>1, <3>1, <3>2, <3>3 DEF Ith
      <4> QED BY <4>1, <4>2 DEF Successor, IsValue, Value
    <3>6. ASSUME NEW i \in 1 .. Len(buf) - 1
          PROVE  Ith(i + 1)'.pc = Successor(Ith(i)')
      <4>1. i \in Listed /\ i + 1 \in Listed /\ i # Len(buf)
        BY <1>1 DEF Listed
      <4>2. buf[i] # n
        BY <3>2, <3>3, <4>1, ListFacts DEF Listed
      <4>3. Successor(Ith(i)') = Successor(Ith(i))
        <5>1. ~(buf[i] \in ReadyAddresses(addresses) /\ addresses[buf[i]].is_jalr)
          BY <1>5, <3>2, <4>2, JalrRedirects DEF PathInv
        <5> QED BY <2>2, <4>1, <5>1
      <4>4. Ith(i + 1).pc = Successor(Ith(i))
        BY DEF PathInv, PathIsFollowed
      <4>5. entry'[buf'[i + 1]].pc = Ith(i + 1).pc
        BY <1>1, <1>2, <4>1 DEF Ith
      <4> QED BY <4>3, <4>4, <4>5 DEF Ith
    <3>7. \A k \in retired + 1 .. Len(completed) - 1 :
            completed[k + 1].e.pc = Successor(completed[k].e)
      BY DEF PathInv, PathIsFollowed
    <3> QED BY <1>1, <3>5, <3>6, <3>7 DEF PathIsFollowed
  <2>4. CASE \A n \in ReadyAddresses(addresses) : ~addresses[n].is_jalr
    <3>1. JalrTargets(addresses) = {}
      BY <2>4 DEF JalrTargets
    <3>2. pc' = pc
      BY <1>5, <3>1, ExecuteAdvances
    <3>3. \A i \in Listed : Successor(Ith(i)') = Successor(Ith(i))
      BY <2>2, <2>4
    <3> QED BY <1>3, <3>2, <3>3
  <2> QED BY <2>3, <2>4
<1> QED BY <1>4, <1>5

LEMMA PathPreserved ==
  ASSUME PipelineInv, OrderInv, PathInv, ~JalrToZero, [Next]_vars PROVE PathInv'
<1>0. JumpsAreLast'
  BY JumpsPreserved DEF OrderInv, PathInv
<1> SUFFICES PathIsFollowed'
  BY <1>0 DEF PathInv
<1>1. ASSUME NEW n \in 0 .. Len(buf), Pops(n) PROVE PathIsFollowed'
  BY <1>1, PopKeepsPath DEF OrderInv, PathInv
<1>2. CASE RetiresOne
  <2>1. Popped' \subseteq Popped /\ retired' = retired + 1 /\ retired \in Nat
        /\ UNCHANGED <<pc, buf, entry, completed>> /\ Len(completed) \in Nat
    BY <1>2, PoppedShrink, ListFacts DEF RetiresOne
  <2>2. \A k \in retired' + 1 .. Len(completed) - 1 : k \in retired + 1 .. Len(completed) - 1
    BY <2>1
  <2>3. Popped' # {} => Popped # {}
    BY <2>1
  <2> QED BY <2>1, <2>2, <2>3 DEF PathInv, PathIsFollowed, Ith
<1>3. CASE Flushes
  <2>1. /\ Popped' = {} /\ buf' = <<>> /\ Len(completed') = retired'
        /\ retired' \in Nat
    BY <1>3, ListFacts DEF Popped, Flushes
  <2>2. ASSUME NEW k \in retired' + 1 .. Len(completed') - 1 PROVE FALSE
    <3> DEFINE m == retired'
    <3>1. m \in Nat /\ k \in m + 1 .. m - 1
      BY <2>1, <2>2
    <3> HIDE DEF m
    <3> QED BY <3>1
  <2>3. \A k \in 1 .. Len(buf') - 1 : FALSE
    <3>1. Len(buf') = 0
      BY <2>1
    <3> QED BY <3>1
  <2> QED BY <2>1, <2>2, <2>3 DEF PathIsFollowed
<1>4. CASE Drains
  <2>1. /\ Popped' = {} /\ completed' = <<>> /\ retired' = 0 /\ UNCHANGED <<pc, buf, entry>>
    BY <1>4 DEF Popped, Drains
  <2>2. retired' + 1 .. Len(completed') - 1 = {}
    BY <2>1
  <2> QED BY <2>1, <2>2 DEF PathInv, PathIsFollowed, Ith
<1>5. CASE Advances /\ (WriteResult \/ Execute)
  BY <1>5, AdvanceKeepsPath
<1>6. ASSUME NEW node, NEW e, Issues(node, Fetched, e) PROVE PathIsFollowed'
  BY <1>6, IssueKeepsPath
<1>7. CASE Quiet
  BY <1>7 DEF Quiet, PathInv, PathIsFollowed, Popped, Ith
<1> QED BY <1>1, <1>2, <1>3, <1>4, <1>5, <1>6, <1>7, EveryStep

-----------------------------------------------------------------------------
(* The theorem                                                             *)

LEMMA InitIsOnPath == Init => PathInv
<1> SUFFICES ASSUME Init PROVE PathInv
  OBVIOUS
<1>1. buf = <<>> /\ completed = <<>> /\ retired = 0 /\ DOMAIN addresses = {}
  BY DEF Init, NoEntries
<1>2. Popped = {} /\ Listed = {} /\ retired + 1 .. Len(completed) - 1 = {}
      /\ 1 .. Len(buf) - 1 = {}
  BY <1>1 DEF Popped, Listed
<1> QED BY <1>1, <1>2 DEF PathInv, JumpsAreLast, PathIsFollowed

LEMMA PathImpliesProperty ==
  ASSUME PipelineInv, PathInv PROVE FetchFollowsPrediction
<1> DEFINE popped == Len(completed) - retired
           total == popped + Len(buf)
<1>1. /\ popped \in Nat /\ Len(Pending) = total
      /\ \A k \in 1 .. popped : PendingAt(k) = completed[retired + k].e
      /\ \A i \in 1 .. Len(buf) : PendingAt(popped + i) = Ith(i)
  BY PendingFacts DEF PendingAt
<1>2. /\ Len(buf) \in Nat /\ Len(completed) \in Nat /\ retired \in Nat
      /\ buf # <<>> <=> Len(buf) > 0
  BY ListFacts
<1>3. Popped # {} <=> popped > 0
  <2>1. CASE popped > 0
    <3>1. retired + 1 \in Popped
      BY <1>2, <2>1 DEF Popped
    <3> QED BY <2>1, <3>1
  <2>2. CASE ~(popped > 0)
    BY <1>2, <2>2 DEF Popped
  <2> QED BY <2>1, <2>2
<1>4. retired + popped = Len(completed)
  BY <1>2
<1> HIDE DEF popped
<1>5. ASSUME NEW k \in 1 .. total - 1 PROVE PendingAt(k + 1).pc = Successor(PendingAt(k))
  <2>1. CASE k < popped
    <3>1. /\ k \in 1 .. popped /\ k + 1 \in 1 .. popped
          /\ retired + k \in retired + 1 .. Len(completed) - 1
          /\ retired + (k + 1) = (retired + k) + 1
      BY <1>1, <1>2, <1>4, <2>1
    <3>2. completed[(retired + k) + 1].e.pc = Successor(completed[retired + k].e)
      BY <3>1 DEF PathInv, PathIsFollowed
    <3>3. PendingAt(k) = completed[retired + k].e
          /\ PendingAt(k + 1) = completed[(retired + k) + 1].e
      BY <1>1, <3>1
    <3> QED BY <3>2, <3>3
  <2>2. CASE k = popped
    <3>1. k \in 1 .. popped /\ popped > 0 /\ Len(buf) > 0 /\ 1 \in 1 .. Len(buf)
      BY <1>1, <1>2, <2>2
    <3>2. PendingAt(k) = completed[Len(completed)].e /\ PendingAt(k + 1) = Ith(1)
      BY <1>1, <1>4, <2>2, <3>1
    <3> QED BY <1>3, <3>1, <3>2, ListFacts DEF PathInv, PathIsFollowed
  <2>3. CASE k > popped
    <3>1. /\ k - popped \in 1 .. Len(buf) - 1
          /\ k - popped \in 1 .. Len(buf) /\ (k - popped) + 1 \in 1 .. Len(buf)
          /\ popped + (k - popped) = k /\ popped + ((k - popped) + 1) = k + 1
      BY <1>1, <1>2, <2>3
    <3>2. PendingAt(k) = Ith(k - popped) /\ PendingAt(k + 1) = Ith((k - popped) + 1)
      BY <1>1, <3>1
    <3> QED BY <3>1, <3>2 DEF PathInv, PathIsFollowed
  <2> QED BY <1>1, <1>2, <2>1, <2>2, <2>3
<1>6. ASSUME Pending # <<>> PROVE pc = Successor(PendingAt(total))
  <2>1. CASE buf # <<>>
    <3>1. PendingAt(total) = Ith(Len(buf))
      BY <1>1, <1>2, <2>1
    <3> QED BY <2>1, <3>1 DEF PathInv, PathIsFollowed
  <2>2. CASE buf = <<>>
    <3>1. Len(buf) = 0 /\ total = popped
      BY <1>1, <1>2, <2>2
    <3>2. popped > 0
      <4> SUFFICES ASSUME popped = 0 PROVE FALSE
        BY <1>1
      <4>1. Popped = {}
        BY <1>3
      <4>2. SubSeq(completed, retired + 1, Len(completed)) = <<>>
        BY <1>2, <1>4, ListFacts
      <4> QED BY <1>6, <2>2, <3>1, <4>2 DEF Pending
    <3>3. PendingAt(total) = completed[Len(completed)].e
      BY <1>1, <1>4, <3>1, <3>2
    <3> QED BY <1>3, <2>2, <3>2, <3>3 DEF PathInv, PathIsFollowed
  <2> QED BY <2>1, <2>2
<1> QED BY <1>1, <1>5, <1>6 DEF FetchFollowsPrediction

(* In a run whose jalrs never go to address 0, each instruction in flight  *)
(* is where the one before it goes or was predicted to go, and one whose   *)
(* successor is not known, a jalr, is the youngest and in the address      *)
(* unit.  The hypothesis is needed: the code takes 0 for "no target".      *)
THEOREM PathHolds == Spec /\ EcallsNameNoRegister /\ [](~JalrToZero) => []PathInv
<1>1. Init => PathInv
  BY InitIsOnPath
<1>2. PipelineInv /\ OrderInv /\ PathInv /\ ~JalrToZero /\ [Next]_vars => PathInv'
  BY PathPreserved
<1> QED BY <1>1, <1>2, OrderHolds, PTL DEF Spec

(* And the pc is where the youngest goes: issue, the redirect by           *)
(* AddressUnit::execute and the flush of commit never leave a gap.         *)
THEOREM FetchIsOnPath == Spec /\ EcallsNameNoRegister /\ [](~JalrToZero) => []FetchFollowsPrediction
<1>1. PipelineInv /\ PathInv => FetchFollowsPrediction
  BY PathImpliesProperty
<1> QED BY <1>1, PathHolds, InvariantHolds, PTL

-----------------------------------------------------------------------------
(* The order of loads and stores                                           *)

(* The load n has waited for the store o. *)
HasWaitedFor(load, store) ==
  IsStoring(store.inst) => IsValue(store.addr) /\ Touches(load) \cap Touches(store) = {}

(* A step keeps what a load that has read knows, and the stores before it. *)
LEMMA WaitedOn ==
  ASSUME LoadsHaveWaited,
         \A j \in 1 .. Len(buf') : HasLoaded(buf[j])' =>
           \E l \in Listed :
             /\ HasLoaded(buf[l])
             /\ IsValue(Ith(l).addr) =>
                  /\ entry'[buf'[j]].inst = Ith(l).inst
                  /\ entry'[buf'[j]].addr = Ith(l).addr
             /\ \A i \in 1 .. j - 1 : \E h \in 1 .. l - 1 :
                  /\ entry'[buf'[i]].inst = Ith(h).inst
                  /\ IsValue(Ith(h).addr) => entry'[buf'[i]].addr = Ith(h).addr
  PROVE  LoadsHaveWaited'
<1>1. ASSUME NEW j \in 1 .. Len(buf'), HasLoaded(buf[j])'
      PROVE  /\ IsValue(entry'[buf'[j]].addr)
             /\ \A i \in 1 .. j - 1 : HasWaitedFor(entry'[buf'[j]], entry'[buf'[i]])
  <2>1. PICK l \in Listed :
          /\ HasLoaded(buf[l])
          /\ IsValue(Ith(l).addr) =>
               /\ entry'[buf'[j]].inst = Ith(l).inst
               /\ entry'[buf'[j]].addr = Ith(l).addr
          /\ \A i \in 1 .. j - 1 : \E h \in 1 .. l - 1 :
               /\ entry'[buf'[i]].inst = Ith(h).inst
               /\ IsValue(Ith(h).addr) => entry'[buf'[i]].addr = Ith(h).addr
    BY <1>1
  <2>2. /\ IsValue(Ith(l).addr)
        /\ \A h \in 1 .. l - 1 : HasWaitedFor(Ith(l), Ith(h))
    BY <2>1 DEF LoadsHaveWaited, HasWaitedFor
  <2>3. /\ entry'[buf'[j]].inst = Ith(l).inst
        /\ entry'[buf'[j]].addr = Ith(l).addr
    BY <2>1, <2>2
  <2>4. ASSUME NEW i \in 1 .. j - 1 PROVE HasWaitedFor(entry'[buf'[j]], entry'[buf'[i]])
    <3>1. PICK h \in 1 .. l - 1 :
            /\ entry'[buf'[i]].inst = Ith(h).inst
            /\ IsValue(Ith(h).addr) => entry'[buf'[i]].addr = Ith(h).addr
      BY <2>1
    <3> QED BY <2>2, <2>3, <3>1 DEF HasWaitedFor, Touches
  <2> QED BY <2>2, <2>3, <2>4
<1> QED BY <1>1 DEF LoadsHaveWaited, HasWaitedFor, Touches, Listed, Ith

LEMMA PopKeepsWaited ==
  ASSUME PipelineInv, LoadsHaveWaited, NEW n \in 0 .. Len(buf), Pops(n) PROVE LoadsHaveWaited'
<1>1. Len(buf) \in Nat /\ n \in Nat /\ n <= Len(buf) /\ Len(buf') = Len(buf) - n
  BY ListFacts DEF Pops
<1>2. ASSUME NEW i \in 1 .. Len(buf')
      PROVE  /\ n + i \in 1 .. Len(buf) /\ buf'[i] = buf[n + i]
             /\ buf'[i] \in DOMAIN entry'
  <2>1. n + i \in 1 .. Len(buf) /\ i \in 1 .. Len(buf) - n
    BY <1>1
  <2>2. buf'[i] = buf[n + i]
    BY <2>1 DEF Pops
  <2>3. buf[n + i] \in DOMAIN entry /\ \A k \in 1 .. n : buf[k] # buf[n + i]
    <3>1. \A k \in 1 .. n : k \in 1 .. Len(buf) /\ k # n + i
      BY <1>1, <2>1
    <3> QED BY <2>1, <3>1, ListFacts
  <2> QED BY <2>1, <2>2, <2>3 DEF Pops
<1>3. \A i \in 1 .. Len(buf') : entry'[buf'[i]] = Ith(n + i)
  BY <1>2 DEF Pops, Ith
<1>4. load_buf' = load_buf
  BY DEF Pops
<1>5. ASSUME NEW j \in 1 .. Len(buf'), HasLoaded(buf[j])'
      PROVE  \E l \in Listed :
             /\ HasLoaded(buf[l])
             /\ IsValue(Ith(l).addr) =>
                  /\ entry'[buf'[j]].inst = Ith(l).inst
                  /\ entry'[buf'[j]].addr = Ith(l).addr
             /\ \A i \in 1 .. j - 1 : \E h \in 1 .. l - 1 :
                  /\ entry'[buf'[i]].inst = Ith(h).inst
                  /\ IsValue(Ith(h).addr) => entry'[buf'[i]].addr = Ith(h).addr
  <2>1. n + j \in Listed /\ HasLoaded(buf[n + j])
    BY <1>2, <1>3, <1>4, <1>5 DEF HasLoaded, Listed, Ith
  <2>2. \A i \in 1 .. j - 1 : i \in 1 .. Len(buf') /\ n + i \in 1 .. (n + j) - 1
    BY <1>1
  <2>3. \A i \in 1 .. j - 1 : entry'[buf'[i]] = Ith(n + i)
    BY <1>3, <2>2
  <2> QED BY <1>3, <2>1, <2>2, <2>3
<1> QED BY <1>5, WaitedOn

LEMMA IssueKeepsWaited ==
  ASSUME PipelineInv, PipelineInv', LoadsHaveWaited, Issue PROVE LoadsHaveWaited'
<1>1. PICK node, e : Issues(node, Fetched, e)
  BY IssueIssues
<1>2. /\ Len(buf) \in Nat /\ Len(buf') = Len(buf) + 1 /\ buf'[Len(buf) + 1] = node
      /\ \A i \in 1 .. Len(buf) : /\ buf'[i] = buf[i] /\ buf[i] \in DOMAIN entry
                                  /\ entry'[buf[i]] = Ith(i) /\ buf[i] # node
      /\ e.reg_value = NULL /\ entry'[node] = e
  BY <1>1, ListFacts DEF Issues, Ith
<1>3. UsesLoadBuffer(Fetched) => node \in DOMAIN load_buf' /\ load_buf'[node] = NewLoad
  <2>1. PICK m : /\ buf' = Append(buf, m)
                 /\ load_buf' = IF UsesLoadBuffer(Fetched) THEN Insert(load_buf, m, NewLoad)
                                ELSE load_buf
    BY DEF Issue
  <2>2. m = node
    BY <1>2, <2>1, ListFacts
  <2> QED BY <2>1, <2>2 DEF Insert
<1>4. \A n \in DOMAIN entry : /\ n \in DOMAIN load_buf' <=> n \in DOMAIN load_buf
                              /\ n \in DOMAIN load_buf => load_buf'[n] = load_buf[n]
  BY DEF Issue, Insert
<1>5. ~HasLoaded(node)'
  <2>1. e.inst = Fetched
    BY <1>1 DEF Issues
  <2> QED BY <1>2, <1>3, <2>1 DEF HasLoaded, NewLoad, UsesLoadBuffer
<1>6. ASSUME NEW j \in 1 .. Len(buf'), HasLoaded(buf[j])'
      PROVE  \E l \in Listed :
             /\ HasLoaded(buf[l])
             /\ IsValue(Ith(l).addr) =>
                  /\ entry'[buf'[j]].inst = Ith(l).inst
                  /\ entry'[buf'[j]].addr = Ith(l).addr
             /\ \A i \in 1 .. j - 1 : \E h \in 1 .. l - 1 :
                  /\ entry'[buf'[i]].inst = Ith(h).inst
                  /\ IsValue(Ith(h).addr) => entry'[buf'[i]].addr = Ith(h).addr
  <2>1. j # Len(buf) + 1
    BY <1>2, <1>5, <1>6
  <2>2. j \in 1 .. Len(buf) /\ \A i \in 1 .. j - 1 : i \in 1 .. Len(buf)
    BY <1>2, <2>1
  <2>3. HasLoaded(buf[j])
    BY <1>2, <1>4, <1>6, <2>2 DEF HasLoaded, Ith
  <2> QED BY <1>2, <2>2, <2>3 DEF Listed
<1> QED BY <1>6, WaitedOn

LEMMA WriteResultKeepsWaited ==
  ASSUME PipelineInv, LoadsHaveWaited, WriteResult PROVE LoadsHaveWaited'
<1> DEFINE jobs == CompletedJobs(load_buf, station)
<1>1. buf' = buf /\ load_buf' = Remove(load_buf, DOMAIN jobs)
  BY DEF WriteResult
<1>2. \A n \in DOMAIN entry : Propagated(entry[n], entry'[n], n, jobs)
  BY WriteResultPropagates
<1>3. /\ \A n \in DOMAIN load_buf : n \in DOMAIN jobs <=> load_buf[n].status = "Finished"
      /\ \A n \in DOMAIN jobs \ DOMAIN load_buf : n \in DOMAIN station
  BY JobsAre
<1>4. \A n \in DOMAIN station : UsesStation(entry[n].inst)
  BY DEF PipelineInv, ProducersAreUnfinished
<1> HIDE DEF jobs
<1>5. /\ DOMAIN load_buf' = DOMAIN load_buf \ DOMAIN jobs
      /\ \A n \in DOMAIN load_buf' : load_buf'[n] = load_buf[n]
  BY <1>1 DEF Remove
<1>6. ASSUME NEW n \in DOMAIN entry, HasLoaded(n)' PROVE HasLoaded(n)
  <2>1. entry'[n].inst = entry[n].inst
    BY <1>2 DEF Propagated
  <2>2. entry[n].inst.opcode \in {"Load", "Amo"} /\ entry[n].inst.function # "Scw"
    BY <1>6, <2>1 DEF HasLoaded
  <2>3. CASE n \in DOMAIN load_buf
    <3>1. load_buf[n].status = "Finished"
      BY <1>3, <1>5, <1>6, <2>3 DEF HasLoaded
    <3> QED BY <2>2, <2>3, <3>1 DEF HasLoaded
  <2>4. CASE n \notin DOMAIN load_buf
    <3>1. ~UsesStation(entry[n].inst)
      BY <2>2 DEF UsesStation
    <3>2. n \notin DOMAIN jobs
      BY <1>3, <1>4, <2>4, <3>1
    <3>3. entry'[n].reg_value = entry[n].reg_value
      BY <1>2, <3>2 DEF Propagated
    <3>4. n \notin DOMAIN load_buf'
      BY <1>5, <2>4
    <3> QED BY <1>6, <2>2, <2>4, <3>3, <3>4 DEF HasLoaded
  <2> QED BY <2>3, <2>4
<1>7. \A n \in DOMAIN entry : /\ entry'[n].inst = entry[n].inst
                              /\ IsValue(entry[n].addr) => entry'[n].addr = entry[n].addr
  BY <1>2 DEF Propagated, Resolve, IsValue
<1>8. /\ \A i \in Listed : /\ buf[i] \in DOMAIN entry /\ Ith(i) = entry[buf[i]]
      /\ Len(buf) \in Nat
  BY ListFacts DEF Listed, Ith
<1>9. ASSUME NEW j \in 1 .. Len(buf'), HasLoaded(buf[j])'
      PROVE  \E l \in Listed :
             /\ HasLoaded(buf[l])
             /\ IsValue(Ith(l).addr) =>
                  /\ entry'[buf'[j]].inst = Ith(l).inst
                  /\ entry'[buf'[j]].addr = Ith(l).addr
             /\ \A i \in 1 .. j - 1 : \E h \in 1 .. l - 1 :
                  /\ entry'[buf'[i]].inst = Ith(h).inst
                  /\ IsValue(Ith(h).addr) => entry'[buf'[i]].addr = Ith(h).addr
  <2>1. j \in Listed /\ \A i \in 1 .. j - 1 : i \in Listed
    BY <1>1, <1>8 DEF Listed
  <2>2. HasLoaded(buf[j])
    BY <1>1, <1>6, <1>8, <1>9, <2>1
  <2> QED BY <1>1, <1>7, <1>8, <2>1, <2>2
<1> QED BY <1>9, WaitedOn

(* What execute keeps of an entry. *)
LEMMA ExecuteKeepsFields ==
  ASSUME PipelineInv, Execute, NEW n \in DOMAIN entry
  PROVE  /\ entry'[n].inst = entry[n].inst
         /\ entry'[n].addr = AddressedEntries[n].addr
         /\ IsValue(entry[n].addr) => entry'[n].addr = entry[n].addr
         /\ entry'[n].reg_value = entry[n].reg_value
         /\ AddressedEntries[n].inst = entry[n].inst
<1>1. /\ AddressedEntries[n] \in ReorderBufferEntry
      /\ AddressedEntries[n].inst = entry[n].inst
      /\ AddressedEntries[n].reg_value = entry[n].reg_value
      /\ AddressedEntries[n].addr = IF n \in ReadyAddresses(addresses)
                                      THEN Value(Address(addresses[n])) ELSE entry[n].addr
  BY AddressUnitGives
<1>2. /\ entry'[n].inst = entry[n].inst
      /\ entry'[n].addr = IF n \in ReadyAddresses(addresses)
                            THEN Value(Address(addresses[n])) ELSE entry[n].addr
  BY ExecuteAdvances DEF Advances
<1>3. n \in ReadyAddresses(addresses) => ~IsValue(entry[n].addr)
  BY DEF ReadyAddresses, PipelineInv, AddressesAreMissing, IsValue, NoOperand
<1>4. LoadedEntries[n].reg_value = entry[n].reg_value
  BY LoadedFacts DEF Execute, SameButMemory
<1>5. entry'[n].reg_value = LoadedEntries[n].reg_value
  <2>1. LoadedEntries[n] \in ReorderBufferEntry /\ DOMAIN LoadedEntries = DOMAIN entry
    BY LoadedFacts DEF Execute, SameButMemory
  <2>2. entry'[n] = LoadedEntries[n] \/ entry'[n] = [LoadedEntries[n] EXCEPT !.mem_rem_cycle = 0]
    BY <2>1 DEF Execute
  <2> QED BY <2>1, <2>2 DEF ReorderBufferEntry
<1> QED BY <1>1, <1>2, <1>3, <1>4, <1>5

(* A load that reads knows the addresses of the older stores, unless it    *)
(* overtakes one.                                                          *)
LEMMA ReadyHasWaited ==
  ASSUME PipelineInv, Execute, ~LoadOvertakes, NEW j \in Listed,
         buf[j] \in EndingLoads(load_buf, buf, AddressedEntries),
         NEW i \in 1 .. j - 1
  PROVE  /\ IsValue(AddressedEntries[buf[j]].addr)
         /\ HasWaitedFor(AddressedEntries[buf[j]], AddressedEntries[buf[i]])
<1> DEFINE load  == AddressedEntries[buf[j]]
           store == AddressedEntries[buf[i]]
<1>1. /\ i \in Listed /\ buf[i] \in DOMAIN entry /\ buf[j] \in DOMAIN entry
      /\ \A h \in 1 .. i : buf[h] # buf[j]
  <2>1. /\ Len(buf) \in Nat /\ i \in Listed /\ \A h \in 1 .. i : h \in Listed /\ h # j
    BY ListFacts DEF Listed
  <2> QED BY <2>1, ListFacts DEF Listed
<1>2. buf[i] \in Older(buf, buf[j])
  BY <1>1 DEF Older, Listed
<1>3. IsValue(load.addr) /\ ~HoldsBack(store, load)
  BY <1>2 DEF EndingLoads, ReadyLoads, IsLoadReady
<1>4. ASSUME IsStoring(store.inst)
      PROVE  IsValue(store.addr) /\ Touches(load) \cap Touches(store) = {}
  <2>1. store.addr.tag # "Rob" /\ store.addr # load.addr
    BY <1>3, <1>4 DEF HoldsBack
  <2>2. At("execute")
    BY DEF Execute
  <2>3. ~(\/ store.addr = NoOperand
          \/ /\ IsValue(store.addr)
             /\ store.addr # load.addr
             /\ Touches(load) \cap Touches(store) # {})
    BY <1>4, <2>2 DEF LoadOvertakes
  <2>4. store.addr \in Operand
    BY <1>1, AddressUnitGives DEF ReorderBufferEntry
  <2>5. store.addr.tag = "None" => store.addr = NoOperand
    BY <2>4 DEF Operand, NoOperand
  <2>6. IsValue(store.addr)
    BY <2>1, <2>3, <2>4, <2>5 DEF Operand, IsValue
  <2> QED BY <2>1, <2>3, <2>6
<1> QED BY <1>3, <1>4 DEF HasWaitedFor

LEMMA ExecuteKeepsWaited ==
  ASSUME PipelineInv, LoadsHaveWaited, ~LoadOvertakes, Execute PROVE LoadsHaveWaited'
<1>1. buf' = buf /\ DOMAIN load_buf' = DOMAIN load_buf
  BY ExecuteLoads DEF Execute
<1>2. /\ \A i \in Listed : buf[i] \in DOMAIN entry /\ Ith(i) = entry[buf[i]]
      /\ Len(buf) \in Nat
  BY ListFacts DEF Listed, Ith
<1>3. \A i \in Listed : /\ entry'[buf[i]].inst = Ith(i).inst
                        /\ entry'[buf[i]].addr = AddressedEntries[buf[i]].addr
                        /\ IsValue(Ith(i).addr) => entry'[buf[i]].addr = Ith(i).addr
                        /\ entry'[buf[i]].reg_value = Ith(i).reg_value
                        /\ AddressedEntries[buf[i]].inst = Ith(i).inst
  BY <1>2, ExecuteKeepsFields
<1>4. ASSUME NEW j \in Listed, HasLoaded(buf[j])'
      PROVE  /\ IsValue(entry'[buf[j]].addr)
             /\ \A i \in 1 .. j - 1 : HasWaitedFor(entry'[buf[j]], entry'[buf[i]])
  <2>1. \A i \in 1 .. j - 1 : i \in Listed
    BY <1>2 DEF Listed
  <2>2. CASE HasLoaded(buf[j])
    <3>1. /\ IsValue(Ith(j).addr)
          /\ \A i \in 1 .. j - 1 : HasWaitedFor(Ith(j), Ith(i))
      BY <2>2 DEF LoadsHaveWaited, HasWaitedFor
    <3> QED BY <1>3, <2>1, <3>1 DEF HasWaitedFor, Touches
  <2>3. CASE ~HasLoaded(buf[j])
    <3>1. buf[j] \in DOMAIN load_buf /\ load_buf'[buf[j]] # load_buf[buf[j]]
      BY <1>1, <1>2, <1>3, <1>4, <2>3 DEF HasLoaded
    <3>2. load_buf'[buf[j]].status = "Finished"
      BY <1>1, <1>4, <3>1 DEF HasLoaded
    <3>3. buf[j] \in EndingLoads(load_buf, buf, AddressedEntries)
      BY <1>2, <3>1, <3>2, ExecuteLoads DEF Reads, Counts, Rests
    <3>4. IsValue(AddressedEntries[buf[j]].addr)
      BY <3>3 DEF EndingLoads, ReadyLoads, IsLoadReady
    <3>5. \A i \in 1 .. j - 1 : HasWaitedFor(AddressedEntries[buf[j]], AddressedEntries[buf[i]])
      BY <3>3, ReadyHasWaited
    <3> QED BY <1>3, <2>1, <3>4, <3>5 DEF HasWaitedFor, Touches
  <2> QED BY <2>2, <2>3
<1> QED BY <1>1, <1>4 DEF LoadsHaveWaited, HasWaitedFor, Touches, Listed, Ith

LEMMA WaitedPreserved ==
  ASSUME PipelineInv, PipelineInv', LoadsHaveWaited, ~LoadOvertakes, [Next]_vars
  PROVE  LoadsHaveWaited'
<1>1. CASE \E n \in 0 .. Len(buf) : Pops(n)
  BY <1>1, PopKeepsWaited
<1>2. CASE RetiresOne \/ Drains \/ Quiet
  BY <1>2 DEF RetiresOne, Drains, Quiet, LoadsHaveWaited, HasLoaded, Touches, Listed, Ith
<1>3. CASE Flushes
  BY <1>3 DEF Flushes, LoadsHaveWaited, Listed
<1>4. CASE WriteResult
  BY <1>4, WriteResultKeepsWaited
<1>5. CASE Execute
  BY <1>5, ExecuteKeepsWaited
<1>6. CASE Issue
  BY <1>6, IssueKeepsWaited
<1> QED BY <1>1, <1>2, <1>3, <1>4, <1>5, <1>6, EveryStep

(* Nothing has been read when nothing is in flight. *)
LEMMA InitHasWaited == Init => LoadsHaveWaited
BY DEF Init, LoadsHaveWaited, Listed

(* In a run in which no load reads while an older store has no address, or *)
(* one that is not its own and still overlaps, every load that has read    *)
(* found the addresses of all older stores known and elsewhere, and what   *)
(* is issued later is younger.  The hypothesis is needed: is_load_ready    *)
(* compares addresses for equality and ignores missing ones.               *)
THEOREM LoadsWait == Spec /\ EcallsNameNoRegister /\ [](~LoadOvertakes) => []LoadsHaveWaited
<1>1. Init /\ EcallsNameNoRegister => PipelineInv /\ LoadsHaveWaited
  BY InitEstablishes, InitHasWaited
<1>2. PipelineInv /\ [Next]_vars => PipelineInv'
  BY NextPreserves
<1>3. PipelineInv /\ PipelineInv' /\ LoadsHaveWaited /\ ~LoadOvertakes /\ [Next]_vars
        => LoadsHaveWaited'
  BY WaitedPreserved
<1> QED BY <1>1, <1>2, <1>3, PTL DEF Spec

(* So a load never reads bytes that an older store has still to write:     *)
(* is_load_ready is asked once, and stores that get their address later    *)
(* are elsewhere.                                                          *)
THEOREM LoadsKeepTheirOrder == Spec /\ EcallsNameNoRegister /\ [](~LoadOvertakes) => []LoadsSeeOlderStores
<1>1. PipelineInv /\ LoadsHaveWaited => LoadsSeeOlderStores
  BY DEF LoadsHaveWaited, LoadsSeeOlderStores, Listed, Ith
<1> QED BY <1>1, LoadsWait, InvariantHolds, PTL

-----------------------------------------------------------------------------
(* The read-only part of the memory                                        *)

(* A readlinkat about to run has a read-only byte in its buffer. *)
LinkIntoReadOnly ==
  /\ Retiring /\ IsEcall(Current.e)
  /\ KindOf(gpr) = "readlinkat"
  /\ \E a \in ReadOnlyStart .. ReadOnlyEnd - 1 :
       a \in Footprint(gpr[SyscallArg3Reg], gpr[SyscallArg4Reg])

(* A write of size bytes that starts below the read-only range and runs    *)
(* into it.                                                                *)
RunsIntoReadOnly(addr, size) == addr < ReadOnlyStart /\ addr + size > ReadOnlyStart

(* Such a store, by the head of the list or by an fstat or a uname.        *)
StoreIntoReadOnly ==
  \/ /\ At("execute") /\ HeadStores
     /\ RunsIntoReadOnly(HeadEntry.addr.val, AccessSize(HeadEntry.inst.function))
  \/ /\ Retiring /\ IsEcall(Current.e)
     /\ KindOf(gpr) \in {"fstat", "uname"}
     /\ RunsIntoReadOnly(RecordAddress(gpr), HostRecordSize)

ReadOnlyKept == \A a \in ReadOnlyStart .. ReadOnlyEnd - 1 : mem'[a] = mem[a]

(* A write changes only its footprint. *)
LEMMA WrittenBeside ==
  ASSUME NEW m, NEW addr, NEW size, NEW value, NEW a \in ReadOnlyStart .. ReadOnlyEnd - 1,
         a \notin Footprint(addr, size)
  PROVE  Written(m, addr, size, value)[a] = m[a]
<1>1. a \in Mapped
  BY RangeAssumption DEF Mapped
<1> QED BY <1>1 DEF Written

(* One that is let through and does not run into the range is beside it. *)
LEMMA WritableIsBeside ==
  ASSUME NEW addr \in Word, NEW size \in Int, IsWritable(addr), ~RunsIntoReadOnly(addr, size),
         NEW a \in ReadOnlyStart .. ReadOnlyEnd - 1
  PROVE  a \notin Footprint(addr, size)
BY RangeAssumption, SizeAssumption DEF Word, IsWritable, RunsIntoReadOnly, Footprint

(* The registers a system call reads hold words. *)
LEMMA SyscallAddresses ==
  ASSUME TypeOK
  PROVE  /\ RecordAddress(gpr) \in Word
         /\ gpr[SyscallArg3Reg] \in Word /\ gpr[SyscallArg4Reg] \in Word
<1>1. /\ SyscallArg1Reg \in Regs /\ SyscallArg2Reg \in Regs
      /\ SyscallArg3Reg \in Regs /\ SyscallArg4Reg \in Regs
  BY SyscallAssumption
<1> QED BY <1>1 DEF TypeOK, RecordAddress

LEMMA RetireEcallKeeps ==
  ASSUME TypeOK, RetireEcall, ~LinkIntoReadOnly, ~StoreIntoReadOnly PROVE ReadOnlyKept
<1>1. PICK ret \in Word : SyscallReturns(gpr, mem, ret, mem')
  BY DEF RetireEcall
<1>2. CASE mem' = mem
  BY <1>2 DEF ReadOnlyKept
<1>3. CASE /\ KindOf(gpr) \in {"fstat", "uname"}
           /\ WriteFits(RecordAddress(gpr), HostRecordSize)
           /\ \E data \in HostData : mem' = FillRecord(mem, gpr, data)
  <2>1. PICK data \in HostData :
          mem' = Written(mem, RecordAddress(gpr), HostRecordSize, data)
    BY <1>3 DEF FillRecord
  <2>2. /\ RecordAddress(gpr) \in Word /\ HostRecordSize \in Int
        /\ IsWritable(RecordAddress(gpr))
        /\ ~RunsIntoReadOnly(RecordAddress(gpr), HostRecordSize)
    BY <1>3, SyscallAddresses, SyscallAssumption
       DEF WriteFits, StoreIntoReadOnly, RetireEcall
  <2> QED BY <2>1, <2>2, WritableIsBeside, WrittenBeside DEF ReadOnlyKept
<1>4. CASE /\ KindOf(gpr) = "readlinkat"
           /\ ret \in 0 .. gpr[SyscallArg4Reg]
           /\ \E link \in HostData : mem' = CopyLink(mem, gpr, ret, link)
  <2>1. PICK link \in HostData : mem' = Written(mem, gpr[SyscallArg3Reg], ret, link)
    BY <1>4 DEF CopyLink
  <2>2. \A a \in ReadOnlyStart .. ReadOnlyEnd - 1 :
          a \notin Footprint(gpr[SyscallArg3Reg], gpr[SyscallArg4Reg])
    BY <1>4 DEF LinkIntoReadOnly, RetireEcall
  <2>3. \A a \in ReadOnlyStart .. ReadOnlyEnd - 1 : a \notin Footprint(gpr[SyscallArg3Reg], ret)
    <3>1. /\ gpr[SyscallArg3Reg] \in Int /\ gpr[SyscallArg4Reg] \in Int
          /\ ret \in Int /\ ret <= gpr[SyscallArg4Reg]
      BY <1>4, SyscallAddresses, SizeAssumption DEF Word
    <3> QED BY <2>2, <3>1, RangeAssumption DEF Footprint
  <2> QED BY <2>1, <2>3, WrittenBeside DEF ReadOnlyKept
<1> QED BY <1>1, <1>2, <1>3, <1>4 DEF SyscallReturns

LEMMA ExecuteKeeps == ASSUME PipelineInv, Execute, ~StoreIntoReadOnly PROVE ReadOnlyKept
<1>1. CASE ~HeadStores
  BY <1>1 DEF Execute, ReadOnlyKept
<1>2. CASE HeadStores
  <2> DEFINE e == HeadEntry
             size == AccessSize(e.inst.function)
  <2>1. mem' = Stored(e, mem) /\ StoreFits(e) /\ IsValue(e.addr)
    BY <1>2 DEF Execute, ExecutePanicking, HeadStores, StoreReady
  <2>2. e.addr \in Operand
    <3>1. Head(buf) \in DOMAIN entry
      BY <1>2 DEF HeadStores, PipelineInv, TypeOK, BufferIsLive
    <3>2. SameButMemory(LoadedEntries[Head(buf)], entry[Head(buf)])
      BY <3>1, LoadedFacts DEF Execute
    <3> QED BY <3>2 DEF SameButMemory, ReorderBufferEntry, HeadEntry
  <2>3. ~RunsIntoReadOnly(e.addr.val, size)
    BY <1>2 DEF StoreIntoReadOnly, Execute
  <2>4. size \in Int
    BY AccessSizeType
  <2>5. mem' = Written(mem, e.addr.val, size, e.mem_value.val) /\ IsWritable(e.addr.val)
    BY <2>1 DEF Stored, StoreFits, WriteFits
  <2> HIDE DEF e, size
  <2>6. e.addr.val \in Word
    BY <2>1, <2>2, OperandFacts
  <2> QED BY <2>3, <2>4, <2>5, <2>6, WritableIsBeside, WrittenBeside DEF ReadOnlyKept
<1> QED BY <1>1, <1>2

LEMMA StepKeepsReadOnly ==
  ASSUME PipelineInv, ~LinkIntoReadOnly, ~StoreIntoReadOnly, [Next]_vars PROVE ReadOnlyKept
<1>1. CASE RetireEcall
  BY <1>1, RetireEcallKeeps DEF PipelineInv
<1>2. CASE Execute
  BY <1>2, ExecuteKeeps
<1>3. CASE mem' = mem
  BY <1>3 DEF ReadOnlyKept
<1>4. RetirePredicted \/ RetireMispredicted \/ RetireValue \/ RetirePanics => mem' = mem
  BY DEF RetirePredicted, RetireMispredicted, RetireValue, RetirePanics, Panic
<1>5. PopCompleted \/ CommitDone \/ WriteResult \/ ExecutePanics => mem' = mem
  BY DEF PopCompleted, CommitDone, WriteResult, ExecutePanics, Panic
<1>6. IssueStalls \/ Issue \/ IssuePanics \/ Ended \/ UNCHANGED vars => mem' = mem
  BY DEF IssueStalls, Issue, IssuePanics, Panic, Ended, vars
<1> QED BY <1>1, <1>2, <1>3, <1>4, <1>5, <1>6 DEF Next, Retire

(* In a run in which no readlinkat is given a buffer with a read-only byte *)
(* and no store or host record starts below the read-only range and runs   *)
(* into it, no step changes a read-only byte, whatever writable memory     *)
(* there is below and above.  Both hypotheses are needed: readlinkat       *)
(* writes without check_write_address_space, and that looks only at the    *)
(* first byte of a write.                                                  *)
THEOREM ReadOnlyIsKept ==
  Spec /\ EcallsNameNoRegister /\ [](~LinkIntoReadOnly) /\ [](~StoreIntoReadOnly) => ReadOnlyMemoryIsKept
<1>1. Init /\ EcallsNameNoRegister => PipelineInv
  BY InitEstablishes
<1>2. PipelineInv /\ [Next]_vars => PipelineInv'
  BY NextPreserves
<1>3. PipelineInv /\ ~LinkIntoReadOnly /\ ~StoreIntoReadOnly /\ [Next]_vars
        => [\A a \in ReadOnlyStart .. ReadOnlyEnd - 1 : mem'[a] = mem[a]]_vars
  BY StepKeepsReadOnly DEF ReadOnlyKept
<1> QED BY <1>1, <1>2, <1>3, PTL DEF Spec, ReadOnlyMemoryIsKept

-----------------------------------------------------------------------------
(* A write elsewhere does not change what a load reads.                    *)
LEMMA ReadElsewhere ==
  ASSUME NEW m, NEW f, NEW addr \in Word, Readable(addr, AccessSize(f)),
         NEW b, NEW size, NEW v,
         Footprint(addr, AccessSize(f)) \cap Footprint(b, size) = {}
  PROVE  LoadValue(Written(m, b, size, v), f, addr) = LoadValue(m, f, addr)
<1> DEFINE width == AccessSize(f)
           m2 == Written(m, b, size, v)
<1>1. width \in 1 .. 4 /\ width \in Int
  BY AccessSizeType
<1>2. addr + width <= IF addr < StackStart THEN DataEnd ELSE WordMod
  BY DEF Readable, SliceFits
<1>3. ASSUME NEW n \in 0 .. 3, n < width PROVE m2[addr + n] = m[addr + n]
  <2>1. addr + n \in Footprint(addr, width)
    BY <1>1, <1>3, SizeAssumption DEF Footprint, Word
  <2>2. addr + n \in Mapped
    BY <1>1, <1>2, <1>3, SizeAssumption, RangeAssumption DEF Readable, InAddressSpace, Mapped, Word
  <2>3. addr + n \notin Footprint(b, size)
    BY <2>1
  <2> QED BY <2>2, <2>3 DEF Written
<1> HIDE DEF m2, width
<1>4. \A n \in 0 .. 3 : (IF n < width THEN m2[addr + n] * Weight(n) ELSE 0)
                          = (IF n < width THEN m[addr + n] * Weight(n) ELSE 0)
  BY <1>3
<1>5. LittleEndian(m2, addr, width) = LittleEndian(m, addr, width)
  <2>1. 0 \in 0 .. 3 /\ 1 \in 0 .. 3 /\ 2 \in 0 .. 3 /\ 3 \in 0 .. 3
    OBVIOUS
  <2>2. /\ (IF 0 < width THEN m2[addr + 0] * Weight(0) ELSE 0)
             = (IF 0 < width THEN m[addr + 0] * Weight(0) ELSE 0)
        /\ (IF 1 < width THEN m2[addr + 1] * Weight(1) ELSE 0)
             = (IF 1 < width THEN m[addr + 1] * Weight(1) ELSE 0)
        /\ (IF 2 < width THEN m2[addr + 2] * Weight(2) ELSE 0)
             = (IF 2 < width THEN m[addr + 2] * Weight(2) ELSE 0)
        /\ (IF 3 < width THEN m2[addr + 3] * Weight(3) ELSE 0)
             = (IF 3 < width THEN m[addr + 3] * Weight(3) ELSE 0)
    BY <1>4, <2>1, Zenon
  <2> QED BY <2>2 DEF LittleEndian
<1>6. LoadValue(m2, f, addr) = LoadValue(m, f, addr)
  BY <1>5 DEF LoadValue, width
<1> QED BY <1>6 DEF m2
=============================================================================
