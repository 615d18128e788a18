----------------------------- MODULE LoadBuffer ------------------------------
(***************************************************************************)
(* pipeline/load_buffer.rs and functional_units/memory.rs.  load maps the  *)
(* node of each load or atomic in flight to its LoadBufferEntry; the clock *)
(* countdown lives in the reorder buffer entry.                            *)
(***************************************************************************)
EXTENDS ReorderBuffer, ProcessMemory

(* A value of NULL is the Err of a load outside the address space.         *)
LoadBufferEntry ==
  [status : {"Wait", "Execute", "Finished"}, value : Word \cup {NULL}]

NewLoad == [status |-> "Wait", value |-> 0]

(* The entries before node in the list (take_while). *)
OlderOrSame(buf, node) == {buf[k] : k \in {i \in 1 .. Len(buf) :
                                              \A j \in 1 .. i - 1 : buf[j] # node}}
Older(buf, node) == {buf[k] : k \in {i \in 1 .. Len(buf) :
                                        \A j \in 1 .. i : buf[j] # node}}

(* An entry that stores, to an address that waits for a broadcast or is    *)
(* the load's, holds it back.  An address that is None does not.  The      *)
(* mutant forgets the atomics.                                             *)
OnlyStoresHoldBack(o, e) == o.inst.opcode = "Store" /\ (o.addr.tag = "Rob" \/ o.addr = e.addr)
HoldsBack(o, e) == IsStoring(o.inst) /\ (o.addr.tag = "Rob" \/ o.addr = e.addr)

(* is_load_ready: the address is known, an atomic has its operand, and no  *)
(* older entry holds the load back.                                        *)
IsLoadReady(load, buf, entry, node) ==
  LET e == entry[node] IN
  /\ load[node].status # "Finished"
  /\ IsValue(e.addr)
  /\ e.inst.opcode = "Amo" => e.mem_value.tag # "Rob"
  /\ \A o \in Older(buf, node) : ~HoldsBack(entry[o], e)

ReadyLoads(load, buf, entry) ==
  {node \in DOMAIN load : IsLoadReady(load, buf, entry, node)}

(* The ready loads whose last cycle this is. *)
EndingLoads(load, buf, entry) ==
  {node \in ReadyLoads(load, buf, entry) : entry[node].mem_rem_cycle <= 1}

(* MemoryUnit::execute on an entry: the bytes read, or an Err.             *)
LoadResult(e, mem) ==
  IF InAddressSpace(e.addr.val) THEN LoadValue(mem, e.inst.function, e.addr.val) ELSE NULL

(* ... which panics when the access runs over the end of its range, or     *)
(* when an atomic's arithmetic does.                                       *)
LoadPanics(e, mem) ==
  /\ InAddressSpace(e.addr.val)
  /\ \/ ~SliceFits(e.addr.val, AccessSize(e.inst.function))
     \/ /\ e.inst.opcode = "Amo" /\ e.inst.function # "Lrw"
        /\ AmoPanics(e.inst.function, LoadResult(e, mem), e.mem_value.val)

(* A mutant: the count for the store is not restored. *)
AtomicCountNotReset(e, mem) ==
  LET old == LoadResult(e, mem)
      f   == e.inst.function
  IN  IF e.inst.opcode # "Amo" \/ old = NULL THEN [e EXCEPT !.mem_rem_cycle = 0]
      ELSE [e EXCEPT !.mem_value = Value(IF f = "Lrw" THEN 0
                                         ELSE AmoValue(f, old, e.mem_value.val)),
                     !.mem_rem_cycle = 0]

(* What the last cycle leaves in the entry of an atomic: the value to be   *)
(* stored, and for all but lr a fresh count for the store.                 *)
AfterAtomicLoad(e, mem) ==
  LET old == LoadResult(e, mem)
      f   == e.inst.function
  IN  IF e.inst.opcode # "Amo" \/ old = NULL THEN [e EXCEPT !.mem_rem_cycle = 0]
      ELSE [e EXCEPT !.mem_value = Value(IF f = "Lrw" THEN 0
                                         ELSE AmoValue(f, old, e.mem_value.val)),
                     !.mem_rem_cycle = IF f = "Lrw" THEN 0 ELSE MemCycle]

(* LoadBuffer::execute: the loads, and the reorder buffer entries, after   *)
(* one clock.  A load reads only its own entry and the addresses of older  *)
(* ones, which no load changes, so the order of the HashMap is immaterial. *)
LoadsExecuted(load, buf, entry, mem) ==
  LET ready  == ReadyLoads(load, buf, entry)
      ending == EndingLoads(load, buf, entry)
  IN  [node \in DOMAIN load |->
         IF node \in ending
           THEN [status |-> "Finished", value |-> LoadResult(entry[node], mem)]
         ELSE IF node \in ready THEN [load[node] EXCEPT !.status = "Execute"]
         ELSE load[node]]

EntriesLoaded(load, buf, entry, mem) ==
  LET ready  == ReadyLoads(load, buf, entry)
      ending == EndingLoads(load, buf, entry)
  IN  [node \in DOMAIN entry |->
         IF node \in ending THEN AfterAtomicLoad(entry[node], mem)
         ELSE IF node \in ready THEN [entry[node] EXCEPT !.mem_rem_cycle = @ - 1]
         ELSE entry[node]]

(* pop_finished: the results handed over, 0 for a load that failed.  The   *)
(* mutants lose the 0, or take it for a failure.                           *)
ZeroIsFailure(load) ==
  [node \in {n \in DOMAIN load : load[n].status = "Finished"} |->
     [reg_value |-> OrZero(load[node].value),
      exception |-> IF OrZero(load[node].value) = 0 THEN "Err" ELSE "Ok"]]
FailedLoadsKeepNull(load) ==
  [node \in {n \in DOMAIN load : load[n].status = "Finished"} |->
     [reg_value |-> load[node].value, exception |-> "Ok"]]

FinishedLoads(load) ==
  [node \in {n \in DOMAIN load : load[n].status = "Finished"} |->
     [reg_value |-> OrZero(load[node].value),
      exception |-> IF load[node].value = NULL THEN "Err" ELSE "Ok"]]

(* MemoryUnit::execute_store on the head of the list: it stores once the   *)
(* address, the value and, for an atomic, the loaded register are there.   *)
StoreReady(e) ==
  /\ IsStoring(e.inst)
  /\ e.inst.opcode = "Amo" => e.reg_value # NULL
  /\ IsValue(e.addr)
  /\ IsValue(e.mem_value)

StoreFits(e) == WriteFits(e.addr.val, AccessSize(e.inst.function))

Stored(e, mem) == Written(mem, e.addr.val, AccessSize(e.inst.function), e.mem_value.val)
=============================================================================
