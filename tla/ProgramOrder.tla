---------------------------- MODULE ProgramOrder -----------------------------
(***************************************************************************)
(* The inductive invariants behind the properties about the order of the   *)
(* instructions in flight: who waits for whom, which instruction a         *)
(* register is renamed to, what may follow an ecall, and the path of the   *)
(* fetch.  PipelineInv holds the types and the raw pointers; these add the *)
(* positions.                                                              *)
(***************************************************************************)
EXTENDS PipelineProperties

(* The popped entries that are not retired yet, by their place in commit's *)
(* completed_entries.                                                      *)
Popped == retired + 1 .. Len(completed)

Listed == 1 .. Len(buf)
Ith(i) == entry[buf[i]]

(* Positions instead of a CHOOSE: what an operand of the i-th entry waits  *)
(* for stands before it in the list.                                       *)
WaitsAreOlder ==
  \A i \in Listed : \A m \in TagsOf(buf[i]) : \E k \in 1 .. i - 1 : buf[k] = m

(* Nothing is popped outside commit's loop; within it the popped entries   *)
(* are completed, and their nodes are freed and differ.                    *)
PoppedAreCompleted ==
  /\ stage # "retire" => completed = <<>>
  /\ \A k \in Popped : /\ IsCompleted(completed[k].e)
                       /\ completed[k].node \notin DOMAIN entry
  /\ \A j, k \in Popped : completed[j].node = completed[k].node => j = k

(* An ecall is the youngest instruction in flight, and what the second     *)
(* slot of issue follows does not end the group.                           *)
EcallsAreLast ==
  /\ \A k \in Popped : IsEcall(completed[k].e) => k = Len(completed) /\ buf = <<>>
  /\ \A i \in Listed : IsEcall(Ith(i)) => i = Len(buf)
  /\ stage = "issue_second" => buf # <<>> /\ ~EndsGroup(Ith(Len(buf)).inst)

(* A writer that no younger instruction in flight overwrites is the one    *)
(* its register is renamed to.                                             *)
LastWritersAreNamed ==
  \A r \in Regs \ {0} :
    /\ \A i \in Listed :
         (Ith(i).rd = r /\ \A j \in i + 1 .. Len(buf) : Ith(j).rd # r)
           => related_rob[r] = buf[i]
    /\ \A k \in Popped :
         (/\ completed[k].e.rd = r
          /\ \A j \in k + 1 .. Len(completed) : completed[j].e.rd # r
          /\ \A i \in Listed : Ith(i).rd # r)
           => related_rob[r] = completed[k].node

OrderInv ==
  /\ WaitsAreOlder
  /\ PoppedAreCompleted
  /\ EcallsAreLast
  /\ LastWritersAreNamed

-----------------------------------------------------------------------------
(* The path of the fetch                                                   *)

(* AddressUnit::execute returns 0 both for no target and for a target of   *)
(* 0: a jalr to address 0 does not redirect the fetch.                     *)
JalrToZero ==
  /\ At("execute")
  /\ \E n \in ReadyAddresses(addresses) :
       addresses[n].is_jalr /\ Address(addresses[n]) = 0

(* A jalr whose target is not known is the youngest instruction, and the   *)
(* address unit has it; only atomics wait for a register as an address.    *)
JumpsAreLast ==
  /\ \A n \in DOMAIN addresses : addresses[n].is_jalr <=> entry[n].inst.opcode = "Jalr"
  /\ \A i \in Listed :
       (Ith(i).inst.opcode = "Jalr" /\ ~IsValue(Ith(i).addr))
         => i = Len(buf) /\ buf[i] \in DOMAIN addresses

(* FetchFollowsPrediction, list by list. *)
PathIsFollowed ==
  /\ \A k \in retired + 1 .. Len(completed) - 1 :
       completed[k + 1].e.pc = Successor(completed[k].e)
  /\ (Popped # {} /\ buf # <<>>) => Ith(1).pc = Successor(completed[Len(completed)].e)
  /\ \A i \in 1 .. Len(buf) - 1 : Ith(i + 1).pc = Successor(Ith(i))
  /\ buf # <<>> => pc = Successor(Ith(Len(buf)))
  /\ (Popped # {} /\ buf = <<>>) => pc = Successor(completed[Len(completed)].e)

PathInv == JumpsAreLast /\ PathIsFollowed

-----------------------------------------------------------------------------
(* The order of loads and stores                                           *)

(* What is_load_ready does not wait for: a load reads while an older store *)
(* has no address yet, or one that is another and still overlaps.          *)
LoadOvertakes ==
  /\ At("execute")
  /\ \E j \in Listed : \E i \in 1 .. j - 1 :
       LET load  == AddressedEntries[buf[j]]
           store == AddressedEntries[buf[i]]
       IN  /\ buf[j] \in EndingLoads(load_buf, buf, AddressedEntries)
           /\ IsStoring(store.inst)
           /\ \/ store.addr = NoOperand
              \/ /\ IsValue(store.addr)
                 /\ store.addr # load.addr
                 /\ Touches(load) \cap Touches(store) # {}

(* A load that has read knows its address, and those of the older stores,  *)
(* which are elsewhere.                                                    *)
LoadsHaveWaited ==
  \A j \in Listed : HasLoaded(buf[j]) =>
    /\ IsValue(Ith(j).addr)
    /\ \A i \in 1 .. j - 1 : IsStoring(Ith(i).inst) =>
         IsValue(Ith(i).addr) /\ Touches(Ith(j)) \cap Touches(Ith(i)) = {}

-----------------------------------------------------------------------------
(* Panics                                                                  *)

(* What panics on the spot although others precede it: a load, a unit or a *)
(* fetch that may be on a mispredicted path, or behind a recorded fault.   *)
PanicsAhead ==
  \/ /\ At("execute")
     /\ \E i \in Listed \ {1} :
          \/ /\ buf[i] \in EndingLoads(load_buf, buf, AddressedEntries)
             /\ LoadPanics(AddressedEntries[buf[i]], mem)
          \/ buf[i] \in DOMAIN station /\ UnitPanics(station[buf[i]])
  \/ Fetching /\ pc \notin DOMAIN code /\ buf # <<>>
=============================================================================
