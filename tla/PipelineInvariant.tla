-------------------------- MODULE PipelineInvariant --------------------------
(***************************************************************************)
(* The inductive invariant behind the pipeline's type correctness and the  *)
(* soundness of its raw pointers, and the two properties it implies.       *)
(***************************************************************************)
EXTENDS Pipeline

(* The entries whose result a unit still owes: a broadcast will come.      *)
Producing == DOMAIN station \cup DOMAIN load_buf

(* The list and the live nodes are the same, without repetition.           *)
BufferIsLive ==
  /\ \A i, j \in 1 .. Len(buf) : buf[i] = buf[j] => i = j
  /\ \A i \in 1 .. Len(buf) : buf[i] \in DOMAIN entry
  /\ \A n \in DOMAIN entry : \E i \in 1 .. Len(buf) : buf[i] = n

(* A node is in the producing unit of its instruction exactly while its    *)
(* register value is missing; a store has none.                            *)
ProducersAreUnfinished ==
  /\ \A n \in Producing : /\ n \in DOMAIN entry
                          /\ entry[n].reg_value = NULL
                          /\ entry[n].inst.opcode # "Store"
  /\ \A n \in DOMAIN entry :
       (entry[n].reg_value = NULL /\ entry[n].inst.opcode # "Store") => n \in Producing
  /\ \A n \in DOMAIN load_buf : UsesLoadBuffer(entry[n].inst)
  /\ \A n \in DOMAIN station :
       /\ UsesStation(entry[n].inst)
       /\ station[n].status # "Finished" => station[n].remaining_clock > 0

(* The address unit holds the entries whose address it has not given.      *)
AddressesAreMissing ==
  \A n \in DOMAIN addresses :
    /\ n \in DOMAIN entry
    /\ entry[n].addr = NoOperand
    /\ UsesAddressUnit(entry[n].inst)
    /\ entry[n].inst.opcode = "Load" =>
         n \in DOMAIN load_buf /\ load_buf[n].status # "Finished"

(* A register is renamed to an instruction that writes it: one in the      *)
(* list or, within commit's loop, one popped and not retired yet.          *)
Writes(e, r) == /\ e.rd = r
                /\ e.inst.opcode \notin {"Store", "Branch"}
                /\ e.inst.function # "Ecall"

Renames(node, r) ==
  \/ node \in DOMAIN entry /\ Writes(entry[node], r)
  \/ /\ stage = "retire"
     /\ \E k \in retired + 1 .. Len(completed) :
          /\ completed[k].node = node
          /\ Writes(completed[k].e, r)
          /\ completed[k].e.reg_value # NULL

RenamesAreWriters ==
  /\ related_rob[0] = NULL
  /\ \A r \in Regs : related_rob[r] # NULL => Renames(related_rob[r], r)

(* Every operand waits for a node that a unit still owes a value, and an   *)
(* atomic has an operand.                                                  *)
Owed(op) == op.tag = "Rob" => op.idx \in Producing

OperandsAreOwed ==
  /\ \A n \in DOMAIN station : Owed(station[n].op1) /\ Owed(station[n].op2)
  /\ \A n \in DOMAIN addresses : Owed(addresses[n].op1)
  /\ \A n \in DOMAIN entry :
       /\ Owed(entry[n].addr) /\ ~WaitsFor(entry[n].addr, n)
       /\ Owed(entry[n].mem_value) /\ ~WaitsFor(entry[n].mem_value, n)
       /\ entry[n].inst.opcode = "Amo" => entry[n].mem_value.tag # "None"

(* What the invariant needs of the program: no ecall names a register.     *)
(* Issue would rename it to the ecall, and retire of an ecall returns      *)
(* before it frees the name.                                               *)
EcallsNameNoRegister ==
  \A p \in DOMAIN code : code[p].function = "Ecall" => code[p].rd = 0

PipelineInv ==
  /\ EcallsNameNoRegister
  /\ TypeOK
  /\ BufferIsLive
  /\ ProducersAreUnfinished
  /\ AddressesAreMissing
  /\ RenamesAreWriters
  /\ OperandsAreOwed

-----------------------------------------------------------------------------

(* The nodes the operands of an instruction wait for.                      *)
TagsOf(n) ==
  {i \in Nodes :
     \/ WaitsFor(entry[n].addr, i) \/ WaitsFor(entry[n].mem_value, i)
     \/ n \in DOMAIN station /\ (WaitsFor(station[n].op1, i) \/ WaitsFor(station[n].op2, i))
     \/ n \in DOMAIN addresses /\ WaitsFor(addresses[n].op1, i)}

(* The raw pointers of the reorder buffer never dangle: the units are      *)
(* keyed by live nodes, operands wait for live nodes and, outside commit's *)
(* loop (which frees nodes before it retires them), registers are renamed  *)
(* to live nodes.                                                          *)
NoDanglingIndex ==
  /\ DOMAIN station \cup DOMAIN load_buf \cup DOMAIN addresses \subseteq DOMAIN entry
  /\ \A n \in DOMAIN entry : TagsOf(n) \subseteq DOMAIN entry
  /\ stage # "retire" => \A r \in Regs : related_rob[r] \in DOMAIN entry \cup {NULL}

(* No broadcast is missed: what an operand waits for has not been produced *)
(* and is in a unit that will produce it.                                  *)
NoMissedBroadcast ==
  \A n \in DOMAIN entry : \A i \in TagsOf(n) :
    /\ i \in DOMAIN station \cup DOMAIN load_buf
    /\ entry[i].reg_value = NULL
=============================================================================
