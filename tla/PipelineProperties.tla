------------------------- MODULE PipelineProperties --------------------------
(***************************************************************************)
(* What makes the pipeline correct: that it implements the sequential      *)
(* machine, and the invariants between its buffers that make it so.        *)
(***************************************************************************)
EXTENDS PipelineInvariant

(* The instructions in flight, in program order: those popped from the     *)
(* reorder buffer and not retired yet, then those in it.                   *)
Pending ==
  SubSeq(completed, retired + 1, Len(completed))
    \o [k \in 1 .. Len(buf) |-> [node |-> buf[k], e |-> entry[buf[k]]]]

PendingAt(k) == Pending[k].e

-----------------------------------------------------------------------------
(* Refinement                                                              *)

(* A store or an atomic has its effect on memory when it is the head of    *)
(* the reorder buffer, clocks before it retires.                           *)
HasStored(e) == IsStoring(e.inst) /\ IsCompleted(e) /\ e.mem_exception = "Ok"

HeadHasStored == Pending # <<>> /\ HasStored(PendingAt(1))

(* The architectural state: that of the oldest instruction without effect. *)
ArchPc == IF Pending = <<>> THEN pc
          ELSE IF HeadHasStored THEN NextPc(PendingAt(1).pc) ELSE PendingAt(1).pc

ArchGpr == IF HeadHasStored /\ PendingAt(1).inst.opcode = "Amo"
             THEN WriteReg(gpr, PendingAt(1).rd, PendingAt(1).reg_value) ELSE gpr

ExitRetired == /\ \E k \in 1 .. retired : IsEcall(completed[k].e)
               /\ AsksToExit(gpr)

ArchStatus == IF status = "finished" \/ ExitRetired THEN "finished" ELSE "running"

Arch == INSTANCE SequentialMachine WITH pc <- ArchPc, gpr <- ArchGpr, status <- ArchStatus

(* Out-of-order execution, speculation and renaming are invisible: what    *)
(* the pipeline does to the registers, the memory and the pc is a run of   *)
(* the sequential machine, from commit, execute and system_call together.  *)
ImplementsSequentialMachine ==
  Arch!StartsAt(Programs, InitialMemory, EntryPoint, StackPointer) /\ Arch!Steps

-----------------------------------------------------------------------------
(* The path of the fetch                                                   *)

Successor(e) ==
  IF e.inst.opcode = "Jalr" /\ IsValue(e.addr) THEN e.addr.val
  ELSE FetchNext(e.inst, e.pc, e.branch_pred)

(* The instructions in flight are one path through the program: each is    *)
(* where the one before it goes or was predicted to go, and the pc is      *)
(* where the youngest goes (issue, AddressUnit::execute, and the redirect  *)
(* of commit).                                                             *)
FetchFollowsPrediction ==
  /\ \A k \in 1 .. Len(Pending) - 1 : PendingAt(k + 1).pc = Successor(PendingAt(k))
  /\ Pending # <<>> => pc = Successor(PendingAt(Len(Pending)))

-----------------------------------------------------------------------------
(* Renaming and broadcasts                                                 *)

WritersOf(r) == {k \in 1 .. Len(Pending) : PendingAt(k).rd = r}

(* related_rob names the youngest instruction in flight that writes the    *)
(* register, and none when there is no such instruction: retire clears it  *)
(* only for the youngest writer, clear_all_buffers for all.                *)
RenamingIsYoungestWriter ==
  \A r \in Regs \ {0} :
    related_rob[r] = IF WritersOf(r) = {} THEN NULL
                     ELSE Pending[CHOOSE k \in WritersOf(r) :
                                    \A j \in WritersOf(r) : j <= k].node

Position(n) == CHOOSE k \in 1 .. Len(buf) : buf[k] = n

(* An operand only waits for an older instruction: with NoMissedBroadcast, *)
(* no wait is circular and none is forever.                                *)
TagsAreOlder ==
  \A n \in DOMAIN entry : \A i \in TagsOf(n) :
    i \in DOMAIN entry /\ Position(i) < Position(n)

-----------------------------------------------------------------------------
(* Memory order                                                            *)

Touches(e) == Footprint(e.addr.val, AccessSize(e.inst.function))

HasLoaded(n) ==
  /\ entry[n].inst.opcode \in {"Load", "Amo"}
  /\ entry[n].inst.function # "Scw"
  /\ IF n \in DOMAIN load_buf THEN load_buf[n].status = "Finished"
     ELSE entry[n].reg_value # NULL

(* A load does not overtake a store to a byte it reads: when it has read,  *)
(* no older store to that byte is still to be performed (is_load_ready).   *)
LoadsSeeOlderStores ==
  \A j \in 1 .. Len(buf) : \A k \in 1 .. j - 1 :
    LET load  == entry[buf[j]]
        store == entry[buf[k]]
    IN  (HasLoaded(buf[j]) /\ IsStoring(store.inst) /\ IsValue(store.addr))
          => Touches(load) \cap Touches(store) = {}

-----------------------------------------------------------------------------
(* System calls and panics                                                 *)

(* system_call reads and writes the register file directly, so nothing     *)
(* else may be in flight when it runs: issue fetches nothing behind it.    *)
SystemCallsAreSerialized ==
  (Retiring /\ IsEcall(Current.e)) =>
    /\ buf = <<>>
    /\ retired + 1 = Len(completed)
    /\ \A r \in Regs : related_rob[r] = NULL

(* The process ends early only where the sequential machine cannot go on:  *)
(* a fault recorded in an entry (mem_exception) is raised when the entry   *)
(* retires and dropped with one that does not, and nothing on a            *)
(* mispredicted path panics on the spot.                                   *)
PanicsAreReal == status = "panicked" => Arch!MayFault

(* Neither a store, an atomic nor a system call changes the read-only      *)
(* part of the program image (read_only_range), writable bytes below and   *)
(* above it notwithstanding.                                               *)
ReadOnlyMemoryIsKept ==
  [][\A a \in ReadOnlyStart .. ReadOnlyEnd - 1 : mem'[a] = mem[a]]_vars

-----------------------------------------------------------------------------
(* Progress                                                                *)

(* Every instruction issued is retired or dropped, unless the process ends *)
(* first.                                                                  *)
EveryInstructionLeaves ==
  \A n \in Nodes : n \in DOMAIN entry ~> (n \notin DOMAIN entry \/ status # "running")

(* A program of the run, which on the sequential machine runs to its end,  *)
(* does so in the pipeline, loops included.                                *)
Terminates == <>(status # "running")
=============================================================================
