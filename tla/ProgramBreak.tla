---------------------------- MODULE ProgramBreak -----------------------------
(***************************************************************************)
(* The brk system call and what it does to a running program's memory: a   *)
(* program that loads, stores and moves its break, in any order.  Nothing  *)
(* else changes the ranges and the vectors after the loader.               *)
(***************************************************************************)
EXTENDS AddressSpace

CONSTANTS
  ReadOnlyStart, \* read_only_range.0
  ReadOnlyEnd,   \* read_only_range.1
  DataEnd,       \* v_address_range.1 and the length of data after loading
  Sizes,         \* of accesses, in bytes
  Initial,       \* a byte of the file
  New            \* a byte the program stores

ASSUME LayoutAssumption ==
  /\ DataEnd \in 1 .. StackStart
  /\ ReadOnlyEnd \in 0 .. DataEnd
  /\ ReadOnlyStart \in 0 .. ReadOnlyEnd
  /\ Sizes \subseteq Nat \ {0}

Address == 0 .. AddressMod - 1

VARIABLES
  memory,   \* the ProcessMemory
  stored,   \* what was last put at each address, by the loader or a store
  cut,      \* the data addresses whose byte a brk has dropped since then
  a0,       \* what the last brk returned
  status

vars == <<memory, stored, cut, a0, status>>

Init ==
  /\ memory = [EmptyMemory EXCEPT !.v_end = DataEnd,
                                  !.read_only = <<ReadOnlyStart, ReadOnlyEnd>>,
                                  !.data = [i \in 1 .. DataEnd |-> Initial]]
  /\ stored = [a \in Address |-> IF a < DataEnd THEN Initial ELSE Zero]
  /\ cut = {}
  /\ a0 = 0
  /\ status = "running"

-----------------------------------------------------------------------------

(* The new vector is as long as the growth, plus one.                      *)
Grown(m, addr) ==
  IF m.v_end > addr THEN m
  ELSE [m EXCEPT !.data = Resized(@, addr - m.v_end + 1), !.v_end = addr + 1]

Brk ==
  /\ status = "running"
  /\ \E addr \in 0 .. AddressMod - 2 :
       /\ memory' = Grown(memory, addr)
       /\ a0' = addr
  /\ cut' = cut \cup (Len(memory'.data) .. Len(memory.data) - 1)
  /\ UNCHANGED <<stored, status>>

(* brk(u32::MAX): `addr + 1` overflows, which a debug build checks. *)
BrkPanics ==
  /\ status = "running"
  /\ status' = "panicked"
  /\ UNCHANGED <<memory, stored, cut, a0>>

(* A store the checks accept, which look at its first address only.  Where *)
(* brk made the data so long that a store runs over the start of the       *)
(* stack, the bytes from there on stay in the data, unseen.                *)
Footprint(addr, size) ==
  {a \in addr .. addr + size - 1 : a < StackStart <=> addr < StackStart}

Store ==
  /\ status = "running"
  /\ \E addr \in Address, size \in Sizes :
       /\ Writes(memory, addr, size)
       /\ memory' = WriteSlice(memory, addr, [i \in 1 .. size |-> New])
       /\ stored' = [a \in Address |->
                       IF a \in Footprint(addr, size) THEN New ELSE stored[a]]
       /\ cut' = cut \ Footprint(addr, size)
  /\ UNCHANGED <<a0, status>>

(* A load or a store that the checks refuse, or that slices out of range.  *)
AccessPanics ==
  /\ status = "running"
  /\ \E addr \in Address, size \in Sizes : ~Reads(memory, addr, size) \/ ~Writes(memory, addr, size)
  /\ status' = "panicked"
  /\ UNCHANGED <<memory, stored, cut, a0>>

Ended == status = "panicked" /\ UNCHANGED vars

Next == Brk \/ BrkPanics \/ Store \/ AccessPanics \/ Ended

Spec == Init /\ [][Next]_vars

-----------------------------------------------------------------------------

(* brk and stores to the data, wherever the break is moved to, the stack   *)
(* included, leave on the stack what the program put there: the vector is  *)
(* chosen by the start of the stack, not by the end of the data.           *)
StackIsKept ==
  \A a \in StackStart .. AddressMod - 1 :
    Reads(memory, a, 1) /\ ByteAt(memory, a) = stored[a]

Expected(a) == IF a \in cut THEN Zero ELSE stored[a]

(* A data byte that can be read is the one last put there, unless a brk    *)
(* has dropped it since, whose resize truncates the data: then it is 0.    *)
(* No resize moves a byte, and none brings a dropped one back.             *)
DataIsStoredUnlessCut ==
  \A a \in 0 .. StackStart - 1 :
    Reads(memory, a, 1) => ByteAt(memory, a) = Expected(a)

(* A store that starts below the read-only range can contain the byte.     *)
RunsInto(a) ==
  \E addr \in 0 .. ReadOnlyStart - 1, size \in Sizes : a \in addr .. addr + size - 1

(* A read-only byte beyond the reach of the stores that start below the    *)
(* range is the loader's, unless a brk dropped it.  The bytes within reach *)
(* are not safe, as check_write_address_space looks at the first address.  *)
ReadOnlyIsKeptOutOfReach ==
  \A a \in ReadOnlyStart .. ReadOnlyEnd - 1 :
    Reads(memory, a, 1) /\ ~RunsInto(a) =>
      ByteAt(memory, a) = IF a \in cut THEN Zero ELSE Initial

(* Every byte of a store that has succeeded can be loaded.                 *)
AcceptedStoresAreSeen ==
  [][\A addr \in Address, size \in Sizes :
       Writes(memory, addr, size) /\ memory' = WriteSlice(memory, addr, [i \in 1 .. size |-> New])
         => \A a \in addr .. addr + size - 1 :
              Reads(memory', a, 1) /\ ByteAt(memory', a) = New]_vars

(* What was stored can be loaded again.                                    *)
StoredBytesAreKept ==
  \A a \in Address :
    stored[a] = New => Reads(memory, a, 1) /\ ByteAt(memory, a) = New
=============================================================================
