---------------------------- MODULE AddressSpace -----------------------------
(***************************************************************************)
(* memory::ProcessMemory with the ranges and vectors that the loader and   *)
(* brk change; ProcessMemory is the same address space once it is fixed.   *)
(* v_address_range.0 is 0 in every step.  A byte is any value.             *)
(***************************************************************************)
EXTENDS Integers, Sequences

CONSTANTS
  AddressMod,   \* number of addresses
  StackSize,    \* bytes of the stack, at the top of the address space
  Zero          \* the byte 0

ASSUME SpaceAssumption ==
  /\ AddressMod \in Nat
  /\ StackSize \in 1 .. AddressMod

StackStart == AddressMod - StackSize

(* ProcessMemory::default(), with the stack that initialize_stack resizes. *)
EmptyMemory ==
  [v_end     |-> 0,        \* v_address_range.1
   read_only |-> <<0, 0>>, \* read_only_range
   data      |-> <<>>,
   stack     |-> [i \in 1 .. StackSize |-> Zero]]

(* Mutant: a new vector takes the old one's place. *)
Reallocated(vec, n) == [i \in 1 .. n |-> Zero]

(* Vec::resize(n, 0). *)
Resized(vec, n) == [i \in 1 .. n |-> IF i <= Len(vec) THEN vec[i] ELSE Zero]

(* Mutant: no address is read-only. *)
AlwaysWritable(m, addr) == TRUE

(* check_address_space and check_write_address_space. *)
InSpace(m, addr)  == addr < m.v_end \/ addr >= StackStart
Writable(m, addr) == ~(m.read_only[1] <= addr /\ addr < m.read_only[2])

(* Mutant: the data range, and not the start of the stack, decides. *)
BelowDataEnd(m, addr) == addr < m.v_end

(* The vector an address is in, and its place there. *)
InData(m, addr) == addr < StackStart
Offset(addr)    == IF addr < StackStart THEN addr ELSE addr - StackStart

Buffer(m, addr) == IF InData(m, addr) THEN m.data ELSE m.stack

(* `&buf[offset..offset + size]` does not panic. *)
Slices(m, addr, size) == Offset(addr) + size <= Len(Buffer(m, addr))

(* read_bytes and write_slice return Ok. *)
Reads(m, addr, size)  == InSpace(m, addr) /\ Slices(m, addr, size)
Writes(m, addr, size) == Reads(m, addr, size) /\ Writable(m, addr)

(* copy_from_slice. *)
Copied(vec, offset, bytes) ==
  [i \in 1 .. Len(vec) |->
     IF i - offset \in 1 .. Len(bytes) THEN bytes[i - offset] ELSE vec[i]]

WriteSlice(m, addr, bytes) ==
  IF InData(m, addr)
    THEN [m EXCEPT !.data  = Copied(@, Offset(addr), bytes)]
    ELSE [m EXCEPT !.stack = Copied(@, Offset(addr), bytes)]

(* The byte a load at addr returns. *)
ByteAt(m, addr) == Buffer(m, addr)[Offset(addr) + 1]
=============================================================================
