---------------------------- MODULE ProcessMemory ----------------------------
(***************************************************************************)
(* memory::ProcessMemory: one flat address space with the program image at *)
(* [0, DataEnd), part of it read-only, and the stack at the top.  A memory *)
(* is a function from the mapped addresses to bytes.                       *)
(*                                                                         *)
(* A reference to an address that starts outside the two ranges is an Err; *)
(* one that starts inside and runs over the end slices a Vec out of bounds *)
(* and panics on the spot.                                                 *)
(***************************************************************************)
EXTENDS Machine

CONSTANTS
  DataEnd,       \* v_address_range.1; v_address_range.0 is always 0
  ReadOnlyStart, \* read_only_range.0
  ReadOnlyEnd,   \* read_only_range.1
  StackStart     \* stack_range.0; the stack ends at the top of the address space

ASSUME RangeAssumption ==
  /\ DataEnd \in 0 .. WordMod
  /\ ReadOnlyEnd \in 0 .. DataEnd
  /\ ReadOnlyStart \in 0 .. ReadOnlyEnd
  /\ StackStart \in DataEnd .. WordMod

Mapped == 0 .. (DataEnd - 1) \cup StackStart .. (WordMod - 1)

Memory == [Mapped -> Byte]

(* Mutant: no address is read-only. *)
EverywhereWritable(addr) == TRUE

(* check_address_space and check_write_address_space, on the first address *)
(* only: a write that starts below the read-only range may run into it.    *)
InAddressSpace(addr) == addr < DataEnd \/ addr >= StackStart
IsWritable(addr)     == ~(ReadOnlyStart <= addr /\ addr < ReadOnlyEnd)

(* The slice [addr, addr + size) stays within the Vec it is taken from.    *)
SliceFits(addr, size) ==
  addr + size <= IF addr < StackStart THEN DataEnd ELSE WordMod

Readable(addr, size)  == InAddressSpace(addr) /\ SliceFits(addr, size)
WriteFits(addr, size) == Readable(addr, size) /\ IsWritable(addr)

(* Bytes a memory access touches. *)
AccessSize(function) ==
  CASE function \in {"Lb", "Lbu", "Sb"} -> 1
    [] function \in {"Lh", "Lhu", "Sh"} -> HalfSize
    [] OTHER                            -> WordSize

Footprint(addr, size) == addr .. (addr + size - 1)

(* The little-endian value of at most four bytes, and the bytes of a value. *)
Weight(n) ==
  CASE n = 0 -> 1
    [] n = 1 -> ByteMod
    [] n = 2 -> ByteMod * ByteMod
    [] OTHER -> ByteMod * ByteMod * ByteMod

LittleEndian(mem, addr, size) ==
  LET part(n) == IF n < size THEN mem[addr + n] * Weight(n) ELSE 0
  IN  part(0) + part(1) + part(2) + part(3)

ByteOf(value, n) == (value \div Weight(n)) % ByteMod

(* Mutant: the narrow integer is taken for an unsigned one. *)
ZeroExtend(value, size) == value

(* `val as u32` of a signed narrow integer. *)
SignExtend(value, size) ==
  LET top == Weight(size - 1) * ByteMod
  IN  IF 2 * value >= top THEN value - top ELSE value

(* MemoryUnit::execute's reads: what a load returns.                       *)
LoadValue(mem, function, addr) ==
  LET raw == LittleEndian(mem, addr, AccessSize(function))
  IN  (IF function \in {"Lb", "Lh"}
         THEN SignExtend(raw, AccessSize(function)) ELSE raw) % WordMod

(* write: the memory after size bytes of value are stored at addr.         *)
Written(mem, addr, size, value) ==
  [a \in Mapped |-> IF a \in Footprint(addr, size)
                      THEN ByteOf(value, a - addr) ELSE mem[a]]
=============================================================================
