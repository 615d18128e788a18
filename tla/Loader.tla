------------------------------- MODULE Loader --------------------------------
(***************************************************************************)
(* ProcessMemory::new: the program headers are folded into the data        *)
(* segment one by one, then the initial stack is pushed: the headers, the  *)
(* program name, and the auxiliary and argument vectors below them.        *)
(***************************************************************************)
EXTENDS AddressSpace

CONSTANT
  Inputs   \* the program headers of a file and the length of the program's
           \* name, its NUL included

(* Sizes in bytes of an Elf32ProgramHeader, of the eight auxiliary vectors *)
(* and of the four argument words.                                         *)
HeaderSize == 32
AuxSize    == 64
ArgsSize   == 16

(* load is p_type = PT_LOAD.                                               *)
ProgramHeader ==
  [load : BOOLEAN, vaddr : Nat, filesz : Nat, memsz : Nat, write : BOOLEAN]

VmEnd(header) == header.vaddr + header.memsz

(* The segments to load ascend, as the ELF format has them, and end below  *)
(* the stack, which has room for what initialize_stack pushes.             *)
Loadable(hs, length) ==
  /\ hs \in Seq(ProgramHeader) /\ length \in Nat \ {0}
  /\ \A k \in 1 .. Len(hs) : hs[k].load =>
       /\ VmEnd(hs[k]) <= StackStart
       /\ \A j \in 1 .. k - 1 : hs[j].load => VmEnd(hs[j]) <= hs[k].vaddr
  /\ HeaderSize * Len(hs) + length + AuxSize + ArgsSize + 15 <= StackSize

ASSUME InputAssumption ==
  \A input \in Inputs : Loadable(input.headers, input.name_length)

VARIABLES
  headers,       \* the program headers of the file
  name_length,   \* of the program name
  memory,        \* the ProcessMemory under construction
  sp,            \* the stack pointer of the step
  addrs,         \* header_addr and program_name_addr, once they are known
  done,          \* headers folded or pushed so far in this stage
  stage

vars == <<headers, name_length, memory, sp, addrs, done, stage>>

(* Byte i of an object of the file or of the stack. *)
ByteOf(object, i)      == [object |-> object, at |-> i]
BytesOf(object, n)     == [i \in 1 .. n |-> ByteOf(object, i - 1)]
Segment(k)             == <<"segment", k>>
Header(k)              == <<"header", k>>
Name                   == <<"name", 0>>
Aux                    == <<"aux", 0>>
Args                   == <<"args", 0>>

Init ==
  /\ \E input \in Inputs : /\ headers = input.headers
                          /\ name_length = input.name_length
  /\ memory = EmptyMemory
  /\ sp = 0
  /\ addrs = [header |-> 0, name |-> 0]
  /\ done = 0
  /\ stage = "load"

-----------------------------------------------------------------------------
(* The fold over the PT_LOAD headers                                       *)

(* Mutant: only the last read-only segment is protected. *)
LastReadOnly(range, header) ==
  IF header.write THEN range ELSE <<header.vaddr, VmEnd(header)>>

(* The first read-only segment starts the range, every other extends it.   *)
ReadOnlyWith(range, header) ==
  IF header.write THEN range
  ELSE <<IF range[1] = range[2] THEN header.vaddr ELSE range[1], VmEnd(header)>>

(* Mutant: the gap between two segments is not filled. *)
OnlyFirstPadded(m, header) ==
  IF m.v_end = 0 THEN Resized(m.data, header.vaddr) ELSE m.data

(* The bytes before a segment: up to its start, or the gap since the one   *)
(* before it.                                                              *)
Padded(m, header) ==
  IF m.v_end = 0 THEN Resized(m.data, header.vaddr)
  ELSE IF m.v_end < header.vaddr
         THEN Resized(m.data, Len(m.data) + header.vaddr - m.v_end)
         ELSE m.data

WithSegment(m, k) ==
  LET header == headers[k]
      before == Padded(m, header)
  IN  [m EXCEPT !.read_only = ReadOnlyWith(@, header),
                !.v_end     = VmEnd(header),
                !.data      = Copied(Resized(before, Len(before) + header.memsz),
                                     Len(before), BytesOf(Segment(k), header.filesz))]

LoadSegment ==
  /\ stage = "load" /\ done < Len(headers)
  /\ IF ~headers[done + 1].load THEN UNCHANGED memory
     ELSE /\ headers[done + 1].filesz <= headers[done + 1].memsz
          /\ memory' = WithSegment(memory, done + 1)
  /\ done' = done + 1
  /\ UNCHANGED <<headers, name_length, sp, addrs, stage>>

(* `data[old_size..old_size + p_filesz]` is out of range.  The file is     *)
(* taken to have the bytes its headers name: the slice of elf_data, which  *)
(* is next, would panic as well.                                           *)
LoadPanics ==
  /\ stage = "load" /\ done < Len(headers)
  /\ headers[done + 1].load
  /\ headers[done + 1].filesz > headers[done + 1].memsz
  /\ stage' = "panicked"
  /\ UNCHANGED <<headers, name_length, memory, sp, addrs, done>>

Loaded ==
  /\ stage = "load" /\ done = Len(headers)
  /\ stage' = "push_headers"
  /\ done' = 0
  /\ UNCHANGED <<headers, name_length, memory, sp, addrs>>

-----------------------------------------------------------------------------
(* initialize_stack                                                        *)

(* Mutant: saturating_sub, so that the first push is at address 0. *)
Saturating(addr, n) == IF addr < n THEN 0 ELSE addr - n

Below(addr, n) == (addr - n) % AddressMod

(* wrapping_sub and write_slice.  The result is unwrapped: a push that     *)
(* does not fit would leave the loader without a step.                     *)
Push(addr, bytes) ==
  /\ Writes(memory, addr, Len(bytes))
  /\ memory' = WriteSlice(memory, addr, bytes)

PushHeader ==
  /\ stage = "push_headers" /\ done < Len(headers)
  /\ sp' = Below(sp, HeaderSize)
  /\ Push(sp', BytesOf(Header(done + 1), HeaderSize))
  /\ done' = done + 1
  /\ UNCHANGED <<headers, name_length, addrs, stage>>

PushName ==
  /\ stage = "push_headers" /\ done = Len(headers)
  /\ sp' = Below(sp, name_length)
  /\ addrs' = [header |-> sp, name |-> sp']
  /\ Push(sp', BytesOf(Name, name_length))
  /\ stage' = "push_vectors"
  /\ UNCHANGED <<headers, name_length, done>>

(* Mutant: sp itself is aligned upwards. *)
AlignedUp(addr) == ((addr + 15) \div 16) * 16

(* `sp - (next_sp - (next_sp & -16))`, where next_sp is below the vectors. *)
Aligned(addr) ==
  LET next_sp == addr - (AuxSize + ArgsSize) IN addr - (next_sp % 16)

PushVectors ==
  /\ stage = "push_vectors"
  /\ LET aux  == Below(Aligned(sp), AuxSize)
         args == Below(aux, ArgsSize)
     IN  /\ Writes(memory, aux, AuxSize) /\ Writes(memory, args, ArgsSize)
         /\ memory' = WriteSlice(WriteSlice(memory, aux, BytesOf(Aux, AuxSize)),
                                 args, BytesOf(Args, ArgsSize))
         /\ sp' = args
  /\ stage' = "done"
  /\ UNCHANGED <<headers, name_length, addrs, done>>

Ended == stage \in {"done", "panicked"} /\ UNCHANGED vars

Next == LoadSegment \/ LoadPanics \/ Loaded \/ PushHeader \/ PushName \/ PushVectors \/ Ended

Spec == Init /\ [][Next]_vars

-----------------------------------------------------------------------------

LoadHeaders == {k \in 1 .. Len(headers) : headers[k].load}
AddressesOf(header) == header.vaddr .. VmEnd(header) - 1

Holds(addr, object, n) ==
  \A i \in 0 .. n - 1 : Reads(memory, addr + i, 1) /\ ByteAt(memory, addr + i) = ByteOf(object, i)

(* The writes of initialize_stack, each of which is unwrapped, succeed: no *)
(* headers a file can have leave the stack too small or protect it.        *)
PushesSucceed ==
  /\ stage = "push_headers" =>
       IF done < Len(headers)
         THEN Writes(memory, Below(sp, HeaderSize), HeaderSize)
         ELSE Writes(memory, Below(sp, name_length), name_length)
  /\ stage = "push_vectors" =>
       LET aux == Below(Aligned(sp), AuxSize) IN
       Writes(memory, aux, AuxSize) /\ Writes(memory, Below(aux, ArgsSize), ArgsSize)

(* A program finds each segment at its address, the bytes the file does    *)
(* not have are zero, and every address that passes the check of the data  *)
(* range is backed by a byte.                                              *)
SegmentsAreInPlace ==
  stage = "done" =>
    /\ Len(memory.data) = memory.v_end
    /\ \A k \in LoadHeaders :
         LET header == headers[k] IN
         /\ Holds(header.vaddr, Segment(k), header.filesz)
         /\ \A a \in (header.vaddr + header.filesz) .. VmEnd(header) - 1 :
              Reads(memory, a, 1) /\ ByteAt(memory, a) = Zero

(* Where the writes begin that write_slice accepts and that contain a.     *)
AcceptedWritesInto(a) == {start \in 0 .. a : Writes(memory, start, a - start + 1)}

(* A write that reaches a read-only segment is refused wherever it starts  *)
(* but below all of them, where write_slice looks at no address but the    *)
(* first; none that starts in a writable segment is refused unless that    *)
(* lies between two read-only ones: read_only_range is one range, from the *)
(* first to the last of them.                                              *)
ProtectionFollowsTheHeaders ==
  stage = "done" =>
    \A k \in LoadHeaders : \A a \in AddressesOf(headers[k]) :
      IF headers[k].write
        THEN \/ Writable(memory, a)
             \/ \E j, l \in LoadHeaders :
                  j < k /\ k < l /\ ~headers[j].write /\ ~headers[l].write
        ELSE \A start \in AcceptedWritesInto(a), j \in LoadHeaders :
               ~headers[j].write /\ headers[j].memsz > 0 => start < headers[j].vaddr

(* The program starts on an aligned stack pointer with its arguments and   *)
(* the auxiliary vectors above it, and what they point to, the name and a  *)
(* table of all headers, is intact: no push overwrote another.             *)
StackIsAsPromised ==
  stage = "done" =>
    /\ sp % 16 = 0
    /\ Holds(sp, Args, ArgsSize)
    /\ Holds(sp + ArgsSize, Aux, AuxSize)
    /\ Holds(addrs.name, Name, name_length)
    /\ \A k \in 1 .. Len(headers) : \E n \in 0 .. Len(headers) - 1 :
         Holds(addrs.header + n * HeaderSize, Header(k), HeaderSize)
=============================================================================
