------------------------- MODULE ProgramBreakProofs --------------------------
(***************************************************************************)
(* Whatever a program does to its break, its stack is its own, and a byte  *)
(* of its data is the one last put there or one that a brk dropped.        *)
(***************************************************************************)
EXTENDS ProgramBreak, SequenceTheorems, TLAPS

Bytes == {Initial, New, Zero}

(* The ranges and the buffers.  The length of the data is not tied to the  *)
(* data range: brk lets them drift apart.                                  *)
MemoryType ==
  /\ memory \in [v_end : Nat, read_only : Nat \X Nat,
                 data : Seq(Bytes), stack : [1 .. StackSize -> Bytes]]
  /\ memory.read_only = <<ReadOnlyStart, ReadOnlyEnd>>
  /\ stored \in [Address -> Bytes]

StackHolds ==
  \A i \in 1 .. StackSize : memory.stack[i] = stored[StackStart + i - 1]

(* Said of every data address, mapped or not: brk can map it later, and    *)
(* what the vector does not have yet comes to it as 0.                     *)
DataHolds ==
  \A a \in 0 .. StackStart - 1 :
    Expected(a) = IF a < Len(memory.data) THEN memory.data[a + 1] ELSE Zero

(* No store names a read-only byte that those from below do not reach.     *)
OutOfReachHolds ==
  \A a \in ReadOnlyStart .. ReadOnlyEnd - 1 : ~RunsInto(a) => stored[a] = Initial

BreakInv == MemoryType /\ StackHolds /\ DataHolds /\ OutOfReachHolds

-----------------------------------------------------------------------------

LEMMA ArrayIsSeq ==
  ASSUME NEW S, NEW n \in Nat, NEW s \in [1 .. n -> S]
  PROVE  s \in Seq(S) /\ Len(s) = n
<1>1. s \in Seq(S)
  BY SeqDef
<1>2. Len(s) \in Nat /\ 1 .. Len(s) = 1 .. n
  BY <1>1, LenProperties
<1>3. Len(s) = n
  BY <1>2
<1>. QED
  BY <1>1, <1>3

(* Vec::resize keeps the bytes that fit, and clears the others.            *)
LEMMA ResizedProperties ==
  ASSUME NEW S, Zero \in S, NEW s \in Seq(S), NEW n \in Nat
  PROVE  /\ Resized(s, n) \in Seq(S)
         /\ Len(Resized(s, n)) = n
         /\ \A i \in 1 .. n : Resized(s, n)[i] = IF i <= Len(s) THEN s[i] ELSE Zero
<1>1. Len(s) \in Nat /\ s \in [1 .. Len(s) -> S]
  BY LenProperties
<1>2. Resized(s, n) \in [1 .. n -> S]
  BY <1>1 DEF Resized
<1>. QED
  BY <1>2, ArrayIsSeq DEF Resized

LEMMA InitHolds == Init => BreakInv
<1>. SUFFICES ASSUME Init PROVE BreakInv
  OBVIOUS
<1>. USE SpaceAssumption, LayoutAssumption DEF StackStart, Address
<1>1. /\ [i \in 1 .. DataEnd |-> Initial] \in Seq(Bytes)
      /\ Len([i \in 1 .. DataEnd |-> Initial]) = DataEnd
  <2>1. DataEnd \in Nat /\ [i \in 1 .. DataEnd |-> Initial] \in [1 .. DataEnd -> Bytes]
    BY DEF Bytes
  <2>. QED
    BY <2>1, ArrayIsSeq
<1>2. /\ memory.v_end = DataEnd
      /\ memory.read_only = <<ReadOnlyStart, ReadOnlyEnd>>
      /\ memory.data = [i \in 1 .. DataEnd |-> Initial]
      /\ memory.stack = [i \in 1 .. StackSize |-> Zero]
      /\ memory = [v_end |-> memory.v_end, read_only |-> memory.read_only,
                   data |-> memory.data, stack |-> memory.stack]
  BY DEF Init, EmptyMemory
<1>3. MemoryType
  <2>1. /\ memory.v_end \in Nat
        /\ memory.read_only \in Nat \X Nat
        /\ memory.stack \in [1 .. StackSize -> Bytes]
    BY <1>2 DEF Bytes
  <2>2. stored \in [Address -> Bytes]
    BY DEF Init, Bytes
  <2>. QED
    BY <1>1, <1>2, <2>1, <2>2 DEF MemoryType
<1>4. StackHolds
  BY <1>2 DEF Init, StackHolds
<1>5. DataHolds
  BY <1>1, <1>2 DEF Init, DataHolds, Expected
<1>6. OutOfReachHolds
  BY DEF Init, OutOfReachHolds
<1>. QED
  BY <1>3, <1>4, <1>5, <1>6 DEF BreakInv

LEMMA BrkStep == BreakInv /\ Brk => BreakInv'
<1>. SUFFICES ASSUME BreakInv, Brk PROVE BreakInv'
  OBVIOUS
<1>. USE SpaceAssumption, LayoutAssumption
<1>1. PICK addr \in 0 .. AddressMod - 2 : memory' = Grown(memory, addr)
  BY DEF Brk
<1>2. stored' = stored /\ cut' = cut \cup (Len(memory'.data) .. Len(memory.data) - 1)
  BY DEF Brk
<1>5. OutOfReachHolds'
  BY <1>2 DEF BreakInv, OutOfReachHolds
<1>6. Len(memory.data) \in Nat
  BY LenProperties DEF BreakInv, MemoryType
<1>3. CASE memory.v_end > addr
  <2>1. memory' = memory /\ cut' = cut
    <3>1. memory' = memory
      BY <1>1, <1>3 DEF Grown
    <3>. QED
      BY <1>2, <1>6, <3>1
  <2>. QED
    BY <1>2, <1>5, <2>1 DEF BreakInv, MemoryType, StackHolds, DataHolds, Expected
<1>4. CASE ~(memory.v_end > addr)
  <2>. DEFINE n == addr - memory.v_end + 1
              grown == Resized(memory.data, n)
  <2>1. n \in Nat /\ addr + 1 \in Nat
    BY <1>4 DEF BreakInv, MemoryType
  <2>2. /\ grown \in Seq(Bytes)
        /\ Len(grown) = n
        /\ \A i \in 1 .. n :
             grown[i] = IF i <= Len(memory.data) THEN memory.data[i] ELSE Zero
    <3>1. Zero \in Bytes /\ memory.data \in Seq(Bytes)
      BY DEF Bytes, BreakInv, MemoryType
    <3>. QED
      BY <3>1, <2>1, ResizedProperties
  <2>3. memory' = [memory EXCEPT !.data = grown, !.v_end = addr + 1]
    BY <1>1, <1>4 DEF Grown
  <2>. HIDE DEF n, grown
  <2>4. /\ MemoryType'
        /\ memory'.stack = memory.stack
        /\ memory'.data = grown
    BY <1>2, <2>1, <2>2, <2>3 DEF BreakInv, MemoryType, Address
  <2>5. StackHolds'
    BY <1>2, <2>4 DEF BreakInv, StackHolds
  <2>6. DataHolds'
    <3>. SUFFICES ASSUME NEW a \in 0 .. StackStart - 1
                  PROVE  Expected(a)' = IF a < n THEN grown[a + 1] ELSE Zero
      BY <2>2, <2>4 DEF DataHolds
    <3>1. StackStart \in Nat /\ a \in Nat
      BY DEF StackStart
    <3>2. Expected(a) = IF a < Len(memory.data) THEN memory.data[a + 1] ELSE Zero
      BY DEF BreakInv, DataHolds
    <3>3. a \in cut' <=> a \in cut \/ (n <= a /\ a < Len(memory.data))
      BY <1>2, <1>6, <2>1, <2>2, <2>4, <3>1
    <3>4. CASE a < n
      <4>1. a + 1 \in 1 .. n /\ (a + 1 <= Len(memory.data) <=> a < Len(memory.data))
        BY <1>6, <2>1, <3>1, <3>4
      <4>2. Expected(a)' = Expected(a)
        BY <1>2, <2>1, <3>1, <3>3, <3>4 DEF Expected
      <4>. QED
        BY <2>2, <3>2, <3>4, <4>1, <4>2
    <3>5. CASE ~(a < n)
      <4>1. a < Len(memory.data) => Expected(a)' = Zero
        BY <2>1, <3>1, <3>3, <3>5 DEF Expected
      <4>2. ~(a < Len(memory.data)) => Expected(a)' = Expected(a)
        BY <1>2, <3>3 DEF Expected
      <4>. QED
        BY <3>2, <3>5, <4>1, <4>2
    <3>. QED
      BY <3>4, <3>5
  <2>. QED
    BY <1>5, <2>4, <2>5, <2>6 DEF BreakInv
<1>. QED
  BY <1>3, <1>4

LEMMA StoreStep == BreakInv /\ Store => BreakInv'
<1>. SUFFICES ASSUME BreakInv, Store PROVE BreakInv'
  OBVIOUS
<1>. USE SpaceAssumption, LayoutAssumption
<1>1. PICK addr \in Address, size \in Sizes :
        /\ Writes(memory, addr, size)
        /\ memory' = WriteSlice(memory, addr, [i \in 1 .. size |-> New])
        /\ stored' = [a \in Address |-> IF a \in Footprint(addr, size) THEN New ELSE stored[a]]
        /\ cut' = cut \ Footprint(addr, size)
  BY DEF Store
<1>2. /\ size \in Nat /\ addr \in Nat /\ StackStart \in Nat
      /\ AddressMod = StackStart + StackSize /\ StackSize \in Nat
  BY <1>1 DEF Address, StackStart
<1>3. /\ memory.data \in Seq(Bytes) /\ Len(memory.data) \in Nat
      /\ memory.data \in [1 .. Len(memory.data) -> Bytes]
      /\ memory.stack \in [1 .. StackSize -> Bytes] /\ Len(memory.stack) = StackSize
      /\ New \in Bytes
  <2>1. memory.data \in Seq(Bytes) /\ memory.stack \in [1 .. StackSize -> Bytes]
    BY DEF BreakInv, MemoryType
  <2>. QED
    BY <1>2, <2>1, ArrayIsSeq, LenProperties DEF Bytes
<1>4. ~(ReadOnlyStart <= addr /\ addr < ReadOnlyEnd)
  BY <1>1, <1>2 DEF Writes, Writable, BreakInv, MemoryType
<1>5. stored' \in [Address -> Bytes]
  BY <1>1 DEF BreakInv, MemoryType, Bytes
<1>6. \A a \in Address :
        stored'[a] = IF a \in addr .. addr + size - 1 /\ (a < StackStart <=> addr < StackStart)
                       THEN New ELSE stored[a]
  BY <1>1, <1>2 DEF Footprint, Address
<1>11. OutOfReachHolds'
  <2>. SUFFICES ASSUME NEW a \in ReadOnlyStart .. ReadOnlyEnd - 1, ~RunsInto(a)
                PROVE  stored'[a] = Initial
    BY DEF OutOfReachHolds
  <2>1. stored[a] = Initial
    BY DEF BreakInv, OutOfReachHolds
  <2>2. a \notin addr .. addr + size - 1
    <3>1. CASE addr < ReadOnlyStart
      BY <1>1, <1>2, <3>1 DEF RunsInto
    <3>2. CASE ~(addr < ReadOnlyStart)
      BY <1>2, <1>4, <3>2
    <3>. QED
      BY <3>1, <3>2
  <2>3. a \in Address
    BY <1>2 DEF Address
  <2>. QED
    BY <1>6, <2>1, <2>2, <2>3
<1>12. \A a \in Address :
         Expected(a)' = IF a \in addr .. addr + size - 1 /\ (a < StackStart <=> addr < StackStart)
                          THEN New ELSE Expected(a)
  <2>. SUFFICES ASSUME NEW a \in Address
                PROVE  Expected(a)' =
                         IF a \in addr .. addr + size - 1 /\ (a < StackStart <=> addr < StackStart)
                           THEN New ELSE Expected(a)
    OBVIOUS
  <2>1. a \in cut' <=> a \in cut /\ ~(a \in addr .. addr + size - 1
                                       /\ (a < StackStart <=> addr < StackStart))
    BY <1>1 DEF Footprint
  <2>. QED
    BY <1>6, <2>1 DEF Expected
<1>. DEFINE bytes == [i \in 1 .. size |-> New]
<1>7. Len(bytes) = size /\ \A i \in 1 .. size : bytes[i] = New
  <2>1. bytes \in [1 .. size -> Bytes]
    BY <1>3
  <2>. QED
    BY <1>2, <2>1, ArrayIsSeq
<1>8. memory' = WriteSlice(memory, addr, bytes)
  BY <1>1
<1>. HIDE DEF bytes
<1>9. CASE addr < StackStart
  <2>. DEFINE copy == Copied(memory.data, addr, bytes)
  <2>1. /\ copy \in [1 .. Len(memory.data) -> Bytes]
        /\ \A i \in 1 .. Len(memory.data) :
             copy[i] = IF i - addr \in 1 .. size THEN New ELSE memory.data[i]
    BY <1>2, <1>3, <1>7 DEF Copied
  <2>2. copy \in Seq(Bytes) /\ Len(copy) = Len(memory.data)
    BY <1>3, <2>1, ArrayIsSeq
  <2>3. memory' = [memory EXCEPT !.data = copy]
    BY <1>8, <1>9 DEF WriteSlice, InData, Offset
  <2>. HIDE DEF copy
  <2>4. MemoryType' /\ memory'.stack = memory.stack /\ memory'.data = copy
    BY <1>5, <2>2, <2>3 DEF BreakInv, MemoryType, Address
  <2>5. \A i \in 1 .. StackSize : stored'[StackStart + i - 1] = stored[StackStart + i - 1]
    BY <1>2, <1>6, <1>9 DEF Address
  <2>6. StackHolds'
    BY <2>4, <2>5 DEF BreakInv, StackHolds
  <2>7. DataHolds'
    <3>. SUFFICES ASSUME NEW a \in 0 .. StackStart - 1
                  PROVE  Expected(a)' = IF a < Len(memory.data) THEN copy[a + 1] ELSE Zero
      BY <2>2, <2>4 DEF DataHolds
    <3>1. a \in Address /\ a < StackStart /\ a \in Nat
      BY <1>2 DEF Address
    <3>2. Expected(a)' = IF a \in addr .. addr + size - 1 THEN New ELSE Expected(a)
      BY <1>9, <1>12, <3>1
    <3>3. Expected(a) = IF a < Len(memory.data) THEN memory.data[a + 1] ELSE Zero
      BY DEF BreakInv, DataHolds
    <3>4. addr + size <= Len(memory.data)
      BY <1>1, <1>9 DEF Writes, Reads, Slices, Buffer, InData, Offset
    <3>5. a \in addr .. addr + size - 1 => a < Len(memory.data)
      BY <1>2, <1>3, <3>1, <3>4
    <3>6. a < Len(memory.data) =>
            copy[a + 1] = IF a \in addr .. addr + size - 1 THEN New ELSE memory.data[a + 1]
      <4>1. a < Len(memory.data) => a + 1 \in 1 .. Len(memory.data)
        BY <1>3, <3>1
      <4>2. (a + 1) - addr \in 1 .. size <=> a \in addr .. addr + size - 1
        BY <1>2, <3>1
      <4>. QED
        BY <2>1, <4>1, <4>2
    <3>. QED
      BY <3>2, <3>3, <3>5, <3>6
  <2>. QED
    BY <1>11, <2>4, <2>6, <2>7 DEF BreakInv
<1>10. CASE ~(addr < StackStart)
  <2>. DEFINE copy == Copied(memory.stack, addr - StackStart, bytes)
  <2>1. /\ copy \in [1 .. StackSize -> Bytes]
        /\ \A i \in 1 .. StackSize :
             copy[i] = IF i - (addr - StackStart) \in 1 .. size THEN New ELSE memory.stack[i]
    BY <1>2, <1>3, <1>10, <1>7 DEF Copied
  <2>2. memory' = [memory EXCEPT !.stack = copy]
    BY <1>8, <1>10 DEF WriteSlice, InData, Offset
  <2>. HIDE DEF copy
  <2>3. MemoryType' /\ memory'.stack = copy /\ memory'.data = memory.data
    BY <1>5, <2>1, <2>2 DEF BreakInv, MemoryType, Address
  <2>4. StackHolds'
    <3>. SUFFICES ASSUME NEW i \in 1 .. StackSize
                  PROVE  copy[i] = stored'[StackStart + i - 1]
      BY <2>3 DEF StackHolds
    <3>1. StackStart + i - 1 \in Address /\ ~(StackStart + i - 1 < StackStart)
      BY <1>2 DEF Address
    <3>2. stored'[StackStart + i - 1] =
            IF i - (addr - StackStart) \in 1 .. size THEN New ELSE stored[StackStart + i - 1]
      BY <1>2, <1>6, <1>10, <3>1
    <3>. QED
      BY <2>1, <3>2 DEF BreakInv, StackHolds
  <2>5. DataHolds'
    <3>1. \A a \in 0 .. StackStart - 1 : Expected(a)' = Expected(a)
      BY <1>2, <1>10, <1>12 DEF Address
    <3>. QED
      BY <2>3, <3>1 DEF BreakInv, DataHolds
  <2>. QED
    BY <1>11, <2>3, <2>4, <2>5 DEF BreakInv
<1>. QED
  BY <1>9, <1>10

LEMMA NextHolds == BreakInv /\ [Next]_vars => BreakInv'
<1>. SUFFICES ASSUME BreakInv, [Next]_vars PROVE BreakInv'
  OBVIOUS
<1>1. CASE Brk
  BY <1>1, BrkStep
<1>2. CASE Store
  BY <1>2, StoreStep
<1>3. CASE memory' = memory /\ stored' = stored /\ cut' = cut
  BY <1>3 DEF BreakInv, MemoryType, StackHolds, DataHolds, Expected, OutOfReachHolds
<1>. QED
  BY <1>1, <1>2, <1>3 DEF Next, BrkPanics, AccessPanics, Ended, vars

LEMMA InvariantImpliesStackIsKept == BreakInv => StackIsKept
<1>. SUFFICES ASSUME BreakInv, NEW a \in StackStart .. AddressMod - 1
              PROVE  Reads(memory, a, 1) /\ ByteAt(memory, a) = stored[a]
  BY DEF StackIsKept
<1>. USE SpaceAssumption DEF StackStart
<1>1. Len(memory.stack) = StackSize
  BY ArrayIsSeq DEF BreakInv, MemoryType
<1>2. a - StackStart + 1 \in 1 .. StackSize /\ StackStart + (a - StackStart + 1) - 1 = a
  OBVIOUS
<1>3. memory.stack[a - StackStart + 1] = stored[a]
  BY <1>2 DEF BreakInv, StackHolds
<1>. QED
  BY <1>1, <1>3 DEF Reads, InSpace, Slices, Buffer, InData, Offset, ByteAt

LEMMA InvariantImpliesDataIsStored == BreakInv => DataIsStoredUnlessCut
<1>. SUFFICES ASSUME BreakInv, NEW a \in 0 .. StackStart - 1, Reads(memory, a, 1)
              PROVE  ByteAt(memory, a) = Expected(a)
  BY DEF DataIsStoredUnlessCut
<1>1. StackStart \in Nat /\ Len(memory.data) \in Nat
  BY SpaceAssumption, LenProperties DEF StackStart, BreakInv, MemoryType
<1>2. ByteAt(memory, a) = memory.data[a + 1] /\ a + 1 <= Len(memory.data)
  BY <1>1 DEF Reads, Slices, Buffer, InData, Offset, ByteAt
<1>3. a < Len(memory.data)
  BY <1>1, <1>2
<1>. QED
  BY <1>2, <1>3 DEF BreakInv, DataHolds

LEMMA InvariantImpliesReadOnlyIsKept == BreakInv => ReadOnlyIsKeptOutOfReach
<1>. SUFFICES ASSUME BreakInv, NEW a \in ReadOnlyStart .. ReadOnlyEnd - 1,
                     Reads(memory, a, 1), ~RunsInto(a)
              PROVE  ByteAt(memory, a) = IF a \in cut THEN Zero ELSE Initial
  BY DEF ReadOnlyIsKeptOutOfReach
<1>1. a \in 0 .. StackStart - 1
  BY SpaceAssumption, LayoutAssumption DEF StackStart
<1>2. ByteAt(memory, a) = Expected(a)
  BY <1>1, InvariantImpliesDataIsStored DEF DataIsStoredUnlessCut
<1>3. stored[a] = Initial
  BY DEF BreakInv, OutOfReachHolds
<1>. QED
  BY <1>2, <1>3 DEF Expected

(* The inductive invariant.                                                *)
LEMMA BreakInvHolds == Spec => []BreakInv
  BY InitHolds, NextHolds, PTL DEF Spec

(* What the program puts on its stack stays there, for every layout of the *)
(* address space and whatever brk does: the system call's resize and the   *)
(* stores to the data never reach the stack's own buffer.                  *)
THEOREM BreakKeepsTheStack == Spec => []StackIsKept
  BY BreakInvHolds, InvariantImpliesStackIsKept, PTL

(* A data byte is the one last put there, for every layout and every       *)
(* history of stores and breaks, except that one brk's resize has dropped  *)
(* since reads as 0 when it reads at all.                                  *)
THEOREM BreakKeepsOrCutsTheData == Spec => []DataIsStoredUnlessCut
  BY BreakInvHolds, InvariantImpliesDataIsStored, PTL

(* Of the read-only bytes, only those within reach of a store that starts  *)
(* below the range, and those a brk drops, ever cease to be the loader's.  *)
THEOREM ReadOnlyIsOnlyRunInto == Spec => []ReadOnlyIsKeptOutOfReach
  BY BreakInvHolds, InvariantImpliesReadOnlyIsKept, PTL
=============================================================================
