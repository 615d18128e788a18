---------------------------- MODULE LoaderProofs -----------------------------
(***************************************************************************)
(* Proofs about the loader, for any number of program headers that ascend  *)
(* and leave the stack alone: what the program finds in its memory when it *)
(* starts.                                                                 *)
(***************************************************************************)
EXTENDS Loader, SequenceTheorems, TLAPS

Bytes == {Zero} \cup {ByteOf(<<object, k>>, i) :
            object \in {"segment", "header", "name", "aux", "args"}, k \in Nat, i \in Nat}

(* How many headers the fold has seen. *)
Folded == IF stage \in {"load", "panicked"} THEN done ELSE Len(headers)

Memory == [v_end : 0 .. StackStart, read_only : Nat \X Nat,
           data : Seq(Bytes), stack : [1 .. StackSize -> Bytes]]

LoaderType ==
  /\ Loadable(headers, name_length)
  /\ memory \in Memory
  /\ sp \in Nat
  /\ addrs \in [header : Nat, name : Nat]
  /\ done \in 0 .. Len(headers)
  /\ stage \in {"load", "push_headers", "push_vectors", "done", "panicked"}

(* The data vector is as long as its range, holds the segments that are    *)
(* folded, and ends before the others.                                     *)
SegmentsLoaded ==
  /\ Len(memory.data) = memory.v_end
  /\ \A k \in LoadHeaders :
       IF k <= Folded
         THEN /\ headers[k].filesz <= headers[k].memsz
              /\ VmEnd(headers[k]) <= memory.v_end
              /\ \A i \in 0 .. headers[k].memsz - 1 :
                   memory.data[headers[k].vaddr + i + 1]
                     = IF i < headers[k].filesz THEN ByteOf(Segment(k), i) ELSE Zero
         ELSE memory.v_end <= headers[k].vaddr

ReadOnly(k) == k \in LoadHeaders /\ k <= Folded /\ ~headers[k].write

(* read_only_range is empty, or from the start of a read-only segment to   *)
(* the end of one, and has all that are not empty between them.            *)
ReadOnlyRange ==
  LET range == memory.read_only IN
  /\ range # <<0, 0>> =>
       \E j, l \in LoadHeaders :
         /\ ReadOnly(j) /\ ReadOnly(l)
         /\ range[1] = headers[j].vaddr /\ range[2] = VmEnd(headers[l])
  /\ \A k \in LoadHeaders : (ReadOnly(k) /\ headers[k].memsz > 0) =>
       range[1] <= headers[k].vaddr /\ VmEnd(headers[k]) <= range[2]

(* The stack of m holds n bytes of the object from addr on.                *)
OnStack(m, addr, object, n) ==
  /\ StackStart <= addr /\ addr + n <= AddressMod
  /\ \A i \in 0 .. n - 1 : m.stack[addr - StackStart + i + 1] = ByteOf(object, i)

HeaderAt(k) == AddressMod - HeaderSize * k
NameAt      == AddressMod - HeaderSize * Len(headers) - name_length

(* What has been pushed lies where it was pushed, one above the other.     *)
StackPushed ==
  /\ stage \in {"push_headers", "push_vectors", "done"} =>
       \A k \in 1 .. IF stage = "push_headers" THEN done ELSE Len(headers) :
         OnStack(memory, HeaderAt(k), Header(k), HeaderSize)
  /\ stage \in {"load", "panicked"} => sp = 0
  /\ stage = "push_headers" => sp = IF done = 0 THEN 0 ELSE HeaderAt(done)
  /\ stage \in {"push_vectors", "done"} =>
       /\ addrs.name = NameAt /\ OnStack(memory, NameAt, Name, name_length)
       /\ Len(headers) # 0 => addrs.header = HeaderAt(Len(headers))
  /\ stage = "push_vectors" => sp = NameAt
  /\ stage = "done" =>
       /\ sp % 16 = 0
       /\ OnStack(memory, sp, Args, ArgsSize)
       /\ OnStack(memory, sp + ArgsSize, Aux, AuxSize)

LoaderInv == LoaderType /\ SegmentsLoaded /\ ReadOnlyRange /\ StackPushed

-----------------------------------------------------------------------------
(* Vectors                                                                 *)

LEMMA ArrayIsSeq ==
  ASSUME NEW S, NEW n \in Nat, NEW s \in [1 .. n -> S]
  PROVE  s \in Seq(S) /\ Len(s) = n
<1>1. s \in Seq(S)
  BY SeqDef
<1>2. Len(s) \in Nat /\ 1 .. Len(s) = 1 .. n
  BY <1>1, LenProperties
<1>3. Len(s) = n
  BY <1>2
<1>. QED
  BY <1>1, <1>3

(* Vec::resize keeps the bytes that fit, and clears the others.            *)
LEMMA ResizedProperties ==
  ASSUME NEW s \in Seq(Bytes), NEW n \in Nat
  PROVE  /\ Resized(s, n) \in Seq(Bytes)
         /\ Len(Resized(s, n)) = n
         /\ \A i \in 1 .. n : Resized(s, n)[i] = IF i <= Len(s) THEN s[i] ELSE Zero
<1>1. Len(s) \in Nat /\ s \in [1 .. Len(s) -> Bytes]
  BY LenProperties
<1>2. Resized(s, n) \in [1 .. n -> Bytes]
  <2>1. Zero \in Bytes
    BY DEF Bytes
  <2>. QED
    BY <1>1, <2>1 DEF Resized
<1>. QED
  BY <1>2, ArrayIsSeq DEF Resized

LEMMA CopiedProperties ==
  ASSUME NEW s \in Seq(Bytes), NEW at \in Int, NEW bytes \in Seq(Bytes)
  PROVE  /\ Copied(s, at, bytes) \in [1 .. Len(s) -> Bytes]
         /\ Copied(s, at, bytes) \in Seq(Bytes)
         /\ Len(Copied(s, at, bytes)) = Len(s)
         /\ \A i \in 1 .. Len(s) :
              Copied(s, at, bytes)[i] =
                IF i - at \in 1 .. Len(bytes) THEN bytes[i - at] ELSE s[i]
<1>1. /\ Len(s) \in Nat /\ s \in [1 .. Len(s) -> Bytes]
      /\ Len(bytes) \in Nat /\ bytes \in [1 .. Len(bytes) -> Bytes]
  BY LenProperties
<1>2. Copied(s, at, bytes) \in [1 .. Len(s) -> Bytes]
  BY <1>1 DEF Copied
<1>. QED
  BY <1>1, <1>2, ArrayIsSeq DEF Copied

LEMMA BytesOfProperties ==
  ASSUME NEW object \in {"segment", "header", "name", "aux", "args"}, NEW k \in Nat, NEW n \in Nat
  PROVE  /\ BytesOf(<<object, k>>, n) \in Seq(Bytes)
         /\ Len(BytesOf(<<object, k>>, n)) = n
         /\ \A i \in 1 .. n : BytesOf(<<object, k>>, n)[i] = ByteOf(<<object, k>>, i - 1)
<1>1. BytesOf(<<object, k>>, n) \in [1 .. n -> Bytes]
  <2>1. \A i \in 1 .. n : ByteOf(<<object, k>>, i - 1) \in Bytes
    <3>1. \A i \in 1 .. n : i - 1 \in Nat
      OBVIOUS
    <3>. QED
      BY <3>1 DEF Bytes
  <2>. QED
    BY <2>1 DEF BytesOf
<1>. QED
  BY <1>1, ArrayIsSeq DEF BytesOf

-----------------------------------------------------------------------------
(* The layout                                                              *)

LEMMA Layout ==
  ASSUME LoaderType
  PROVE  /\ StackStart \in Nat /\ StackSize \in Nat /\ AddressMod \in Nat
         /\ AddressMod = StackStart + StackSize
         /\ Len(headers) \in Nat /\ name_length \in Nat /\ name_length >= 1
         /\ HeaderSize * Len(headers) + name_length + 95 <= StackSize
         /\ \A k \in 1 .. Len(headers) : headers[k] \in ProgramHeader
<1>1. headers \in Seq(ProgramHeader) /\ name_length \in Nat \ {0}
  BY DEF LoaderType, Loadable
<1>2. Len(headers) \in Nat /\ \A k \in 1 .. Len(headers) : headers[k] \in ProgramHeader
  BY <1>1, LenProperties, ElementOfSeq
<1>3. HeaderSize * Len(headers) + name_length + AuxSize + ArgsSize + 15 <= StackSize
  BY DEF LoaderType, Loadable
<1>. QED
  BY <1>1, <1>2, <1>3, SpaceAssumption DEF StackStart, AuxSize, ArgsSize, HeaderSize

LEMMA SegmentLayout ==
  ASSUME LoaderType, NEW k \in LoadHeaders
  PROVE  /\ k \in 1 .. Len(headers) /\ headers[k].load
         /\ headers[k].vaddr \in Nat /\ headers[k].filesz \in Nat /\ headers[k].memsz \in Nat
         /\ headers[k].write \in BOOLEAN
         /\ VmEnd(headers[k]) = headers[k].vaddr + headers[k].memsz
         /\ VmEnd(headers[k]) <= StackStart
         /\ \A j \in LoadHeaders : j < k => VmEnd(headers[j]) <= headers[k].vaddr
<1>1. k \in 1 .. Len(headers) /\ headers[k].load /\ headers[k] \in ProgramHeader
  BY Layout DEF LoadHeaders
<1>2. /\ VmEnd(headers[k]) <= StackStart
      /\ \A j \in 1 .. k - 1 : headers[j].load => VmEnd(headers[j]) <= headers[k].vaddr
  BY <1>1 DEF LoaderType, Loadable
<1>3. \A j \in LoadHeaders : j < k => j \in 1 .. k - 1 /\ headers[j].load
  BY <1>1, Layout DEF LoadHeaders
<1>. QED
  BY <1>1, <1>2, <1>3 DEF ProgramHeader, VmEnd

-----------------------------------------------------------------------------
(* The segments                                                            *)

LEMMA InitHolds == Init => LoaderInv
<1>. SUFFICES ASSUME Init PROVE LoaderInv
  OBVIOUS
<1>1. Loadable(headers, name_length)
  BY InputAssumption DEF Init
<1>2. StackStart \in Nat /\ StackSize \in Nat
  BY SpaceAssumption DEF StackStart
<1>3. /\ memory.v_end = 0 /\ memory.read_only = <<0, 0>>
      /\ memory.data = <<>> /\ Len(memory.data) = 0
      /\ memory \in Memory
  <2>1. memory = [v_end |-> 0, read_only |-> <<0, 0>>, data |-> <<>>,
                  stack |-> [i \in 1 .. StackSize |-> Zero]]
    BY DEF Init, EmptyMemory
  <2>2. [i \in 1 .. StackSize |-> Zero] \in [1 .. StackSize -> Bytes] /\ <<>> \in Seq(Bytes)
    BY EmptySeq DEF Bytes
  <2>3. 0 \in 0 .. StackStart /\ <<0, 0>> \in Nat \X Nat
    BY <1>2
  <2>. QED
    BY <2>1, <2>2, <2>3, EmptySeq DEF Memory
<1>4. headers \in Seq(ProgramHeader) /\ Len(headers) \in Nat
  BY <1>1, LenProperties DEF Loadable
<1>5. LoaderType
  BY <1>1, <1>3, <1>4 DEF LoaderType, Init
<1>6. SegmentsLoaded
  BY <1>3, <1>4, <1>5, SegmentLayout DEF SegmentsLoaded, Folded, Init, LoadHeaders
<1>7. ReadOnlyRange
  BY <1>3, <1>4 DEF ReadOnlyRange, ReadOnly, Folded, Init, LoadHeaders
<1>8. StackPushed
  BY DEF StackPushed, Init
<1>. QED
  BY <1>5, <1>6, <1>7, <1>8 DEF LoaderInv

LEMMA PaddedProperties ==
  ASSUME NEW m, NEW header, NEW vaddr \in Nat, header.vaddr = vaddr,
         m.data \in Seq(Bytes), m.v_end \in Nat, Len(m.data) = m.v_end, m.v_end <= vaddr
  PROVE  /\ Padded(m, header) \in Seq(Bytes) /\ Len(Padded(m, header)) = vaddr
         /\ \A i \in 1 .. m.v_end : Padded(m, header)[i] = m.data[i]
<1>. DEFINE data == m.data
<1>1. Len(data) + vaddr - m.v_end = vaddr
  OBVIOUS
<1>2. CASE m.v_end = vaddr /\ m.v_end # 0
  BY <1>2 DEF Padded
<1>3. CASE ~(m.v_end = vaddr /\ m.v_end # 0)
  <2>1. m.v_end = 0 \/ m.v_end < vaddr
    BY <1>3
  <2>2. Padded(m, header) = Resized(data, vaddr)
    BY <1>1, <2>1 DEF Padded
  <2>3. data \in Seq(Bytes) /\ Len(data) = m.v_end
    OBVIOUS
  <2>. HIDE DEF data
  <2>4. /\ Resized(data, vaddr) \in Seq(Bytes)
        /\ Len(Resized(data, vaddr)) = vaddr
        /\ \A i \in 1 .. vaddr : Resized(data, vaddr)[i] = IF i <= Len(data) THEN data[i] ELSE Zero
    BY <2>3, ResizedProperties
  <2>5. \A i \in 1 .. m.v_end : Resized(data, vaddr)[i] = data[i]
    BY <2>3, <2>4
  <2>. QED
    BY <2>2, <2>4, <2>5 DEF data
<1>. QED
  BY <1>2, <1>3

(* The data vector once a segment is appended to the bytes before it.      *)
Appended(before, k, memsz, filesz) ==
  Copied(Resized(before, Len(before) + memsz), Len(before), BytesOf(Segment(k), filesz))

LEMMA SegmentIsCopied ==
  ASSUME NEW before \in Seq(Bytes), NEW k \in Nat, NEW memsz \in Nat, NEW filesz \in 0 .. memsz
  PROVE  /\ Appended(before, k, memsz, filesz) \in Seq(Bytes)
         /\ Len(Appended(before, k, memsz, filesz)) = Len(before) + memsz
         /\ \A i \in 1 .. Len(before) : Appended(before, k, memsz, filesz)[i] = before[i]
         /\ \A i \in 0 .. memsz - 1 :
              Appended(before, k, memsz, filesz)[Len(before) + i + 1]
                = IF i < filesz THEN ByteOf(Segment(k), i) ELSE Zero
<1>. DEFINE vaddr  == Len(before)
            data   == Appended(before, k, memsz, filesz)
            longer == Resized(before, vaddr + memsz)
            bytes  == BytesOf(<<"segment", k>>, filesz)
<1>0. vaddr \in Nat
  BY LenProperties
<1>1. /\ longer \in Seq(Bytes) /\ Len(longer) = vaddr + memsz
      /\ \A i \in 1 .. vaddr + memsz : longer[i] = IF i <= vaddr THEN before[i] ELSE Zero
  <2>1. vaddr + memsz \in Nat
    BY <1>0
  <2>. QED
    BY <2>1, ResizedProperties
<1>2. /\ bytes \in Seq(Bytes) /\ Len(bytes) = filesz
      /\ \A i \in 1 .. filesz : bytes[i] = ByteOf(Segment(k), i - 1)
  <2>1. filesz \in Nat
    OBVIOUS
  <2>. QED
    BY <2>1, BytesOfProperties DEF Segment
<1>3. data = Copied(longer, vaddr, bytes)
  BY DEF Segment, Appended
<1>. HIDE DEF vaddr, data, longer, bytes
<1>4. /\ data \in Seq(Bytes) /\ Len(data) = vaddr + memsz
      /\ \A i \in 1 .. vaddr + memsz :
           data[i] = IF i - vaddr \in 1 .. filesz THEN bytes[i - vaddr] ELSE longer[i]
  <2>1. vaddr \in Int /\ longer \in Seq(Bytes) /\ bytes \in Seq(Bytes)
    BY <1>0, <1>1, <1>2
  <2>2. /\ Copied(longer, vaddr, bytes) \in Seq(Bytes)
        /\ Len(Copied(longer, vaddr, bytes)) = Len(longer)
        /\ \A i \in 1 .. Len(longer) :
             Copied(longer, vaddr, bytes)[i] =
               IF i - vaddr \in 1 .. Len(bytes) THEN bytes[i - vaddr] ELSE longer[i]
    BY <2>1, CopiedProperties
  <2>. QED
    BY <1>1, <1>2, <1>3, <2>2
<1>5. \A i \in 1 .. vaddr : data[i] = before[i]
  BY <1>0, <1>1, <1>4
<1>6. ASSUME NEW i \in 0 .. memsz - 1
      PROVE  data[vaddr + i + 1] = IF i < filesz THEN ByteOf(Segment(k), i) ELSE Zero
  <2>1. /\ vaddr + i + 1 \in 1 .. vaddr + memsz /\ (vaddr + i + 1) - vaddr = i + 1
        /\ ~(vaddr + i + 1 <= vaddr)
    BY <1>0
  <2>2. CASE i < filesz
    <3>1. i + 1 \in 1 .. filesz /\ (i + 1) - 1 = i
      BY <2>2
    <3>. QED
      BY <1>2, <1>4, <2>1, <2>2, <3>1
  <2>3. CASE ~(i < filesz)
    <3>1. i + 1 \notin 1 .. filesz
      BY <2>3
    <3>. QED
      BY <1>1, <1>4, <2>1, <2>3, <3>1
  <2>. QED
    BY <2>2, <2>3
<1>. QED
  BY <1>4, <1>5, <1>6 DEF data, vaddr

(* The data vector after a round of the fold.                              *)
SegmentData(k) ==
  Appended(Padded(memory, headers[k]), k, headers[k].memsz, headers[k].filesz)

LEMMA WithSegmentFields ==
  ASSUME NEW k, memory \in Memory
  PROVE  LET m == WithSegment(memory, k) IN
         /\ m.read_only = ReadOnlyWith(memory.read_only, headers[k])
         /\ m.v_end = VmEnd(headers[k])
         /\ m.data = SegmentData(k)
         /\ m.stack = memory.stack
         /\ m = [memory EXCEPT !.read_only = ReadOnlyWith(memory.read_only, headers[k]),
                               !.v_end = VmEnd(headers[k]), !.data = SegmentData(k)]
<1>. DEFINE r == ReadOnlyWith(memory.read_only, headers[k])
            v == VmEnd(headers[k])
            d == SegmentData(k)
            m == WithSegment(memory, k)
<1>1. m = [memory EXCEPT !.read_only = r, !.v_end = v, !.data = d]
  BY DEF WithSegment, SegmentData, Appended
<1>. HIDE DEF r, v, d, m
<1>2. m.read_only = r /\ m.v_end = v /\ m.data = d /\ m.stack = memory.stack
  BY <1>1 DEF Memory
<1>. QED
  BY <1>1, <1>2, Zenon DEF r, v, d, m

(* One round of the fold: what was loaded stays, the gap is filled, the    *)
(* segment starts at its address.                                          *)
LEMMA SegmentIsAppended ==
  ASSUME LoaderInv, stage = "load", NEW k \in LoadHeaders, done \in 0 .. k - 1,
         headers[k].filesz \in 0 .. headers[k].memsz
  PROVE  /\ SegmentData(k) \in Seq(Bytes) /\ Len(SegmentData(k)) = VmEnd(headers[k])
         /\ memory.v_end \in Nat /\ memory.v_end <= headers[k].vaddr
         /\ \A i \in 1 .. memory.v_end : SegmentData(k)[i] = memory.data[i]
         /\ \A i \in 0 .. headers[k].memsz - 1 :
              SegmentData(k)[headers[k].vaddr + i + 1]
                = IF i < headers[k].filesz THEN ByteOf(Segment(k), i) ELSE Zero
<1>1. /\ headers[k].vaddr \in Nat /\ headers[k].memsz \in Nat /\ headers[k].filesz \in Nat
      /\ k \in Nat /\ VmEnd(headers[k]) = headers[k].vaddr + headers[k].memsz
  BY SegmentLayout, Layout DEF LoaderInv
<1>2. /\ memory.data \in Seq(Bytes) /\ memory.v_end \in Nat
      /\ Len(memory.data) = memory.v_end /\ memory.v_end <= headers[k].vaddr
  <2>1. memory.data \in Seq(Bytes) /\ memory.v_end \in Nat
    BY Layout DEF LoaderInv, LoaderType, Memory
  <2>2. done \in Nat /\ k \in Nat /\ Folded = done
    BY <1>1, Layout DEF LoaderInv, LoaderType, Folded
  <2>. QED
    BY <2>1, <2>2 DEF LoaderInv, SegmentsLoaded
<1>. DEFINE padded == Padded(memory, headers[k])
            data   == Appended(padded, k, headers[k].memsz, headers[k].filesz)
<1>3. /\ padded \in Seq(Bytes) /\ Len(padded) = headers[k].vaddr
      /\ \A i \in 1 .. memory.v_end : padded[i] = memory.data[i]
  BY <1>1, <1>2, PaddedProperties
<1>4. data = SegmentData(k)
  BY DEF SegmentData
<1>. HIDE DEF padded
<1>5. /\ data \in Seq(Bytes) /\ Len(data) = headers[k].vaddr + headers[k].memsz
      /\ \A i \in 1 .. headers[k].vaddr : data[i] = padded[i]
      /\ \A i \in 0 .. headers[k].memsz - 1 :
           data[headers[k].vaddr + i + 1]
             = IF i < headers[k].filesz THEN ByteOf(Segment(k), i) ELSE Zero
  <2>. DEFINE memsz  == headers[k].memsz
              filesz == headers[k].filesz
  <2>1. k \in Nat /\ padded \in Seq(Bytes) /\ memsz \in Nat /\ filesz \in 0 .. memsz
    BY <1>1, <1>3
  <2>. HIDE DEF memsz, filesz
  <2>2. /\ Appended(padded, k, memsz, filesz) \in Seq(Bytes)
        /\ Len(Appended(padded, k, memsz, filesz)) = Len(padded) + memsz
        /\ \A i \in 1 .. Len(padded) : Appended(padded, k, memsz, filesz)[i] = padded[i]
        /\ \A i \in 0 .. memsz - 1 :
             Appended(padded, k, memsz, filesz)[Len(padded) + i + 1]
               = IF i < filesz THEN ByteOf(Segment(k), i) ELSE Zero
    BY <2>1, SegmentIsCopied
  <2>. QED
    BY <1>3, <2>2 DEF memsz, filesz
<1>. HIDE DEF data
<1>6. \A i \in 1 .. memory.v_end : data[i] = memory.data[i]
  <2>1. \A i \in 1 .. memory.v_end : i \in 1 .. headers[k].vaddr
    BY <1>1, <1>2
  <2>. QED
    BY <1>3, <1>5, <2>1
<1>. QED
  BY <1>1, <1>2, <1>4, <1>5, <1>6
LEMMA ReadOnlyWithType ==
  ASSUME NEW range \in Nat \X Nat, NEW header, header.vaddr \in Nat, VmEnd(header) \in Nat,
         header.write \in BOOLEAN
  PROVE  /\ ReadOnlyWith(range, header) \in Nat \X Nat
         /\ header.write => ReadOnlyWith(range, header) = range
         /\ (~header.write /\ range[1] = range[2]) =>
              /\ ReadOnlyWith(range, header)[1] = header.vaddr
              /\ ReadOnlyWith(range, header)[2] = VmEnd(header)
         /\ (~header.write /\ range[1] # range[2]) =>
              /\ ReadOnlyWith(range, header)[1] = range[1]
              /\ ReadOnlyWith(range, header)[2] = VmEnd(header)
BY DEF ReadOnlyWith

(* A segment that is folded ends at or below the end of the data so far.   *)
LEMMA SegmentIsFolded ==
  ASSUME LoaderInv, stage = "load", NEW k \in LoadHeaders, done \in Nat, k \in Nat, done = k - 1,
         headers[k].filesz \in 0 .. headers[k].memsz,
         memory' = WithSegment(memory, k), done' = k,
         UNCHANGED <<headers, name_length, sp, addrs, stage>>
  PROVE  LoaderInv'
<1>1. /\ headers[k].vaddr \in Nat /\ headers[k].memsz \in Nat /\ headers[k].filesz \in Nat
      /\ headers[k].write \in BOOLEAN
      /\ k \in 1 .. Len(headers) /\ VmEnd(headers[k]) = headers[k].vaddr + headers[k].memsz
      /\ VmEnd(headers[k]) \in Nat /\ VmEnd(headers[k]) \in 0 .. StackStart /\ Len(headers) \in Nat
  <2>1. LoaderType
    BY DEF LoaderInv
  <2>2. /\ k \in 1 .. Len(headers) /\ headers[k].load
        /\ headers[k].vaddr \in Nat /\ headers[k].filesz \in Nat /\ headers[k].memsz \in Nat
        /\ headers[k].write \in BOOLEAN
        /\ VmEnd(headers[k]) = headers[k].vaddr + headers[k].memsz
        /\ VmEnd(headers[k]) <= StackStart
    BY <2>1, SegmentLayout
  <2>3. StackStart \in Nat /\ Len(headers) \in Nat
    BY <2>1, Layout
  <2>. QED
    BY <2>2, <2>3
<1>2. done \in 0 .. k - 1 /\ done \in Nat
  BY <1>1
<1>3. /\ SegmentData(k) \in Seq(Bytes) /\ Len(SegmentData(k)) = VmEnd(headers[k])
      /\ memory.v_end \in Nat /\ memory.v_end <= headers[k].vaddr
      /\ \A i \in 1 .. memory.v_end : SegmentData(k)[i] = memory.data[i]
      /\ \A i \in 0 .. headers[k].memsz - 1 :
           SegmentData(k)[headers[k].vaddr + i + 1]
             = IF i < headers[k].filesz THEN ByteOf(Segment(k), i) ELSE Zero
  BY <1>2, SegmentIsAppended
<1>4. memory \in Memory /\ memory.read_only \in Nat \X Nat
  BY DEF LoaderInv, LoaderType, Memory
<1>5. /\ memory'.read_only = ReadOnlyWith(memory.read_only, headers[k])
      /\ memory'.v_end = VmEnd(headers[k])
      /\ memory'.data = SegmentData(k)
      /\ memory' = [memory EXCEPT !.read_only = ReadOnlyWith(memory.read_only, headers[k]),
                                  !.v_end = VmEnd(headers[k]), !.data = SegmentData(k)]
  BY <1>4, WithSegmentFields, Zenon
<1>6. LET old == memory.read_only
          new == ReadOnlyWith(old, headers[k])
      IN  /\ new \in Nat \X Nat
          /\ headers[k].write => new = old
          /\ (~headers[k].write /\ old[1] = old[2]) =>
               new[1] = headers[k].vaddr /\ new[2] = VmEnd(headers[k])
          /\ (~headers[k].write /\ old[1] # old[2]) =>
               new[1] = old[1] /\ new[2] = VmEnd(headers[k])
  BY <1>1, <1>4, ReadOnlyWithType
<1>7. LoaderType'
  <2>1. memory' \in Memory
    <3>. DEFINE r == ReadOnlyWith(memory.read_only, headers[k])
                v == VmEnd(headers[k])
                d == SegmentData(k)
    <3>1. r \in Nat \X Nat /\ v \in 0 .. StackStart /\ d \in Seq(Bytes)
      BY <1>1, <1>3, <1>6
    <3>2. memory' = [memory EXCEPT !.read_only = r, !.v_end = v, !.data = d]
      BY <1>5
    <3>. HIDE DEF r, v, d
    <3>. QED
      BY <1>4, <3>1, <3>2 DEF Memory
  <2>2. done' \in 0 .. Len(headers)
    BY <1>1
  <2>. QED
    BY <2>1, <2>2 DEF LoaderInv, LoaderType, Memory
<1>8. Folded = done /\ Folded' = k /\ LoadHeaders' = LoadHeaders
  BY DEF Folded, LoadHeaders
<1>9. ASSUME NEW j \in LoadHeaders, j \in 1 .. done
      PROVE  /\ headers[j].filesz <= headers[j].memsz
             /\ VmEnd(headers[j]) <= memory.v_end
             /\ VmEnd(headers[j]) <= VmEnd(headers[k])
             /\ \A i \in 0 .. headers[j].memsz - 1 :
                  memory'.data[headers[j].vaddr + i + 1]
                    = IF i < headers[j].filesz THEN ByteOf(Segment(j), i) ELSE Zero
  <2>1. /\ headers[j].vaddr \in Nat /\ headers[j].memsz \in Nat
        /\ VmEnd(headers[j]) = headers[j].vaddr + headers[j].memsz
    BY SegmentLayout DEF LoaderInv
  <2>2. /\ headers[j].filesz <= headers[j].memsz
        /\ VmEnd(headers[j]) <= memory.v_end
        /\ \A i \in 0 .. headers[j].memsz - 1 :
             memory.data[headers[j].vaddr + i + 1]
               = IF i < headers[j].filesz THEN ByteOf(Segment(j), i) ELSE Zero
    <3>1. SegmentsLoaded
      BY DEF LoaderInv
    <3>2. j <= Folded
      BY <1>8, <1>9
    <3>. QED
      BY <3>1, <3>2 DEF SegmentsLoaded
  <2>3. \A i \in 0 .. headers[j].memsz - 1 : headers[j].vaddr + i + 1 \in 1 .. memory.v_end
    <3>1. VmEnd(headers[j]) <= memory.v_end /\ memory.v_end \in Nat
      BY <1>3, <2>2
    <3>. QED
      BY <2>1, <3>1
  <2>4. \A i \in 0 .. headers[j].memsz - 1 :
          memory'.data[headers[j].vaddr + i + 1] = memory.data[headers[j].vaddr + i + 1]
    BY <1>3, <1>5, <2>3
  <2>. QED
    <3>1. VmEnd(headers[j]) <= VmEnd(headers[k])
      <4>1. VmEnd(headers[j]) \in Nat
        BY <2>1
      <4>2. VmEnd(headers[j]) <= memory.v_end
        BY <2>2, Zenon
      <4>3. memory.v_end \in Nat /\ memory.v_end <= headers[k].vaddr
        BY <1>3, Zenon
      <4>4. headers[k].vaddr \in Nat /\ headers[k].vaddr <= VmEnd(headers[k])
        BY <1>1
      <4>5. VmEnd(headers[k]) \in Nat
        BY <1>1, Zenon
      <4>. QED
        BY <4>1, <4>2, <4>3, <4>4, <4>5
    <3>2. \A i \in 0 .. headers[j].memsz - 1 :
            memory'.data[headers[j].vaddr + i + 1]
              = IF i < headers[j].filesz THEN ByteOf(Segment(j), i) ELSE Zero
      BY <2>2, <2>4
    <3>. QED
      BY <2>2, <3>1, <3>2
<1>10. \A j \in LoadHeaders : j \in Nat /\ (j \in 1 .. done \/ j = k \/ j > k)
         /\ (j <= done <=> j \in 1 .. done)
  BY <1>1, Layout DEF LoadHeaders, LoaderInv
<1>11. SegmentsLoaded'
  <2>1. Len(memory'.data) = memory'.v_end
    BY <1>3, <1>5
  <2>2. ASSUME NEW j \in LoadHeaders
        PROVE  IF j <= k
                 THEN /\ headers[j].filesz <= headers[j].memsz
                      /\ VmEnd(headers[j]) <= memory'.v_end
                      /\ \A i \in 0 .. headers[j].memsz - 1 :
                           memory'.data[headers[j].vaddr + i + 1]
                             = IF i < headers[j].filesz THEN ByteOf(Segment(j), i) ELSE Zero
                 ELSE memory'.v_end <= headers[j].vaddr
    <3>1. CASE j \in 1 .. done
      <4>1. j <= k
        BY <1>1, <1>10, <3>1
      <4>. QED
        BY <1>5, <1>9, <3>1, <4>1
    <3>2. CASE j = k
      BY <1>1, <1>3, <1>5, <3>2
    <3>3. CASE j > k
      <4>1. VmEnd(headers[k]) <= headers[j].vaddr
        <5>1. LoaderType /\ k < j
          BY <1>10, <3>3 DEF LoaderInv
        <5>. QED
          BY <5>1, SegmentLayout
      <4>2. ~(j <= k)
        BY <1>1, <1>10, <3>3
      <4>. QED
        BY <1>5, <4>1, <4>2
    <3>. QED
      BY <1>10, <3>1, <3>2, <3>3
  <2>. QED
    BY <1>8, <2>1, <2>2 DEF SegmentsLoaded
<1>12. ReadOnlyRange'
  <2>. DEFINE old == memory.read_only
              new == memory'.read_only
              Before(j) == j \in LoadHeaders /\ j <= done /\ ~headers[j].write
              After(j)  == j \in LoadHeaders /\ j <= k /\ ~headers[j].write
  <2>1. /\ old # <<0, 0>> =>
             \E j, l \in LoadHeaders :
               Before(j) /\ Before(l) /\ old[1] = headers[j].vaddr /\ old[2] = VmEnd(headers[l])
        /\ \A j \in LoadHeaders : (Before(j) /\ headers[j].memsz > 0) =>
             old[1] <= headers[j].vaddr /\ VmEnd(headers[j]) <= old[2]
    BY <1>8 DEF LoaderInv, ReadOnlyRange, ReadOnly
  <2>2. \A j \in LoadHeaders : After(j) <=> (Before(j) \/ (j = k /\ ~headers[k].write))
    <3>1. ASSUME NEW j \in LoadHeaders PROVE j <= k <=> (j <= done \/ j = k)
      <4>1. k \in Nat /\ done = k - 1
        BY <1>1
      <4>2. j \in Nat
        BY <1>10
      <4>. QED
        BY <4>1, <4>2
    <3>. QED
      BY <3>1, Zenon
  <2>3. /\ headers[k].write => new = old
        /\ (~headers[k].write /\ old[1] = old[2]) =>
             new[1] = headers[k].vaddr /\ new[2] = VmEnd(headers[k])
        /\ (~headers[k].write /\ old[1] # old[2]) =>
             new[1] = old[1] /\ new[2] = VmEnd(headers[k])
    BY <1>5, <1>6
  <2>4. /\ old[1] \in Nat /\ old[2] \in Nat
        /\ old[1] # old[2] => old # <<0, 0>>
    BY <1>4
  <2>5. new # <<0, 0>> =>
          \E j, l \in LoadHeaders :
            After(j) /\ After(l) /\ new[1] = headers[j].vaddr /\ new[2] = VmEnd(headers[l])
    <3>1. CASE headers[k].write
      BY <2>1, <2>2, <2>3, <3>1
    <3>2. CASE ~headers[k].write /\ old[1] = old[2]
      BY <2>2, <2>3, <3>2
    <3>3. CASE ~headers[k].write /\ old[1] # old[2]
      <4>1. PICK j \in LoadHeaders : Before(j) /\ old[1] = headers[j].vaddr
        BY <2>1, <2>4, <3>3
      <4>. QED
        BY <2>2, <2>3, <3>3, <4>1
    <3>. QED
      BY <1>1, <3>1, <3>2, <3>3
  <2>6. ASSUME NEW j \in LoadHeaders, After(j), headers[j].memsz > 0
        PROVE  new[1] <= headers[j].vaddr /\ VmEnd(headers[j]) <= new[2]
    <3>0. /\ headers[j].vaddr \in Nat /\ headers[j].memsz \in Nat
          /\ VmEnd(headers[j]) = headers[j].vaddr + headers[j].memsz
      BY SegmentLayout DEF LoaderInv
    <3>1. CASE Before(j)
      <4>1. old[1] <= headers[j].vaddr /\ VmEnd(headers[j]) <= old[2]
        BY <2>1, <2>6, <3>1
      <4>2. old[1] # old[2]
        BY <2>4, <2>6, <3>0, <4>1
      <4>3. VmEnd(headers[j]) <= VmEnd(headers[k])
        BY <1>9, <1>10, <3>1
      <4>. QED
        BY <2>3, <4>1, <4>2, <4>3
    <3>2. CASE j = k /\ ~headers[k].write
      <4>1. new[2] = VmEnd(headers[k]) /\ (new[1] = headers[k].vaddr \/ new[1] = old[1])
        BY <2>3, <3>2
      <4>2. CASE old[1] = old[2]
        BY <1>1, <2>3, <3>2, <4>2
      <4>3. CASE old[1] # old[2]
        <5>1. PICK l \in LoadHeaders : Before(l) /\ old[1] = headers[l].vaddr
          BY <2>1, <2>4, <4>3
        <5>2. headers[l].vaddr <= VmEnd(headers[l]) /\ headers[l].vaddr \in Nat
              /\ VmEnd(headers[l]) \in Nat
          BY SegmentLayout DEF LoaderInv
        <5>3. VmEnd(headers[l]) <= memory.v_end
          BY <1>9, <1>10, <5>1
        <5>4. old[1] <= headers[k].vaddr
          BY <1>1, <1>3, <5>1, <5>2, <5>3
        <5>. QED
          BY <1>1, <2>3, <3>2, <4>3, <5>4
      <4>. QED
        BY <4>2, <4>3
    <3>. QED
      BY <2>2, <2>6, <3>1, <3>2
  <2>. QED
    BY <1>8, <2>5, <2>6 DEF ReadOnlyRange, ReadOnly
<1>13. StackPushed'
  BY DEF LoaderInv, StackPushed
<1>. QED
  BY <1>7, <1>11, <1>12, <1>13 DEF LoaderInv

LEMMA LoadSegmentHolds == LoaderInv /\ LoadSegment => LoaderInv'
<1>. SUFFICES ASSUME LoaderInv, LoadSegment PROVE LoaderInv'
  OBVIOUS
<1>1. done \in Nat /\ Len(headers) \in Nat /\ done < Len(headers)
  BY Layout DEF LoaderInv, LoaderType, LoadSegment
<1>2. CASE headers[done + 1].load
  <2>. DEFINE k == done + 1
  <2>1. k \in LoadHeaders
    BY <1>1, <1>2 DEF LoadHeaders
  <2>2. headers[k].filesz \in Nat /\ headers[k].memsz \in Nat
    BY <2>1, SegmentLayout DEF LoaderInv
  <2>3. done \in Nat /\ k \in Nat /\ done = k - 1 /\ done' = k /\ headers[k].filesz \in 0 .. headers[k].memsz
    BY <1>1, <1>2, <2>2 DEF LoadSegment
  <2>4. stage = "load" /\ memory' = WithSegment(memory, k)
        /\ UNCHANGED <<headers, name_length, sp, addrs, stage>>
    BY <1>2 DEF LoadSegment
  <2>. HIDE DEF k
  <2>. QED
    BY <2>1, <2>3, <2>4, SegmentIsFolded
<1>3. CASE ~headers[done + 1].load
  <2>1. stage = "load" /\ UNCHANGED <<memory, headers, name_length, sp, addrs, stage>>
        /\ done' = done + 1
    BY <1>3 DEF LoadSegment
  <2>2. LoadHeaders' = LoadHeaders /\ Folded = done /\ Folded' = done + 1
    BY <2>1 DEF LoadHeaders, Folded
  <2>3. \A k \in LoadHeaders : k \in Nat /\ k # done + 1
    BY <1>1, <1>3 DEF LoadHeaders
  <2>4. \A k \in LoadHeaders : k <= done + 1 <=> k <= done
    BY <1>1, <2>3
  <2>5. LoaderType'
    BY <1>1, <2>1 DEF LoaderInv, LoaderType, Memory
  <2>6. SegmentsLoaded'
    BY <2>1, <2>2, <2>4 DEF LoaderInv, SegmentsLoaded
  <2>7. ReadOnlyRange'
    BY <2>1, <2>2, <2>4 DEF LoaderInv, ReadOnlyRange, ReadOnly
  <2>8. StackPushed'
    BY <2>1 DEF LoaderInv, StackPushed
  <2>. QED
    BY <2>5, <2>6, <2>7, <2>8 DEF LoaderInv
<1>. QED
  BY <1>2, <1>3

LEMMA LoadPanicsHolds == LoaderInv /\ LoadPanics => LoaderInv'
<1>. SUFFICES ASSUME LoaderInv, LoadPanics PROVE LoaderInv'
  OBVIOUS
<1>1. /\ UNCHANGED <<headers, name_length, memory, sp, addrs, done>>
      /\ stage = "load" /\ stage' = "panicked"
  BY DEF LoadPanics
<1>2. LoadHeaders' = LoadHeaders /\ Folded' = Folded
  BY <1>1 DEF LoadHeaders, Folded
<1>3. LoaderType'
  BY <1>1 DEF LoaderInv, LoaderType, Memory
<1>4. SegmentsLoaded' /\ ReadOnlyRange'
  BY <1>1, <1>2 DEF LoaderInv, SegmentsLoaded, ReadOnlyRange, ReadOnly
<1>5. StackPushed'
  BY <1>1 DEF LoaderInv, StackPushed
<1>. QED
  BY <1>3, <1>4, <1>5 DEF LoaderInv

LEMMA LoadedHolds == LoaderInv /\ Loaded => LoaderInv'
<1>. SUFFICES ASSUME LoaderInv, Loaded PROVE LoaderInv'
  OBVIOUS
<1>1. /\ UNCHANGED <<headers, name_length, memory, sp, addrs>>
      /\ stage = "load" /\ stage' = "push_headers" /\ done = Len(headers) /\ done' = 0
  BY DEF Loaded
<1>2. LoadHeaders' = LoadHeaders /\ Folded' = Folded
  BY <1>1 DEF LoadHeaders, Folded
<1>3. LoaderType'
  <2>1. done' \in 0 .. Len(headers)
    BY <1>1, Layout DEF LoaderInv
  <2>. QED
    BY <1>1, <2>1 DEF LoaderInv, LoaderType, Memory
<1>4. SegmentsLoaded' /\ ReadOnlyRange'
  BY <1>1, <1>2 DEF LoaderInv, SegmentsLoaded, ReadOnlyRange, ReadOnly
<1>5. StackPushed'
  BY <1>1 DEF LoaderInv, StackPushed
<1>. QED
  BY <1>3, <1>4, <1>5 DEF LoaderInv

-----------------------------------------------------------------------------
(* The stack                                                               *)

(* wrapping_sub, from the top of the address space and from below it.      *)
LEMMA BelowProperties ==
  ASSUME NEW addr \in Nat, NEW n \in 1 .. AddressMod, addr \in 0 .. AddressMod - 1
  PROVE  /\ addr = 0 => Below(addr, n) = AddressMod - n
         /\ n <= addr => Below(addr, n) = addr - n
<1>1. AddressMod \in Nat
  BY SpaceAssumption
<1>2. CASE n <= addr
  <2>1. addr - n \in 0 .. AddressMod - 1
    BY <1>1, <1>2
  <2>. QED
    BY <1>1, <1>2, <2>1 DEF Below
<1>3. CASE addr = 0 /\ n < AddressMod
  BY <1>1, <1>3 DEF Below
<1>4. CASE addr = 0 /\ n = AddressMod
  BY <1>1, <1>4 DEF Below
<1>. QED
  BY <1>1, <1>2, <1>3, <1>4

(* No read-only segment reaches the stack: every write that fits succeeds. *)
LEMMA StackTakesWrites ==
  ASSUME LoaderInv, NEW addr \in Nat, NEW n \in Nat, addr \in StackStart .. AddressMod - n
  PROVE  Writes(memory, addr, n)
<1>1. StackStart \in Nat /\ StackSize \in Nat /\ AddressMod = StackStart + StackSize
  BY Layout DEF LoaderInv
<1>2. /\ memory.stack \in [1 .. StackSize -> Bytes]
      /\ memory.read_only \in Nat \X Nat
  BY DEF LoaderInv, LoaderType, Memory
<1>3. Len(memory.stack) = StackSize
  BY <1>1, <1>2, ArrayIsSeq
<1>4. memory.read_only[2] <= StackStart
  <2>1. CASE memory.read_only = <<0, 0>>
    BY <1>1, <2>1
  <2>2. CASE memory.read_only # <<0, 0>>
    <3>1. PICK l \in LoadHeaders : memory.read_only[2] = VmEnd(headers[l])
      BY <2>2 DEF LoaderInv, ReadOnlyRange
    <3>. QED
      BY <3>1, SegmentLayout DEF LoaderInv
  <2>. QED
    BY <2>1, <2>2
<1>5. Writable(memory, addr)
  BY <1>1, <1>2, <1>4 DEF Writable
<1>6. Reads(memory, addr, n)
  BY <1>1, <1>3 DEF Reads, InSpace, Slices, Offset, Buffer, InData
<1>. QED
  BY <1>5, <1>6 DEF Writes

(* w is m with n bytes of the object at addr; a push leaves the data       *)
(* alone, and what is above it on the stack.                               *)
IsPushed(m, w, addr, object, n) ==
  /\ w \in Memory
  /\ w.v_end = m.v_end /\ w.read_only = m.read_only /\ w.data = m.data
  /\ OnStack(w, addr, object, n)
  /\ \A other : \A a, len \in Nat :
       (OnStack(m, a, other, len) /\ addr + n <= a) => OnStack(w, a, other, len)

LEMMA PushedProperties ==
  ASSUME NEW m \in Memory, NEW object \in {"header", "name", "aux", "args"}, NEW k \in Nat,
         NEW addr \in Nat, NEW n \in Nat, addr \in StackStart .. AddressMod - n
  PROVE  IsPushed(m, WriteSlice(m, addr, BytesOf(<<object, k>>, n)), addr, <<object, k>>, n)
<1>0. /\ BytesOf(<<object, k>>, n) \in Seq(Bytes) /\ Len(BytesOf(<<object, k>>, n)) = n
      /\ \A i \in 1 .. n : BytesOf(<<object, k>>, n)[i] = ByteOf(<<object, k>>, i - 1)
  <2>1. object \in {"segment", "header", "name", "aux", "args"}
    OBVIOUS
  <2>2. BytesOf(<<object, k>>, n) \in Seq(Bytes) /\ Len(BytesOf(<<object, k>>, n)) = n
    BY <2>1, BytesOfProperties
  <2>3. \A i \in 1 .. n : BytesOf(<<object, k>>, n)[i] = ByteOf(<<object, k>>, i - 1)
    BY <2>1, BytesOfProperties
  <2>. QED
    BY <2>2, <2>3
<1>. DEFINE bytes == BytesOf(<<object, k>>, n)
            at    == addr - StackStart
            stack == Copied(m.stack, at, bytes)
            w     == WriteSlice(m, addr, bytes)
<1>1. StackStart \in Nat /\ StackSize \in Nat /\ AddressMod = StackStart + StackSize
  BY SpaceAssumption DEF StackStart
<1>2. m.stack \in Seq(Bytes) /\ Len(m.stack) = StackSize
  BY <1>1, ArrayIsSeq DEF Memory
<1>3. /\ bytes \in Seq(Bytes) /\ Len(bytes) = n
      /\ \A i \in 1 .. n : bytes[i] = ByteOf(<<object, k>>, i - 1)
  BY <1>0
<1>4. at \in Int /\ at \in 0 .. StackSize - n
  BY <1>1
<1>5. w = [m EXCEPT !.stack = stack]
  <2>1. ~InData(m, addr) /\ Offset(addr) = at
    BY <1>1 DEF InData, Offset
  <2>. QED
    BY <2>1 DEF WriteSlice
<1>. HIDE DEF bytes, w
<1>6. /\ stack \in [1 .. StackSize -> Bytes]
      /\ \A i \in 1 .. StackSize :
           stack[i] = IF i - at \in 1 .. n THEN bytes[i - at] ELSE m.stack[i]
  <2>. HIDE DEF at
  <2>1. /\ Copied(m.stack, at, bytes) \in [1 .. Len(m.stack) -> Bytes]
        /\ \A i \in 1 .. Len(m.stack) :
             Copied(m.stack, at, bytes)[i] =
               IF i - at \in 1 .. Len(bytes) THEN bytes[i - at] ELSE m.stack[i]
    BY <1>2, <1>3, <1>4, CopiedProperties
  <2>. QED
    BY <1>2, <1>3, <2>1
<1>. HIDE DEF stack, at
<1>7. /\ w \in Memory /\ w.stack = stack
      /\ w.v_end = m.v_end /\ w.read_only = m.read_only /\ w.data = m.data
  BY <1>5, <1>6 DEF Memory
<1>8. OnStack(w, addr, <<object, k>>, n)
  <2>1. ASSUME NEW i \in 0 .. n - 1
        PROVE  w.stack[addr - StackStart + i + 1] = ByteOf(<<object, k>>, i)
    <3>1. /\ addr - StackStart + i + 1 = at + i + 1 /\ (at + i + 1) - at = i + 1
          /\ at + i + 1 \in 1 .. StackSize /\ i + 1 \in 1 .. n /\ (i + 1) - 1 = i
      BY <1>1, <1>4 DEF at
    <3>2. stack[at + i + 1] = bytes[i + 1]
      BY <1>6, <3>1
    <3>. QED
      BY <1>3, <1>7, <3>1, <3>2
  <2>2. StackStart <= addr /\ addr + n <= AddressMod
    BY <1>1
  <2>. QED
    BY <2>1, <2>2 DEF OnStack
<1>9. ASSUME NEW other, NEW a \in Nat, NEW len \in Nat, OnStack(m, a, other, len), addr + n <= a
      PROVE  OnStack(w, a, other, len)
  <2>1. ASSUME NEW i \in 0 .. len - 1
        PROVE  w.stack[a - StackStart + i + 1] = m.stack[a - StackStart + i + 1]
    <3>1. a - StackStart + i + 1 \in 1 .. StackSize /\ (a - StackStart + i + 1) - at \notin 1 .. n
      <4>1. StackStart <= a /\ a + len <= AddressMod
        BY <1>9 DEF OnStack
      <4>. QED
        BY <1>1, <1>9, <4>1 DEF at
    <3>. QED
      BY <1>6, <1>7, <3>1
  <2>. QED
    BY <1>9, <2>1 DEF OnStack
<1>. QED
  BY <1>7, <1>8, <1>9 DEF w, bytes, IsPushed

(* The pushes leave what the segments promise as it is.                    *)
LEMMA SegmentsAreKept ==
  ASSUME SegmentsLoaded, ReadOnlyRange, UNCHANGED headers, Folded' = Folded,
         memory'.v_end = memory.v_end, memory'.read_only = memory.read_only,
         memory'.data = memory.data
  PROVE  SegmentsLoaded' /\ ReadOnlyRange'
<1>1. LoadHeaders' = LoadHeaders
  BY DEF LoadHeaders
<1>. QED
  BY <1>1 DEF SegmentsLoaded, ReadOnlyRange, ReadOnly

LEMMA PushHeaderHolds == LoaderInv /\ PushHeader => LoaderInv'
<1>. SUFFICES ASSUME LoaderInv, PushHeader PROVE LoaderInv'
  OBVIOUS
<1>. DEFINE k == done + 1
<1>0. /\ StackStart \in Nat /\ StackSize \in Nat /\ AddressMod = StackStart + StackSize
      /\ Len(headers) \in Nat /\ name_length \in Nat
      /\ 32 * Len(headers) + name_length + 95 <= StackSize
  BY Layout DEF LoaderInv, HeaderSize
<1>1. /\ UNCHANGED <<headers, name_length, addrs, stage>>
      /\ stage = "push_headers" /\ done' = k /\ sp' = Below(sp, 32)
      /\ memory' = WriteSlice(memory, sp', BytesOf(<<"header", k>>, 32))
  BY DEF PushHeader, Push, HeaderSize, Header
<1>2. done \in Nat /\ k \in 1 .. Len(headers) /\ done = k - 1
  BY <1>0 DEF PushHeader, LoaderInv, LoaderType
<1>3. sp' = HeaderAt(k)
  <2>1. sp = IF done = 0 THEN 0 ELSE AddressMod - 32 * done
    BY <1>1 DEF LoaderInv, StackPushed, HeaderAt, HeaderSize
  <2>2. sp \in Nat /\ sp \in 0 .. AddressMod - 1 /\ 32 \in 1 .. AddressMod
        /\ (sp = 0 \/ 32 <= sp)
    BY <1>0, <1>2, <2>1
  <2>3. sp' = IF sp = 0 THEN AddressMod - 32 ELSE sp - 32
    BY <1>1, <2>2, BelowProperties
  <2>. QED
    BY <1>0, <1>2, <2>1, <2>2, <2>3 DEF HeaderAt, HeaderSize
<1>4. sp' \in Nat /\ sp' \in StackStart .. AddressMod - 32
  BY <1>0, <1>2, <1>3 DEF HeaderAt, HeaderSize
<1>5. memory \in Memory /\ k \in Nat
  BY <1>2 DEF LoaderInv, LoaderType
<1>6. /\ memory' \in Memory /\ memory'.v_end = memory.v_end
      /\ memory'.read_only = memory.read_only /\ memory'.data = memory.data
      /\ OnStack(memory', sp', <<"header", k>>, 32)
      /\ \A other : \A a, len \in Nat :
           (OnStack(memory, a, other, len) /\ sp' + 32 <= a) => OnStack(memory', a, other, len)
  <2>1. IsPushed(memory, memory', sp', <<"header", k>>, 32)
    <3>. HIDE DEF k
    <3>1. "header" \in {"header", "name", "aux", "args"} /\ 32 \in Nat
      OBVIOUS
    <3>. QED
      BY <1>1, <1>4, <1>5, <3>1, PushedProperties
  <2>. QED
    BY <2>1 DEF IsPushed
<1>7. LoaderType'
  <2>1. done' \in 0 .. Len(headers) /\ sp' \in Nat /\ memory' \in Memory
    BY <1>0, <1>1, <1>2, <1>4, <1>6
  <2>. QED
    BY <1>1, <2>1 DEF LoaderInv, LoaderType, Memory
<1>8. SegmentsLoaded' /\ ReadOnlyRange'
  <2>1. Folded' = Folded
    BY <1>1 DEF Folded
  <2>. QED
    BY <1>1, <1>6, <2>1, SegmentsAreKept DEF LoaderInv
<1>9. StackPushed'
  <2>1. ASSUME NEW j \in 1 .. k
        PROVE  OnStack(memory', HeaderAt(j), Header(j), HeaderSize)
    <3>1. CASE j = k
      BY <1>3, <1>6, <3>1 DEF Header, HeaderSize
    <3>2. CASE j # k
      <4>1. j \in 1 .. done
        BY <1>2, <3>2
      <4>2. OnStack(memory, HeaderAt(j), Header(j), 32)
        BY <1>1, <4>1 DEF LoaderInv, StackPushed, HeaderSize
      <4>3. HeaderAt(j) \in Nat /\ 32 \in Nat /\ sp' + 32 <= HeaderAt(j)
        BY <1>0, <1>2, <1>3, <4>1 DEF HeaderAt, HeaderSize
      <4>4. OnStack(memory', HeaderAt(j), Header(j), 32)
        BY <1>6, <4>2, <4>3, Zenon
      <4>. QED
        BY <4>4 DEF HeaderSize
    <3>. QED
      BY <3>1, <3>2
  <2>2. \A j : HeaderAt(j)' = HeaderAt(j) /\ Header(j)' = Header(j)
    BY DEF HeaderAt, Header
  <2>3. done' # 0
    BY <1>1, <1>2
  <2>. QED
    BY <1>1, <1>3, <2>1, <2>2, <2>3 DEF StackPushed, OnStack
<1>. QED
  BY <1>7, <1>8, <1>9 DEF LoaderInv

LEMMA PushNameHolds == LoaderInv /\ PushName => LoaderInv'
<1>. SUFFICES ASSUME LoaderInv, PushName PROVE LoaderInv'
  OBVIOUS
<1>0. /\ StackStart \in Nat /\ StackSize \in Nat /\ AddressMod = StackStart + StackSize
      /\ Len(headers) \in Nat /\ name_length \in Nat /\ name_length >= 1
      /\ 32 * Len(headers) + name_length + 95 <= StackSize
  BY Layout DEF LoaderInv, HeaderSize
<1>1. /\ UNCHANGED <<headers, name_length, done>>
      /\ stage = "push_headers" /\ stage' = "push_vectors" /\ done = Len(headers)
      /\ sp' = Below(sp, name_length)
      /\ addrs' = [header |-> sp, name |-> sp']
      /\ memory' = WriteSlice(memory, sp', BytesOf(<<"name", 0>>, name_length))
  BY DEF PushName, Push, Name
<1>2. sp = IF Len(headers) = 0 THEN 0 ELSE AddressMod - 32 * Len(headers)
  BY <1>1 DEF LoaderInv, StackPushed, HeaderAt, HeaderSize
<1>3. sp' = NameAt
  <2>1. sp \in Nat /\ sp \in 0 .. AddressMod - 1 /\ name_length \in 1 .. AddressMod
        /\ (sp = 0 \/ name_length <= sp)
    BY <1>0, <1>2
  <2>2. sp' = IF sp = 0 THEN AddressMod - name_length ELSE sp - name_length
    <3>1. sp' = Below(sp, name_length)
      BY <1>1
    <3>2. /\ sp = 0 => Below(sp, name_length) = AddressMod - name_length
          /\ name_length <= sp => Below(sp, name_length) = sp - name_length
      BY <2>1, BelowProperties
    <3>. QED
      BY <2>1, <3>1, <3>2
  <2>3. CASE Len(headers) = 0
    BY <1>0, <1>2, <2>2, <2>3 DEF NameAt, HeaderSize
  <2>4. CASE Len(headers) # 0
    <3>1. sp = AddressMod - 32 * Len(headers)
      BY <1>2, <2>4
    <3>2. sp # 0
      BY <1>0, <3>1
    <3>3. sp' = sp - name_length
      BY <2>2, <3>2
    <3>. QED
      BY <3>1, <3>3 DEF NameAt, HeaderSize
  <2>. QED
    BY <2>3, <2>4
<1>4. sp' \in Nat /\ sp' \in StackStart .. AddressMod - name_length /\ sp \in Nat
  BY <1>0, <1>2, <1>3 DEF NameAt, HeaderSize
<1>5. memory \in Memory
  BY DEF LoaderInv, LoaderType
<1>6. /\ memory' \in Memory /\ memory'.v_end = memory.v_end
      /\ memory'.read_only = memory.read_only /\ memory'.data = memory.data
      /\ OnStack(memory', sp', <<"name", 0>>, name_length)
      /\ \A other : \A a, len \in Nat :
           (OnStack(memory, a, other, len) /\ sp' + name_length <= a)
             => OnStack(memory', a, other, len)
  <2>1. IsPushed(memory, memory', sp', <<"name", 0>>, name_length)
    <3>1. "name" \in {"header", "name", "aux", "args"} /\ 0 \in Nat
      OBVIOUS
    <3>. QED
      BY <1>0, <1>1, <1>4, <1>5, <3>1, PushedProperties
  <2>. QED
    BY <2>1 DEF IsPushed
<1>7. LoaderType'
  BY <1>1, <1>4, <1>6 DEF LoaderInv, LoaderType, Memory
<1>8. SegmentsLoaded' /\ ReadOnlyRange'
  <2>1. Folded' = Folded
    BY <1>1 DEF Folded
  <2>. QED
    BY <1>1, <1>6, <2>1, SegmentsAreKept DEF LoaderInv
<1>9. StackPushed'
  <2>1. ASSUME NEW j \in 1 .. Len(headers)
        PROVE  OnStack(memory', HeaderAt(j), Header(j), HeaderSize)
    <3>1. OnStack(memory, HeaderAt(j), Header(j), 32)
      BY <1>1 DEF LoaderInv, StackPushed, HeaderSize
    <3>2. HeaderAt(j) \in Nat /\ 32 \in Nat /\ sp' + name_length <= HeaderAt(j)
      BY <1>0, <1>3 DEF HeaderAt, NameAt, HeaderSize
    <3>3. OnStack(memory', HeaderAt(j), Header(j), 32)
      BY <1>6, <3>1, <3>2, Zenon
    <3>. QED
      BY <3>3 DEF HeaderSize
  <2>2. NameAt' = NameAt
    BY <1>1 DEF NameAt
  <2>3. addrs'.name = NameAt /\ (Len(headers) # 0 => addrs'.header = HeaderAt(Len(headers)))
    BY <1>1, <1>2, <1>3 DEF HeaderAt, HeaderSize
  <2>. QED
    BY <1>1, <1>3, <1>6, <2>1, <2>2, <2>3 DEF StackPushed, OnStack, Name, Header, HeaderAt
<1>. QED
  BY <1>7, <1>8, <1>9 DEF LoaderInv

(* The addresses of the vectors: below the name, aligned.                  *)
LEMMA VectorAddresses ==
  ASSUME NEW size \in Nat, NEW name \in Nat, AddressMod - size + 95 <= name, name < AddressMod,
         size \in 1 .. AddressMod
  PROVE  LET aux  == Below(Aligned(name), AuxSize)
             args == Below(aux, ArgsSize)
         IN  /\ aux \in Nat /\ args \in Nat
             /\ aux \in AddressMod - size .. AddressMod - 64
             /\ args \in AddressMod - size .. AddressMod - 16
             /\ aux + 64 <= name /\ args + 16 = aux /\ args % 16 = 0
<1>. DEFINE r == (name - 80) % 16
            aux == name - r - 64
<1>1. AddressMod \in Nat
  BY SpaceAssumption
<1>2. name - 80 \in Nat /\ r \in 0 .. 15 /\ (name - 80 - r) % 16 = 0
  BY <1>1
<1>3. Aligned(name) = name - r
  BY DEF Aligned, AuxSize, ArgsSize
<1>. HIDE DEF r
<1>4. name - r \in Nat /\ name - r \in 0 .. AddressMod - 1 /\ 64 <= name - r /\ 64 \in 1 .. AddressMod
  BY <1>1, <1>2
<1>5. Below(Aligned(name), AuxSize) = aux
  BY <1>3, <1>4, BelowProperties DEF AuxSize
<1>6. aux \in Nat /\ aux \in 0 .. AddressMod - 1 /\ 16 <= aux /\ 16 \in 1 .. AddressMod
  BY <1>1, <1>2
<1>. HIDE DEF aux
<1>7. Below(aux, ArgsSize) = aux - 16
  BY <1>6, BelowProperties DEF ArgsSize
<1>8. aux - 16 = name - 80 - r
  BY <1>2 DEF aux
<1>9. /\ aux \in AddressMod - size .. AddressMod - 64 /\ aux + 64 <= name
      /\ aux - 16 \in Nat /\ aux - 16 \in AddressMod - size .. AddressMod - 16
      /\ (aux - 16) + 16 = aux
  BY <1>1, <1>2, <1>6 DEF aux
<1>. QED
  BY <1>2, <1>5, <1>6, <1>7, <1>8, <1>9

LEMMA PushVectorsHolds == LoaderInv /\ PushVectors => LoaderInv'
<1>. SUFFICES ASSUME LoaderInv, PushVectors PROVE LoaderInv'
  OBVIOUS
<1>. DEFINE aux  == Below(Aligned(sp), AuxSize)
            args == Below(aux, ArgsSize)
            mid  == WriteSlice(memory, aux, BytesOf(<<"aux", 0>>, 64))
<1>0. /\ StackStart \in Nat /\ StackSize \in Nat /\ AddressMod = StackStart + StackSize
      /\ Len(headers) \in Nat /\ name_length \in Nat /\ name_length >= 1
      /\ 32 * Len(headers) + name_length + 95 <= StackSize
  BY Layout DEF LoaderInv, HeaderSize
<1>1. /\ UNCHANGED <<headers, name_length, addrs, done>>
      /\ stage = "push_vectors" /\ stage' = "done" /\ sp' = args
      /\ memory' = WriteSlice(mid, args, BytesOf(<<"args", 0>>, 16))
  BY DEF PushVectors, AuxSize, ArgsSize, Aux, Args
<1>2. sp = AddressMod - 32 * Len(headers) - name_length /\ sp = NameAt
  BY <1>1 DEF LoaderInv, StackPushed, NameAt, HeaderSize
<1>3. /\ aux \in Nat /\ args \in Nat
      /\ aux \in StackStart .. AddressMod - 64 /\ args \in StackStart .. AddressMod - 16
      /\ aux + 64 <= sp /\ args + 16 = aux /\ args % 16 = 0
  <2>. HIDE DEF aux, args
  <2>1. sp \in Nat /\ StackStart + 95 <= sp /\ sp < AddressMod
    BY <1>0, <1>2
  <2>2. StackSize \in 1 .. AddressMod /\ StackStart = AddressMod - StackSize
    BY <1>0
  <2>. QED
    BY <2>1, <2>2, VectorAddresses DEF aux, args
<1>. HIDE DEF aux, args, mid
<1>4. memory \in Memory
  BY DEF LoaderInv, LoaderType
<1>5. IsPushed(memory, mid, aux, <<"aux", 0>>, 64)
  <2>1. "aux" \in {"header", "name", "aux", "args"} /\ 0 \in Nat /\ 64 \in Nat
    OBVIOUS
  <2>. QED
    BY <1>3, <1>4, <2>1, PushedProperties DEF mid
<1>6. IsPushed(mid, memory', args, <<"args", 0>>, 16)
  <2>1. "args" \in {"header", "name", "aux", "args"} /\ 0 \in Nat /\ 16 \in Nat /\ mid \in Memory
    BY <1>5 DEF IsPushed
  <2>. QED
    BY <1>1, <1>3, <2>1, PushedProperties
<1>7. /\ memory' \in Memory /\ memory'.v_end = memory.v_end
      /\ memory'.read_only = memory.read_only /\ memory'.data = memory.data
      /\ OnStack(memory', args, <<"args", 0>>, 16)
      /\ OnStack(memory', aux, <<"aux", 0>>, 64)
  BY <1>3, <1>5, <1>6 DEF IsPushed
<1>8. ASSUME NEW other, NEW a \in Nat, NEW len \in Nat, OnStack(memory, a, other, len), sp <= a
      PROVE  OnStack(memory', a, other, len)
  <2>1. sp \in Nat
    BY DEF LoaderInv, LoaderType
  <2>2. aux + 64 <= a /\ args + 16 <= a
    BY <1>3, <1>8, <2>1
  <2>3. OnStack(mid, a, other, len)
    BY <1>5, <1>8, <2>2 DEF IsPushed
  <2>. QED
    BY <1>6, <2>2, <2>3 DEF IsPushed
<1>9. LoaderType'
  <2>1. sp' \in Nat /\ memory' \in Memory
    BY <1>1, <1>3, <1>7
  <2>. QED
    BY <1>1, <2>1 DEF LoaderInv, LoaderType, Memory
<1>10. SegmentsLoaded' /\ ReadOnlyRange'
  <2>1. Folded' = Folded
    BY <1>1 DEF Folded
  <2>. QED
    BY <1>1, <1>7, <2>1, SegmentsAreKept DEF LoaderInv
<1>11. StackPushed'
  <2>1. ASSUME NEW j \in 1 .. Len(headers)
        PROVE  OnStack(memory', HeaderAt(j), Header(j), HeaderSize)
    <3>1. OnStack(memory, HeaderAt(j), Header(j), HeaderSize)
      BY <1>1 DEF LoaderInv, StackPushed
    <3>2. HeaderAt(j) \in Nat /\ sp <= HeaderAt(j) /\ HeaderSize \in Nat
      BY <1>0, <1>2 DEF HeaderAt, HeaderSize
    <3>. QED
      BY <1>8, <3>1, <3>2
  <2>2. OnStack(memory', NameAt, Name, name_length)
    <3>1. OnStack(memory, NameAt, Name, name_length)
      BY <1>1 DEF LoaderInv, StackPushed
    <3>2. NameAt \in Nat /\ sp <= NameAt
      BY <1>0, <1>2
    <3>. QED
      BY <1>0, <1>8, <3>1, <3>2
  <2>3. /\ addrs.name = NameAt
        /\ Len(headers) # 0 => addrs.header = HeaderAt(Len(headers))
    BY <1>1 DEF LoaderInv, StackPushed
  <2>4. NameAt' = NameAt /\ name_length' = name_length /\ addrs' = addrs /\ headers' = headers
    BY <1>1 DEF NameAt
  <2>5. /\ sp' % 16 = 0 /\ OnStack(memory', sp', Args, ArgsSize)
        /\ OnStack(memory', sp' + ArgsSize, Aux, AuxSize)
    BY <1>1, <1>3, <1>7 DEF Args, Aux, ArgsSize, AuxSize
  <2>. QED
    BY <1>1, <2>1, <2>2, <2>3, <2>4, <2>5
       DEF StackPushed, OnStack, HeaderAt, Name, Header, Args, Aux
<1>. QED
  BY <1>9, <1>10, <1>11 DEF LoaderInv

LEMMA EndedHolds == LoaderInv /\ UNCHANGED vars => LoaderInv'
<1>. SUFFICES ASSUME LoaderInv, UNCHANGED vars PROVE LoaderInv'
  OBVIOUS
<1>1. UNCHANGED <<headers, name_length, memory, sp, addrs, done, stage>>
  BY DEF vars
<1>2. LoaderType' /\ StackPushed'
  BY <1>1 DEF LoaderInv, LoaderType, Memory, StackPushed, OnStack, HeaderAt, NameAt
<1>3. Folded' = Folded
  BY <1>1 DEF Folded
<1>. QED
  BY <1>1, <1>2, <1>3, SegmentsAreKept DEF LoaderInv

(* What is inductive about the loader: everything pushed and folded so far *)
(* is in place (ProcessMemory::new and initialize_stack).                  *)
THEOREM LoaderIsRight == Spec => []LoaderInv
<1>1. Init => LoaderInv
  BY InitHolds
<1>2. LoaderInv /\ [Next]_vars => LoaderInv'
  BY LoadSegmentHolds, LoadPanicsHolds, LoadedHolds, PushHeaderHolds, PushNameHolds,
     PushVectorsHolds, EndedHolds DEF Next, Ended
<1>. QED
  BY <1>1, <1>2, PTL DEF Spec

-----------------------------------------------------------------------------
(* What a program finds                                                    *)

LEMMA PushesFit == LoaderInv => PushesSucceed
<1>. SUFFICES ASSUME LoaderInv PROVE PushesSucceed
  OBVIOUS
<1>0. /\ StackStart \in Nat /\ StackSize \in Nat /\ AddressMod = StackStart + StackSize
      /\ Len(headers) \in Nat /\ name_length \in Nat /\ name_length >= 1
      /\ 32 * Len(headers) + name_length + 95 <= StackSize
  BY Layout DEF HeaderSize, LoaderInv
<1>1. ASSUME stage = "push_headers"
      PROVE  IF done < Len(headers)
               THEN Writes(memory, Below(sp, HeaderSize), HeaderSize)
               ELSE Writes(memory, Below(sp, name_length), name_length)
  <2>. DEFINE n == IF done < Len(headers) THEN 32 ELSE name_length
  <2>1. done \in 0 .. Len(headers) /\ done \in Nat
    BY <1>0 DEF LoaderInv, LoaderType
  <2>2. sp = IF done = 0 THEN 0 ELSE AddressMod - 32 * done
    BY <1>1 DEF LoaderInv, StackPushed, HeaderAt, HeaderSize
  <2>3. n \in Nat /\ n \in 1 .. AddressMod /\ 32 * done + n <= StackSize
    BY <1>0, <2>1
  <2>. HIDE DEF n
  <2>4. sp \in Nat /\ sp \in 0 .. AddressMod - 1 /\ (sp = 0 \/ n <= sp)
    BY <1>0, <2>1, <2>2, <2>3
  <2>5. Below(sp, n) = IF sp = 0 THEN AddressMod - n ELSE sp - n
    BY <2>3, <2>4, BelowProperties
  <2>6. Below(sp, n) \in Nat /\ Below(sp, n) \in StackStart .. AddressMod - n
    <3>1. CASE done = 0
      BY <1>0, <2>2, <2>3, <2>5, <3>1
    <3>2. CASE done # 0
      <4>1. sp = AddressMod - 32 * done
        BY <2>2, <3>2
      <4>2. sp # 0
        BY <1>0, <2>1, <2>3, <4>1
      <4>. QED
        BY <1>0, <2>1, <2>3, <2>5, <4>1, <4>2
    <3>. QED
      BY <3>1, <3>2
  <2>7. Writes(memory, Below(sp, n), n)
    BY <2>3, <2>6, StackTakesWrites
  <2>. QED
    BY <2>7 DEF n, HeaderSize
<1>2. ASSUME stage = "push_vectors"
      PROVE  LET aux == Below(Aligned(sp), AuxSize) IN
             Writes(memory, aux, AuxSize) /\ Writes(memory, Below(aux, ArgsSize), ArgsSize)
  <2>. DEFINE aux  == Below(Aligned(sp), AuxSize)
              args == Below(aux, ArgsSize)
  <2>1. sp = AddressMod - 32 * Len(headers) - name_length
    BY <1>2 DEF LoaderInv, StackPushed, NameAt, HeaderSize
  <2>. HIDE DEF aux, args
  <2>2. /\ sp \in Nat /\ AddressMod - StackSize + 95 <= sp /\ sp < AddressMod
        /\ StackSize \in 1 .. AddressMod /\ AddressMod - StackSize = StackStart
    BY <1>0, <2>1
  <2>3. /\ aux \in Nat /\ aux \in StackStart .. AddressMod - 64
        /\ args \in Nat /\ args \in StackStart .. AddressMod - 16
    BY <1>0, <2>2, VectorAddresses DEF aux, args
  <2>4. Writes(memory, aux, 64) /\ Writes(memory, args, 16)
    BY <2>3, StackTakesWrites
  <2>. QED
    BY <2>4 DEF aux, args, AuxSize, ArgsSize
<1>. QED
  BY <1>1, <1>2 DEF PushesSucceed

(* An address of a segment past its bytes in the file.                     *)
LEMMA BeyondTheFile ==
  ASSUME NEW vaddr \in Nat, NEW filesz \in Nat, NEW memsz \in Nat,
         NEW a \in (vaddr + filesz) .. (vaddr + memsz) - 1
  PROVE  a - vaddr \in 0 .. memsz - 1 /\ vaddr + (a - vaddr) = a /\ ~(a - vaddr < filesz)
OBVIOUS

LEMMA SegmentsStay == LoaderInv => SegmentsAreInPlace
<1>. SUFFICES ASSUME LoaderInv, stage = "done" PROVE SegmentsAreInPlace
  BY DEF SegmentsAreInPlace
<1>0. StackStart \in Nat /\ Len(headers) \in Nat
  BY Layout DEF LoaderInv
<1>1. memory.v_end \in Nat /\ Len(memory.data) = memory.v_end
  BY <1>0 DEF LoaderInv, LoaderType, Memory, SegmentsLoaded
<1>2. ASSUME NEW k \in LoadHeaders
      PROVE  /\ Holds(headers[k].vaddr, Segment(k), headers[k].filesz)
             /\ \A a \in (headers[k].vaddr + headers[k].filesz) .. VmEnd(headers[k]) - 1 :
                  Reads(memory, a, 1) /\ ByteAt(memory, a) = Zero
  <2>1. /\ headers[k].vaddr \in Nat /\ headers[k].memsz \in Nat /\ headers[k].filesz \in Nat
        /\ k \in 1 .. Len(headers)
        /\ VmEnd(headers[k]) = headers[k].vaddr + headers[k].memsz
        /\ VmEnd(headers[k]) <= StackStart
    BY SegmentLayout DEF LoaderInv
  <2>2. k <= Folded
    BY <1>0, <2>1 DEF Folded
  <2>3. /\ headers[k].filesz <= headers[k].memsz
        /\ VmEnd(headers[k]) <= memory.v_end
        /\ \A i \in 0 .. headers[k].memsz - 1 :
             memory.data[headers[k].vaddr + i + 1]
               = IF i < headers[k].filesz THEN ByteOf(Segment(k), i) ELSE Zero
    BY <2>2 DEF LoaderInv, SegmentsLoaded
  <2>4. headers[k].filesz <= headers[k].memsz /\ VmEnd(headers[k]) <= memory.v_end
    BY <2>3
  <2>5. ASSUME NEW i \in 0 .. headers[k].memsz - 1
        PROVE  /\ Reads(memory, headers[k].vaddr + i, 1)
               /\ ByteAt(memory, headers[k].vaddr + i)
                    = IF i < headers[k].filesz THEN ByteOf(Segment(k), i) ELSE Zero
    <3>. DEFINE a == headers[k].vaddr + i
    <3>1. a \in Nat /\ a < StackStart /\ a < memory.v_end /\ a + 1 <= Len(memory.data)
      BY <1>0, <1>1, <2>1, <2>4
    <3>2. Reads(memory, a, 1)
      BY <1>0, <3>1 DEF Reads, InSpace, Slices, Offset, Buffer, InData
    <3>3. ByteAt(memory, a) = memory.data[a + 1]
      BY <1>0, <3>1 DEF ByteAt, Offset, Buffer, InData
    <3>. QED
      BY <2>3, <3>2, <3>3
  <2>6. Holds(headers[k].vaddr, Segment(k), headers[k].filesz)
    <3>1. \A i \in 0 .. headers[k].filesz - 1 :
            i \in 0 .. headers[k].memsz - 1 /\ i < headers[k].filesz
      BY <2>1, <2>4
    <3>. QED
      BY <2>5, <3>1 DEF Holds
  <2>7. ASSUME NEW a \in (headers[k].vaddr + headers[k].filesz) .. VmEnd(headers[k]) - 1
        PROVE  Reads(memory, a, 1) /\ ByteAt(memory, a) = Zero
    <3>. DEFINE i == a - headers[k].vaddr
    <3>0. a \in (headers[k].vaddr + headers[k].filesz) .. (headers[k].vaddr + headers[k].memsz) - 1
      BY <2>1, Zenon
    <3>1. /\ i \in 0 .. headers[k].memsz - 1 /\ headers[k].vaddr + i = a
          /\ ~(i < headers[k].filesz)
      BY <2>1, <3>0, BeyondTheFile, Zenon
    <3>. HIDE DEF i
    <3>. QED
      BY <2>5, <3>1
  <2>. QED
    BY <2>6, <2>7
<1>. QED
  BY <1>1, <1>2 DEF SegmentsAreInPlace

LEMMA ProtectionStays == LoaderInv => ProtectionFollowsTheHeaders
<1>. SUFFICES ASSUME LoaderInv, stage = "done", NEW k \in LoadHeaders,
                     NEW a \in AddressesOf(headers[k])
              PROVE  IF headers[k].write
                       THEN \/ Writable(memory, a)
                            \/ \E j, l \in LoadHeaders :
                                 j < k /\ k < l /\ ~headers[j].write /\ ~headers[l].write
                       ELSE \A start \in AcceptedWritesInto(a), j \in LoadHeaders :
                              ~headers[j].write /\ headers[j].memsz > 0
                                => start < headers[j].vaddr
  BY DEF ProtectionFollowsTheHeaders
<1>0. Len(headers) \in Nat /\ \A j \in LoadHeaders : j \in 1 .. Len(headers) /\ j <= Folded
  BY Layout DEF LoaderInv, Folded, LoadHeaders
<1>1. \A j \in LoadHeaders :
        /\ headers[j].vaddr \in Nat /\ headers[j].memsz \in Nat /\ headers[j].write \in BOOLEAN
        /\ VmEnd(headers[j]) = headers[j].vaddr + headers[j].memsz
        /\ \A l \in LoadHeaders : l < j => VmEnd(headers[l]) <= headers[j].vaddr
  BY SegmentLayout DEF LoaderInv
<1>2. a \in Nat /\ headers[k].vaddr <= a /\ a < VmEnd(headers[k]) /\ headers[k].memsz > 0
  BY <1>1 DEF AddressesOf
<1>3. memory.read_only[1] \in Nat /\ memory.read_only[2] \in Nat
  BY DEF LoaderInv, LoaderType, Memory
<1>4. CASE ~headers[k].write
  <2>1. memory.read_only[1] <= headers[k].vaddr /\ VmEnd(headers[k]) <= memory.read_only[2]
    BY <1>0, <1>2, <1>4 DEF LoaderInv, ReadOnlyRange, ReadOnly
  <2>. SUFFICES ASSUME NEW start \in AcceptedWritesInto(a), NEW j \in LoadHeaders,
                       ~headers[j].write, headers[j].memsz > 0
                PROVE  start < headers[j].vaddr
    BY <1>4
  <2>2. start \in Nat /\ start <= a /\ Writable(memory, start)
    BY <1>2 DEF AcceptedWritesInto, Writes
  <2>3. memory.read_only[1] <= headers[j].vaddr
    BY <1>0 DEF LoaderInv, ReadOnlyRange, ReadOnly
  <2>4. VmEnd(headers[k]) \in Int /\ start < memory.read_only[2]
    BY <1>1, <1>2, <1>3, <2>1, <2>2
  <2>5. ~(memory.read_only[1] <= start)
    BY <2>2, <2>4 DEF Writable
  <2>. QED
    BY <1>1, <1>3, <2>2, <2>3, <2>5
<1>5. CASE headers[k].write /\ ~Writable(memory, a)
  <2>1. memory.read_only[1] <= a /\ a < memory.read_only[2]
    BY <1>5 DEF Writable
  <2>2. memory.read_only # <<0, 0>>
    BY <1>2, <2>1
  <2>3. PICK j, l \in LoadHeaders :
          /\ ~headers[j].write /\ ~headers[l].write
          /\ memory.read_only[1] = headers[j].vaddr /\ memory.read_only[2] = VmEnd(headers[l])
    BY <2>2 DEF LoaderInv, ReadOnlyRange, ReadOnly
  <2>4. j # k /\ l # k
    BY <1>5, <2>3
  <2>5. ~(k < j)
    <3>1. k < j => VmEnd(headers[k]) <= headers[j].vaddr
      BY <1>1
    <3>. QED
      BY <1>1, <1>2, <2>1, <2>3, <3>1
  <2>6. ~(l < k)
    <3>1. l < k => VmEnd(headers[l]) <= headers[k].vaddr
      BY <1>1
    <3>. QED
      BY <1>1, <1>2, <2>1, <2>3, <3>1
  <2>7. j < k /\ k < l
    BY <1>0, <2>4, <2>5, <2>6
  <2>. QED
    BY <1>5, <2>3, <2>7
<1>. QED
  BY <1>1, <1>4, <1>5

LEMMA StackStays == LoaderInv => StackIsAsPromised
<1>. SUFFICES ASSUME LoaderInv, stage = "done" PROVE StackIsAsPromised
  BY DEF StackIsAsPromised
<1>0. /\ StackStart \in Nat /\ StackSize \in Nat /\ AddressMod = StackStart + StackSize
      /\ Len(headers) \in Nat /\ name_length \in Nat
      /\ 32 * Len(headers) + name_length + 95 <= StackSize
  BY Layout DEF HeaderSize, LoaderInv
<1>1. Len(memory.stack) = StackSize
  BY <1>0, ArrayIsSeq DEF LoaderInv, LoaderType, Memory
<1>2. ASSUME NEW addr \in Nat, NEW n \in Nat, NEW object, OnStack(memory, addr, object, n)
      PROVE  Holds(addr, object, n)
  <2>1. StackStart <= addr /\ addr + n <= AddressMod
    BY <1>2 DEF OnStack
  <2>2. ASSUME NEW i \in 0 .. n - 1
        PROVE  Reads(memory, addr + i, 1) /\ ByteAt(memory, addr + i) = ByteOf(object, i)
    <3>. DEFINE a == addr + i
    <3>1. a \in Nat /\ StackStart <= a /\ ~(a < StackStart) /\ (a - StackStart) + 1 <= StackSize
      BY <1>0, <2>1
    <3>2. Reads(memory, a, 1)
      BY <1>0, <1>1, <3>1 DEF Reads, InSpace, Slices, Offset, Buffer, InData
    <3>3. ByteAt(memory, a) = memory.stack[(a - StackStart) + 1]
      BY <1>0, <3>1 DEF ByteAt, Offset, Buffer, InData
    <3>4. (a - StackStart) + 1 = addr - StackStart + i + 1
      BY <1>0
    <3>5. memory.stack[addr - StackStart + i + 1] = ByteOf(object, i)
      BY <1>2 DEF OnStack
    <3>. QED
      BY <3>2, <3>3, <3>4, <3>5
  <2>. QED
    BY <2>2 DEF Holds
<1>3. sp \in Nat /\ sp + ArgsSize \in Nat /\ ArgsSize \in Nat /\ AuxSize \in Nat
  BY DEF LoaderInv, LoaderType, ArgsSize, AuxSize
<1>4. /\ sp % 16 = 0 /\ OnStack(memory, sp, Args, ArgsSize)
      /\ OnStack(memory, sp + ArgsSize, Aux, AuxSize)
      /\ addrs.name = NameAt /\ OnStack(memory, NameAt, Name, name_length)
      /\ Len(headers) # 0 => addrs.header = HeaderAt(Len(headers))
  BY DEF LoaderInv, StackPushed
<1>5. Holds(sp, Args, ArgsSize) /\ Holds(sp + ArgsSize, Aux, AuxSize)
  BY <1>2, <1>3, <1>4
<1>6. Holds(addrs.name, Name, name_length)
  <2>1. NameAt \in Nat
    BY <1>0 DEF NameAt, HeaderSize
  <2>. QED
    BY <1>0, <1>2, <1>4, <2>1
<1>7. ASSUME NEW k \in 1 .. Len(headers)
      PROVE  \E n \in 0 .. Len(headers) - 1 :
               Holds(addrs.header + n * HeaderSize, Header(k), HeaderSize)
  <2>. DEFINE n == Len(headers) - k
  <2>1. n \in 0 .. Len(headers) - 1 /\ HeaderSize \in Nat /\ HeaderAt(k) \in Nat
    BY <1>0 DEF HeaderAt, HeaderSize
  <2>2. addrs.header = HeaderAt(Len(headers))
    BY <1>0, <1>4
  <2>3. addrs.header + n * HeaderSize = HeaderAt(k)
    BY <1>0, <2>2 DEF HeaderAt, HeaderSize
  <2>4. OnStack(memory, HeaderAt(k), Header(k), HeaderSize)
    BY DEF LoaderInv, StackPushed
  <2>. HIDE DEF n
  <2>. QED
    BY <1>2, <2>1, <2>3, <2>4
<1>. QED
  BY <1>4, <1>5, <1>6, <1>7 DEF StackIsAsPromised

(* initialize_stack never writes out of the stack or to a protected byte:  *)
(* its unwraps of write_slice do not panic, whatever the headers.          *)
THEOREM PushesNeverFail == Spec => []PushesSucceed
BY LoaderIsRight, PushesFit, PTL

(* ProcessMemory::new puts every segment where its header says, clears     *)
(* what the file does not have, and backs every address of the range.      *)
THEOREM SegmentsAreLoaded == Spec => []SegmentsAreInPlace
BY LoaderIsRight, SegmentsStay, PTL

(* What no header lets a program write is only ever reached by a write     *)
(* that starts below all of it, and of what a header does let it write     *)
(* nothing is protected but what lies between two read-only segments.      *)
THEOREM ProtectionIsRight == Spec => []ProtectionFollowsTheHeaders
BY LoaderIsRight, ProtectionStays, PTL

(* initialize_stack leaves an aligned stack pointer below vectors, name    *)
(* and header table that no later push overwrote.                          *)
THEOREM StackIsRight == Spec => []StackIsAsPromised
BY LoaderIsRight, StackStays, PTL
=============================================================================
