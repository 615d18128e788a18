# A TLA+ model of the RISC-V out-of-order pipeline simulator

`src/` is a simulator of a 32-bit RISC-V machine that issues at most two
instructions per clock, executes them out of order behind a reorder buffer, with
register renaming, a branch predictor, a load buffer, reservation stations and an
address unit, and retires them in order.  (Its README still describes the
five-stage pipeline it grew from.)  This directory specifies that pipeline, says
what it promises -- that it is a machine that executes one instruction at a time --
checks that it keeps the promise, and proves under which conditions it does.

Contents: [the system](#the-system) ·
[modules](#modules) · [abstractions](#abstractions) · [runs](#runs) ·
[findings](#findings) · [fairness](#fairness) · [proofs](#proofs) ·
[not modelled](#not-modelled) · [plan](#plan)

## The system

One thread runs `main`'s loop, which calls `Pipeline::run_clock` until the program
asks to exit.  A clock is four calls in this order:

1. **commit** -- `ReorderBuffer::completed_entries` pops every completed entry at the
   front of the list (which frees the nodes), then `ReorderBufferEntry::retire` is
   called on each, until one of them is a mispredicted branch.
2. **write_result** -- the finished results of the load buffer and of the reservation
   station leave them and are broadcast to every operand that waits for them.
3. **execute** -- the address unit, the loads, the store at the head of the reorder
   buffer, the general units; a finished `jalr` moves the pc.
4. **issue** -- up to two instructions are fetched, decoded, renamed and given to the
   units, unless an `ecall` or an unfinished `jalr` is the youngest in flight.

| component | state | operations | must hold |
|---|---|---|---|
| pipeline control (`pipeline/mod.rs`) | pc, the stage of the clock, the entries popped by commit | commit, write_result, execute, issue, flush, system calls | in-order semantics; a flush drops everything younger and nothing else; `ecall` runs alone |
| reorder buffer (`pipeline/reorder_buffer/`) | a linked list of entries, named by the heap addresses of its nodes | issue, completed_entries, retire, propagate, clear | completed means that nothing is owed; no node address is used after it is freed |
| reservation station (`pipeline/reservation_staion.rs`) | an `RSEntry` per node | issue, execute, pop_finished, propagate, clear | no operand waits for a broadcast that has been made or will not be |
| address unit (`pipeline/functional_units/address.rs`) | operand and immediate per node | issue, execute, propagate, clear | every address is delivered once; a `jalr` redirects the fetch |
| load buffer, memory unit (`pipeline/load_buffer.rs`, `functional_units/memory.rs`) | status and value per load or atomic | issue, is_load_ready, execute, pop_finished, execute_store | loads see older stores; atomics are atomic; a fault off the path has no effect |
| register file (`register.rs`) | values and the renaming table | get_reg_value, set_reg_rob_index, write | a register is renamed to its youngest writer in flight, or to none |
| branch predictor (`pipeline/branch_predictor.rs`) | two bits per branch address | predict, update | predictions follow the history; wrong ones cost only time |
| ALU (`alu.rs`) | none | alu | the ISA's results |
| process memory (`memory/mod.rs`) | data, stack, address ranges | read, write, range checks | accesses outside the ranges are refused; a byte read is the byte last written |
| system calls (`pipeline/mod.rs`) | none of its own | exit, ids, write, fstat, uname, readlinkat, brk | see the registers and memory of all older instructions |
| decoder (`instruction.rs`, `consts.rs`) | none | `Instruction::new` | every word means what the ISA says, or is refused |
| loader (`ProcessMemory::new`, `initialize_stack`) | the memory under construction, the stack pointer | load a segment; push headers, name, vectors | segments at their addresses, protected as their headers say; an intact, aligned stack |
| command line and printing (`main.rs`, `lib.rs`) | none | options, output | -- |

The components interact by calls within the one thread and through three kinds of
shared names: the address of a reorder buffer node (the tag of operands, the key of
the units' maps, the renaming table), the register file, and memory.  There is no
concurrency of threads.  What is hard is the *simulated* concurrency: every
instruction advances at its own pace, and each of the four calls reads what the other
three left -- a node freed by commit while a map still holds its address, a result
broadcast between the capture of two operands, an address that becomes known in
the same clock in which a younger load reads, a branch that is found wrong when half of
the popped entries have been retired, a fault on a path that turns out not to be taken.
`PROJECT.json` lists these hazards at the lines where they bite.

## Modules

```
InstructionSet          decoded instructions: opcodes, formats, functions, fields
 ├ InstructionDecoder   Instruction::new, from the bits of a word
 │  └ Decoding          an assembler, the decoder, and what relates them; MCDecoder runs it
 │     └ DecoderProofs  its proofs (TLAPS)
 └ Machine              words, operands, machine parameters
    ├ BranchPredictor      the two-bit predictor
    ├ ArithmeticLogicUnit  alu::alu and the arithmetic of atomics, TLC's value for Alu...
    ├ ProcessMemory        ranges, bounds, little-endian reads and writes
    │  ├ SystemCall        system_call, with a nondeterministic host
    │  │  └ SequentialMachine   the abstract specification: one instruction per step
    │  └ Conformance       (+ ArithmeticLogicUnit) arithmetic and accesses against the ISA
    └ ReorderBuffer        entries, completion, renaming, broadcast
       └ LoadBuffer        (+ ProcessMemory) load readiness, atomics, stores
          └ ReservationStation   address unit, general units
             └ Pipeline    (+ BranchPredictor, SystemCall) VARIABLES, Init, actions, Spec
                └ PipelineInvariant   the inductive invariant of types and pointers
                   └ PipelineProperties  the refinement and the other properties
                      └ ProgramOrder     the invariants of order, path and waiting loads
                         └ DataFlow      the invariant of the values in flight
                            └ MCPipeline    programs and parameters for TLC
PipelineProofs          (TLAPS) PipelineInvariant is inductive
 └ ProgramOrderProofs   (TLAPS) what each action does to the list, entry by entry;
    │                   OrderInv, PathInv, LoadsHaveWaited, read-only memory
    └ DataFlowProofs    (TLAPS) DataInv
       └ RefinementProofs  (TLAPS) every step is a step of SequentialMachine
PredictorHistory        the predictor alone against its history; MCPredictor runs it
 └ PredictorProofs         its proofs (TLAPS)
AddressSpace            the memory while its ranges and buffers still change
 ├ Loader               ProcessMemory::new and initialize_stack; MCLoader runs it
 │  └ LoaderProofs         its proofs (TLAPS)
 └ ProgramBreak         brk between the loads and stores of a program
    └ ProgramBreakProofs   its proofs (TLAPS)
```

`Pipeline` composes everything else.  Its variables are the fields of
`struct Pipeline`: `pc`, `gpr` and `related_rob` (the register file), `mem`, `buf` and
`entry` (the reorder buffer: the order of the list, and the contents of live nodes),
`load_buf`, `station` and `addresses` (the reservation station's three maps),
`branch_map`; `completed` and `retired` are commit's local list and loop position;
`stage` is the point `run_clock` has reached and `status` tells a running process from
one that exited or panicked.  The actions:

| action | code |
|---|---|
| `PopCompleted` | `completed_entries` at the start of commit |
| `RetirePredicted`, `RetireMispredicted`, `RetireEcall`, `RetireValue` | one call of `retire`, by the branch it takes; the second one includes `clear_all_buffers` and the end of `take_while` |
| `RetirePanics` | an `unwrap` of a recorded load fault, or of a failed system call |
| `CommitDone` | the end of commit, and `is_program_finished` |
| `WriteResult` | `write_result`: pop the finished jobs, broadcast them to the station, the address unit and the reorder buffer |
| `Execute`, `ExecutePanics` | `ReservationStation::execute` |
| `IssueStalls` | `issue` returns because of an `ecall` or a `jalr` |
| `Issue` | one instruction fetched and issued; taken twice in a clock unless the first is a jump or an `ecall` |
| `IssuePanics` | `read_inst` fails or finds no instruction |
| `Ended` | the process is gone |

Commit is split at each retirement because a panic, an exit and a misprediction
stop it in between; the other three calls are one step each.

`SequentialMachine` is the promise: registers, memory, pc and status, and one action
per class of instruction.  It shares with the pipeline the definitions of what a load
reads, a store writes and a system call does, and *nothing* about how operands,
addresses, results or the next pc are obtained.  `ImplementsSequentialMachine`
instantiates it with

- `ArchPc`: the pc of the oldest instruction that has had no effect yet;
- `ArchGpr`: `gpr`, and for an atomic that has stored but not retired, its result too;
- `ArchStatus`: finished once an exit call has retired,

because a store or an atomic has its effect as head of the list in `execute`, clocks
before it retires, and everything else has it when it retires.

The decoder, the loader and `brk` are specified on their own, because they do not
interleave with the pipeline: decoding is a function of a word, the loader runs before
the first clock, and an `ecall` runs alone (`SystemCallsAreSerialized`).

- **Decoder.**  A word is the set of its one bits, so masks, shifts and `|` of the code
  are ranges, translations and unions, and `InstructionDecoder` follows
  `Instruction::new`, `Fields::new` and `Function::new` arm by arm.  `Decoding` holds the
  other side: where the ISA's formats put each field and each bit of an immediate
  (`Assembled`).  `DecodesToInstructions` says that what comes out satisfies `Decoded`,
  which is what the pipeline is specified for, with each field in its range.  This includes
  `ecall` words that name a register, which the ISA does not have and the decoder does
  not refuse; the pipeline takes them, but what is proved of it needs programs without
  them (see [the conditions](#proofs)).  The run samples words and instructions;
  `DecoderProofs` is about all of them.
- **Loader.**  `LoadSegment` is one round of the fold over the program headers,
  `PushHeader`, `PushName` and `PushVectors` are the stages of `initialize_stack`.  A byte
  is named by the object it comes from and its place in it, so a property can say what
  is where.  (Two facts it brought out: the header table is pushed header by header
  downwards, so that it lies in memory in reverse order, which `StackIsAsPromised` allows
  for; and a writable segment between two read-only ones becomes read-only, which
  `ProtectionFollowsTheHeaders` names as the exception.)  That property is about whole
  writes: `write_slice` holds only the first address against the range, so a write that
  starts below all read-only segments may reach the first of them, and no other write may
  reach any.
- **brk.**  `ProgramBreak` has `Brk`, `Store` and the accesses that panic, in any order;
  the history variable `stored` remembers what each address last received, and `cut` which
  data addresses have lost their byte to a `brk` since, which truncates.
- **Conformance.**  One operation per behaviour, on any two words.  `Manual` works bit by bit
  or characterises its result (`DividesInto`), and shares no operator with
  `ArithmeticLogicUnit` or `ProcessMemory`.

## Abstractions

- **Programs are decoded.**  `code` maps pcs to records with the fields the decoder
  produces (`Decoded`).  The text lies in the read-only range (`ImageAssumption`) and does
  not change: programs that write their own instructions, by `readlinkat` or by a store that
  runs into the text from below, are not modelled.  A fetch outside `code` panics
  (`IssuePanics`): `read_inst` asks only whether the address is mapped, so this takes what
  is there for words that the decoder refuses.
- **Two models of memory.**  `ProcessMemory` has fixed ranges and is what the pipeline
  and its proofs use; `AddressSpace` has them as state.  The pipeline's
  `InitialMemory`, `EntryPoint` and `StackPointer` stand for what `Loader` builds.
- **Floating point.**  `issue` replaces a floating-point instruction by a no-op, so the
  decoder's floating-point functions are one function per opcode; which words panic
  is kept (`OpFpDecodes`).
- **Parameters.**  Word and byte widths, the sizes of a word and a half word, the number
  of registers, the latencies, the address ranges, the program, the initial memory and
  the allocator are CONSTANTS.  The proofs hold for all their values; the runs use
  small ones.  Arithmetic wraps at `WordMod`.
- **Node addresses** are values of `Nodes`; `AllocChoice` says which free ones `malloc`
  may return.  A freed address can be returned again.  Reading a freed node is reading
  outside `DOMAIN entry`, which TLC reports as an error.
- **HashMap order.**  A broadcast, a load or a unit's clock touches only its own entry
  and reads what the others leave alone, so the loops over maps are one simultaneous
  step; the comment at each definition says why.  Where the order could matter (two
  `jalr`s finishing in one clock) the choice is left open.
- **The host.**  A `write` may be short or fail, an `fstat` may fail, records and ids
  are chosen from `HostData` and `HostIds`.  `uname` and `fstat` fill a record of
  `HostRecordSize` bytes.  `readlinkat` may fail or fill any prefix of its buffer; its path
  is read by the host up to a NUL wherever that is, so what it names is the host's choice.
- **Panics.**  An `unwrap` of an `Err`, a slice out of bounds and arithmetic that
  panics lead to `status = "panicked"`.  `OverflowChecks` of `ArithmeticLogicUnit`
  selects the debug build that the repository's README describes; `BrkPanics` is the debug
  build's overflow of `addr + 1`.  `LoadPanics` is about the destination of a segment: a file
  is taken to have the bytes its headers name, so the slice of `elf_data` does not panic.

## Runs

The pipeline's runs use five to seven registers, latencies of a few clocks and, unless
stated, a 4-bit word that is also the byte.  What matters for the interleavings is the
*relative* order of latencies (ALU 1 < multiplication 2 < division and load 3),
which the source's 1, 4, 8 and 10 have too; the violation runs that depend on
latencies use the source's own.  A 4-bit word has sign, wrap-around and enough
addresses to hold a read-only range, writable data, a hole and a stack.  In each
run TLC explores *every* program of a family, so short programs with all the
combinations stand for long ones: the bodies are three or four instructions because
three is what a dependence, a third party to disturb it and its consumer need.  A
slow load or an immediate in front keeps the whole body in flight together.

| run | programs | checks |
|---|---|---|
| `core` | all 729 bodies of three over an increment, a multiplication, a load, two stores, two branches, `jal`, `jalr` | `PipelineInv`, `OrderInv`, `PathInv` (invariants proved below); `FetchFollowsPrediction`: the instructions in flight are one path and the pc is where it goes on; `RenamingIsYoungestWriter`; `NoMissedBroadcast`; `TagsAreOlder`: waits are never circular; `ImplementsSequentialMachine` |
| `memory_order` | words of three bytes, a writable word below the read-only range and writable data above it: all 2197 bodies of three over loads, stores, `amo*`, `lr`, `sc`, a division and a branch, with unmapped and read-only addresses and the word just below the range; all 729 over stores and loads of one, two and three bytes, signed and unsigned, a branch and an atomic | `LoadsSeeOlderStores`: a load that has read has no older store to the same bytes pending; `LoadsHaveWaited` (the invariant it is proved from); `ReadOnlyMemoryIsKept`; `ImplementsSequentialMachine` |
| `system_calls` | all 512 bodies of three that prepare and make system calls; 250 around a `readlinkat` into the data or the stack; all 1296 of four with loads from a register that may be unmapped, around branches that wait for loads | `SystemCallsAreSerialized`: nothing else is in flight and no register is renamed when a call runs; `PanicsAreReal`: the process panics only where the sequential machine faults, whatever loads on dropped paths recorded; `ImplementsSequentialMachine` |
| `loops` | every two-instruction body in a loop of three rounds, a load from nowhere included, and four larger loops (through memory, nested, through a subroutine) | `TypeOK`; `DataInv` (the invariant of the values in flight, proved below); `EveryInstructionLeaves`, `Terminates` (with fairness); `ImplementsSequentialMachine` |
| `reuse` | one program under *every* choice of the allocator | `NoDanglingIndex`; `RenamingIsYoungestWriter`; `ImplementsSequentialMachine` |
| `predictor` | two branches, five outcomes each, any interleaving of fetch and retirement | `PredictsLastRepeatedOutcome`: a branch is predicted to do what it last did twice in a row |
| `decoder` | every integer instruction with four register numbers and every immediate with one bit set or one clear; every opcode with every funct3, funct7 and three values of rs2 | `DecodesWhatWasAssembled`; `DecodesNothingElse`: a word is only taken for the instruction it encodes, up to the bits the decoder ignores; `DecodesToInstructions` |
| `loader` | every file of up to three headers with and without a gap, file bytes, bss, write permission and `PT_LOAD`; names of 1 to 17 bytes | `PushesSucceed`: no unwrapped write of the initial stack fails; `SegmentsAreInPlace`; `ProtectionFollowsTheHeaders`; `StackIsAsPromised` |
| `program_break` | any sequence of `brk` to any address and stores of one and two bytes, on 10 addresses | `StackIsKept`: the stack is served by its own buffer even when the break is moved above its start; `DataIsStoredUnlessCut`: a data byte is the one last put there, or 0 if a `brk` dropped it since; `ReadOnlyIsKeptOutOfReach`: a read-only byte is the loader's (or dropped), but for those a store can run into from below |
| `conformance` | each function of the ALU and the atomics, each pair of a store and a load, on all pairs of 4-bit words | `ComputesWhatTheManualSays`, up to panics and to high products of negative words; `LoadsExtendWhatWasStored` |
| `slow_store_address` | one program, the source's latencies | violates `LoadsSeeOlderStores`: finding 1 |
| `brk_truncates` | the instance of `program_break` | violates `StoredBytesAreKept`: finding 2 |

In `reuse` allocation is unrestricted over seven nodes; in the others the lowest free
node is taken, so that a node is reused as early as it can be.  `Nodes` is larger than
the number of instructions a program can have in flight.  The reorder buffer itself has
no capacity: were `Nodes` too small, `Issue` would be disabled and TLC would report a
deadlock.  Only `decoder` turns deadlock checking off: it decodes one word and stops.

The other bounds: the immediates of `decoder` put a bit through every wire alone, and
decoding is a union over the bits, so no combination is left out but by the sign, which
the cleared bits cover; three headers are a first, a middle and a last one, the only
positions the fold tells apart, and 1 to 17 bytes are every residue of the stack
pointer modulo 16; the 10 addresses hold a writable byte, two read-only ones (the first
within reach of a store from below, the second not), a hole and a stack longer than the data, so that `brk` can make the data overlap the stack, and accesses of
two bytes cross each boundary; at 4 bits every function has all its signs, carries and
shift amounts.

**What the passing runs leave out, and why.**  The findings are reachable with short
programs, so the families avoid exactly their triggers: the base register of every store
is one whose value is there when the store issues or arrives before a younger load
could read (no store base is loaded or multiplied); accesses of the 4-bit runs are one
byte wide, and those of `memory_order` overlap only if they start at the same address;
`readlinkat` is given a writable buffer; no store starts below the read-only range and runs
into it (those of `memory_order` to the word below fill just that word); no `ecall` names a
register; no `jalr` goes to address 0; and where
`PanicsAreReal` is checked no path, taken or not, leaves the text or has an ALU function
that can panic.  (Elsewhere a panic ends the run, as a stutter of the sequential
machine.)  In `program_break` a store that runs over the start of the stack from below is
not expected to be seen beyond it: it stays in the data vector.  Within those limits the
programs are exhaustive; what happens beyond each limit is a finding or one of the further
configurations.

## Findings

1. **A load may overtake an older store whose address is unknown**
   (`slow_store_address`).  `is_load_ready` holds a load back for older stores whose
   address is `Operand::Rob`; but a store's address is `Operand::None` until the address
   unit delivers it.  With the source's latencies, a store through a pointer that was
   loaded and incremented is overtaken by a load of the same word in the same clock.
2. **`brk` truncates the data** (`brk_truncates`): the vector is resized to the size
   of the growth.  What was stored beyond is gone, and addresses below the new break
   have no byte.

Each is stated as the violation of a property the passing runs, or the design
of the neighbouring code, establish; `PROJECT.json` quotes the lines.

**Further configurations.**  What the passing runs keep away from can be watched with these
configurations, each of which ends in a violation of the one property it checks.

| configuration | module | property | what it shows |
|---|---|---|---|
| `ByteIntoWord.cfg` | `MCPipeline` | `LoadsSeeOlderStores` | overlapping accesses of different widths are not ordered: readiness compares addresses for equality (`load_buffer.rs:106`) |
| `JumpToZero.cfg` | `MCPipeline` | `FetchFollowsPrediction` | a `jalr` to address 0 never moves the pc, because zero is also "no jalr finished" (`address.rs:91`); the same `jalr` is fetched again |
| `GuardedDivision.cfg` | `MCPipeline` | `PanicsAreReal` | a speculative division by zero ends the simulator: load faults are recorded and raised at retirement, the ALU's are not (`alu.rs:46`).  A fetch outside the text on a predicted path does the same (`pipeline/mod.rs:220`) |
| `SpeculativeOverrun.cfg` | `MCPipeline` | `PanicsAreReal` | so does a speculative load that runs over the end of memory: only the first address of an access is checked, and the slice panics on the spot (`memory/mod.rs:197`) |
| `ReadlinkReadOnly.cfg` | `MCPipeline` | `ReadOnlyMemoryIsKept` | `readlinkat` writes read-only memory: `read_bytes_mut` does not ask for permission to write, as `write` does (`pipeline/mod.rs:80`) |
| `StoreIntoReadOnly.cfg` | `MCPipeline` | `ReadOnlyMemoryIsKept` | so does a store that starts in the writable bytes below the range and runs into it: `write_slice` checks its first address (`memory/mod.rs:223`) |
| `StoreIntoStack.cfg` | `ProgramBreak` | `AcceptedStoresAreSeen` | once `brk` has moved the break above the start of the stack, a store that runs over that start succeeds, but its last bytes stay in the data vector, where no load looks (`memory/mod.rs:230`) |
| `EcallWithRd.cfg` | `MCPipeline` | `NoDanglingIndex` | an `ecall` word that names a register, which the decoder accepts, renames it and never frees it: `retire` returns before (`reorder_buffer/mod.rs:67`), and the table keeps the address of a freed node |
| `HighProduct.cfg` | `Conformance` | `HighProductIsUnsigned` | `mulhu` and `mulhsu` multiply signed operands, since `i32 as u64` extends the sign (`alu.rs:45`) |
| `ArithmeticTraps.cfg` | `Conformance` | `ArithmeticNeverTraps` | arithmetic the ISA defines ends the simulator: division by zero, the overflowing division, and, in the debug build, `amoadd` and `mulhu` on overflow |

## Fairness

`FairSpec` adds `WF_vars(Next)`.  One thread runs the loop, nothing it calls in the
model blocks, and every state of a running process enables a step, so the process
keeps taking steps.  No action has a fairness of its own: which one comes next is
determined by `stage`.  `Terminates` is claimed only for the programs of `loops`,
which end on the sequential machine.

## Proofs

All proofs are for every program and every value of the constants that satisfy the
assumptions of `Machine`, `ProcessMemory`, `SystemCall` and `Pipeline`: any number of
registers, any latencies, any memory layout, any allocator.  The theorems about the pipeline have one
condition in common, `EcallsNameNoRegister`: no `ecall` of the program names a register
(the ISA encodes `ecall` with `rd` = x0).  The table gives what else each needs.

| theorem | module | states |
|---|---|---|
| `InvariantHolds`, `TypeCorrect`, `PointersNeverDangle`, `BroadcastsAreNotMissed` | `PipelineProofs` | `PipelineInv`, `TypeOK`, `NoDanglingIndex`, `NoMissedBroadcast` |
| `OrderHolds`, `WaitsGoBack`, `SystemCallsRunAlone`, `RenamingIsRight` | `ProgramOrderProofs` | `OrderInv`, `TagsAreOlder`, `SystemCallsAreSerialized`, `RenamingIsYoungestWriter` |
| `OldestNeverWaits` | `ProgramOrderProofs` | the oldest instruction in flight has all its operands |
| `PathHolds`, `FetchIsOnPath` | `ProgramOrderProofs` | `PathInv`, `FetchFollowsPrediction`, if no `jalr` goes to 0 |
| `LoadsWait`, `LoadsKeepTheirOrder` | `ProgramOrderProofs` | `LoadsHaveWaited`, `LoadsSeeOlderStores`, if no load overtakes a store |
| `ReadOnlyIsKept` | `ProgramOrderProofs` | `ReadOnlyMemoryIsKept`, if no `readlinkat` is given a read-only buffer and no store runs into the range from below |
| `ValuesInFlightAreRight` | `DataFlowProofs` | `DataInv`, if no load overtakes a store |
| `PipelineImplementsMachine` | `RefinementProofs` | `ImplementsSequentialMachine`, if neither happens |
| `OldestPanicsAreReal` | `RefinementProofs` | `PanicsAreReal`, if no load overtakes a store and only the oldest instruction panics in `execute` or `issue` |
| `PredictionIsLastRepeat` | `PredictorProofs` | `PredictsLastRepeatedOutcome` |
| `BreakKeepsTheStack`, `BreakKeepsOrCutsTheData`, `ReadOnlyIsOnlyRunInto` | `ProgramBreakProofs` | `StackIsKept`, `DataIsStoredUnlessCut`, `ReadOnlyIsKeptOutOfReach` |
| `AssembledIsExecuted`, `NothingElseIsExecuted`, `WhatIsDecodedIsAnInstruction` | `DecoderProofs` | `DecodesWhatWasAssembled`, `DecodesNothingElse`, `DecodesToInstructions` |
| `LoaderIsRight`; `PushesNeverFail`, `SegmentsAreLoaded`, `ProtectionIsRight`, `StackIsRight` | `LoaderProofs` | `LoaderInv`; `PushesSucceed`, `SegmentsAreInPlace`, `ProtectionFollowsTheHeaders`, `StackIsAsPromised` |

**The conditions.**  Six things that would break a property the code does not
exclude, and each is a finding or one of the further configurations above:
`EcallsNameNoRegister` fails for a program (its text has an `ecall` with `rd` # 0),
`LoadOvertakes` (a load becomes ready past an older store whose address is unknown, or
that overlaps it without starting at the same address), `JalrToZero` (the address
unit finishes a `jalr` whose target is 0), `LinkIntoReadOnly` (a `readlinkat` is given a
buffer with a read-only byte), `StoreIntoReadOnly` (a store, an atomic or the record of an `fstat` or
`uname` starts below the read-only range and runs into it), and `PanicsAhead` (a load or a unit panics for an instruction that is
not the oldest, or the fetch leaves the text while others are in flight).  The first is about
the text, which no step changes; the others are state predicates or actions of one
handler.  The theorems say of every behaviour in which they never happen
that the property holds, so nothing *else* can break it.  Behaviours that meet the
conditions are the rule: `LoadOvertakes` and `JalrToZero` are false in every reachable
state of the five passing pipeline runs, whose programs satisfy `EcallsNameNoRegister`;
`LinkIntoReadOnly` and `StoreIntoReadOnly` in `memory_order`, which checks
`ReadOnlyMemoryIsKept`; `PanicsAhead` in `system_calls`, which checks
`PanicsAreReal` (and where failed loads, stores and system calls do end the process).
Without `~LoadOvertakes` the run `slow_store_address` shows the failure, without the others the
configurations `EcallWithRd`, `JumpToZero`, `ReadlinkReadOnly`, `StoreIntoReadOnly`,
`GuardedDivision` and `SpeculativeOverrun` do.

**Pointers: `PipelineInv`.**  The type invariant is not inductive: whether
`entry[related_rob[r]]` is an entry at all, and whether `op1.val` exists, depends on how
the buffers relate.  `PipelineInv` adds

- `EcallsNameNoRegister`: else a retired `ecall` would leave a register renamed to a node that
  is gone, which `RenamesAreWriters` excludes;
- `BufferIsLive`: the list has no repetition and is exactly the live nodes;
- `ProducersAreUnfinished`: a node is in the unit its instruction belongs to if and only
  if its register value is missing (stores excepted), and unfinished units have clocks left;
- `AddressesAreMissing`: the address unit holds just entries without an address, and a
  load in it has not read yet;
- `RenamesAreWriters`: a register is renamed to an instruction that writes it and is in
  the list or, inside commit's loop, popped, completed and not retired yet;
- `OperandsAreOwed`: an operand that waits, waits for a node in a producing unit, and an
  entry never waits for itself.

An entry that commit pops is completed, so by `ProducersAreUnfinished` and
`AddressesAreMissing` no unit holds it, so by `OperandsAreOwed` no operand names it, and it
can be freed.  A broadcast removes from the producers exactly the nodes whose tags it
resolves.  An operand captured at issue comes from the renaming table, whose node is in the list (issue is outside commit's loop),
and is a tag only if the value is missing, hence owed.  One lemma per action
(`PopCompletedStep`, ..., `IssueStep`) has one step per part of the invariant.

**Positions: `OrderInv` and `PathInv`.**  `TagsAreOlder` and `RenamingIsYoungestWriter`
speak of positions through `CHOOSE`, and say too little of the entries inside commit's
loop to be inductive.  `OrderInv` says with quantifiers that tags name earlier entries
(`WaitsAreOlder`), that what commit holds is completed, freed and without repetition
(`PoppedAreCompleted`), that nothing follows an `ecall` (`EcallsAreLast`), and that every
writer not overwritten by a younger one in flight is named by the table
(`LastWritersAreNamed`); with `RenamesAreWriters`, which says that what is named is such
a writer, this determines the table.  `PathInv` needs that a `jalr` without a target is
the youngest entry and in the address unit (`JumpsAreLast`), since its entry's successor is
not yet known and the pc is not yet right for anything else.  `ProgramOrderProofs` begins with the
lemmas these proofs and the following share: for each action, which entry of the next list
is which entry of the old one, and which of its fields have changed.

**Memory order: `LoadsHaveWaited`.**  That a load that has read does not overlap an older
store is not inductive as long as a store's address can become known later; the invariant
adds that all older stores then have their addresses, which `is_load_ready` together with
`~LoadOvertakes` ensures at the moment of reading, and which no later step undoes because
whatever is issued later is younger.

**Values: `DataInv`.**  The statement is about *places* in `Pending`, the popped and listed
instructions in program order, and never about clocks: `Sees(P, g, k, r, v)` says that `v` is
what instruction `k` must see in register `r` (the value of the last writer before it, or
the register file's if there is none).  Each part says of one kind of value that it is the
right one, once it is there: operands in the station and addresses in the unit
(`Carries`, or else they wait for the last writer), results (`Computed`), addresses
(`Aims`), what a load has read (`LoadIsCurrent`: still what memory holds, or the
instruction itself has stored), what a store will write (`StoreIsRight`).  Retirement shifts
all places by one and moves the oldest value from the list to the register file, which
`Sees` does not notice; a store by the oldest instruction changes memory, which
`LoadsHaveWaited` keeps from every younger load that has read; a flush keeps no places at
all.  `StoresLeave` (an instruction that has stored retires in the next commit) and
`EcallEndsCommit` (an `ecall` retires last) make "the oldest has stored" a state the
refinement mapping can read off.

**The refinement.**  `RefinementProofs` shows for each action that it is a step of
`SequentialMachine` or leaves its variables alone, under the mapping `ArchPc`, `ArchGpr`,
`ArchStatus`.  The four retirements and the store in `execute` are the real steps: the
instruction is `code[ArchPc]` because the list is a path (`PathInv`) that starts there,
its operands are those in `gpr` because it is the oldest, so that `Sees` has no earlier
writer to choose, and its next pc is that of the instruction behind it, or the pc if
there is none.  A store or an atomic has its effect in `execute` and must then be
silent when it retires; a mispredicted branch makes the flush silent because what is dropped
has had no effect.  All other actions stutter (`QuietStutters`): they change neither
registers nor memory, and the oldest instruction without effect stays where it was.

**Panics.**  `PanicsAreReal` follows from the same facts: a recorded fault is raised for the
oldest instruction, whose address `DataInv` says is the sequential machine's; a store is
tried only at the head of the list; and what a load or a unit of the head works on is what the
sequential machine would, so it has no step either (`EntryFaults`).

**Assumptions.**  They are on the machine's parameters (sizes and latencies are positive,
the ranges are ordered, `None` is no value), on the call convention (the number and the
result of a system call are in different registers, neither of them x0; the exit test
reads the number after the result is written) and on the operators that stand for
`alu::alu` and the atomics' arithmetic: they return words, the unit's result for `jalr` is
the next pc (`UnitAssumption`; `alu.rs` adds its operands, the pc and the instruction size)
and an `sc`, for which `alu.rs` has no arm of its own, gives 0 and does not panic.  TLC evaluates them in every run, with
`ArithmeticLogicUnit` in place of the operators.  Nothing is assumed of the allocator
except that it returns a free address.

**The predictor.**  `HistoryInv` says what the two bits remember of each branch: the second its
last outcome, the first the last outcome that came twice in a row (the entry starts as if
two branches not taken had gone before).  `PredictsLastRepeatedOutcome` alone says too little of a
branch whose last two outcomes differ.

**The break.**  None of the three properties is inductive, since they speak only of bytes that
can be read, and `brk` changes which those are.  `BreakInv` speaks of the vectors themselves:
every byte of the stack's buffer is what was stored at its address (`StackHolds`); every
data address, mapped or not, has exactly what was last put there, or 0 if it has been cut
since, in the vector or, beyond its end, in what a later resize will append (`DataHolds`);
and what was last put at a read-only address no store reaches from below is the loader's
byte (`OutOfReachHolds`).

**The decoder.**  TLC runs the decoder on some 160 000 states; the theorems speak of every one
of the 2^32 words and of every instruction that can be assembled (`Assemblable`: registers
below 32, an immediate its format can carry).  The argument has two halves that meet at
the fields.  `FieldIsPlaced` and `PlacedIsField` say that a mask and a shift undo the
assembler's placing of a number and the other way round, so a word is determined by
its fields (`Pieces`); `ImmRoundTrip` says the same of the immediates, whose scattered bits
`RawMember` follows one format at a time and whose sign `SignExtended` restores.  Then
`DecodedIsAssembled` reads off the fields of a word that decodes that it is the word of its
instruction but for `Ignored`, and `AssembledIsDecoded` that the decoder's matches
(`CodesHaveFunction`, `FunctionHasCodes`) give back what was assembled.  The fields are finite
sums of at most seven bits, so no induction is needed.  `NoneAssumption` says that `None`
is no field, and `InstructionAssumption` that the sources can be assembled (with any
registers in an `ecall`, as the decoder takes it).

**The loader.**  None of the four properties is inductive: they speak of the memory when all is
done.  `LoaderInv` says in every stage what is true so far: `SegmentsLoaded` (the data vector
is exactly as long as its range, holds each folded segment byte by byte at its
address, and ends before the next), `ReadOnlyRange` (the range goes from one read-only
segment to another and spans all of them), `StackPushed` (each pushed object lies whole at
its place; the next push goes below it).  It holds for any number of headers and any name.
`InputAssumption` is what the file format and the host guarantee: `PT_LOAD` headers ascend
and do not overlap, which the ELF specification demands; the segments end below the
stack, as a program's must if it is to have one (the stack takes the last 8 MiB of the
addresses, `AddressMod - StackSize` on); and those 8 MiB have room for the
headers (at most 65535, 2 MiB) and the name.  Files whose headers descend are not
covered.  Proving it showed that two definitions had `CASE`s whose guards overlapped,
which TLC resolves silently in favour of the first; they are written with `IF` now.

**Only model-checked**, and why:

- `EveryInstructionLeaves` and `Terminates`: liveness under fairness, and `ENABLED`, are
  beyond the prover.  (`OldestNeverWaits` and `WaitsGoBack` are their safety half: waits
  never form a circle.)
- `ComputesWhatTheManualSays`, `LoadsExtendWhatWasStored`: `ArithmeticLogicUnit` uses bitwise
  operators, which are recursive and which the prover cannot load, and the reference
  is a fold over the bits of a word, whose value needs induction over data.

## Not modelled

- Self-modifying programs (the text is read-only), and the text a `brk` program would
  place behind its data.
- The ELF format itself (goblin parses it), headers out of ascending order, which the
  format forbids, and the values of the auxiliary vectors (opaque words).
- Floating-point instructions are replaced by a no-op by `issue`, and are here.
- Option parsing, printing and the clock counter: no effect on the machine.
- `reorder_buffer/iter.rs` is dead code.
- Capacity: the reorder buffer has none.  The runs bound the nodes, the proofs do not.

## Plan

Order of work, the most important behaviour first:

1. *Done:* the pipeline with all its actions, the sequential machine and the refinement;
   the invariants between the buffers; system calls; the predictor; `PipelineInv`
   proved inductive.
2. *Done:* accesses of several widths; the ALU and the memory against the ISA; the
   decoder against the ISA's formats; the loader and the initial stack; `readlinkat` in
   the pipeline and `brk` beside it, proved to keep the stack.
3. *Done:* the order of the instructions in flight, the path of the fetch, the order of loads
   and stores and the values in flight as inductive invariants, and from them the whole
   refinement, and that the panics of the oldest instruction are real; the predictor; read-only
   memory.
4. *Done:* the decoder, for every word; the loader, for any number of headers; the
   invariants of the path and of the waiting loads as theorems of their own.

Every safety property the passing runs check is now a theorem, except the two about bitwise
arithmetic.  What would come next is code that is not there yet: a bound on the reorder buffer, and a
repair of the first finding and of the `jalr` to 0, each of which would remove a condition of
the refinement theorem.
