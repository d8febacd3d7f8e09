# kdvm in TLA+

This directory holds TLA+ models of kdvm (GRRVM), the stack-based virtual
machine in C with a Java assembler, the TLC configurations that check them on
small instances, and TLAPS proofs of the properties that matter most for every
size of the arrays. Source paths below are relative to `src/`.

- [The system](#the-system): the inventory of components
- [Modules](#modules): which module models what, and how
- [Runs](#runs): what TLC checks, bounds, fairness
- [Where code and documents disagree](#where-code-and-documents-disagree)
- [Theorems](#theorems): what is proved, and how
- [Not modelled](#not-modelled)
- [Plan](#plan): what is done, and what is next

## The system

`main.c` assembles a `.grr` file (by starting the Java assembler), or runs a
binary (`.grro`): `vm_init`, `load_kdm_file`, `vm_execute`. A host program may
instead embed the VM and request more threads with `vm_request_thread` before
`vm_execute`. One C thread runs everything; concurrency is the interleaving of
VM threads, one instruction at a time, over one `ram[]` and one heap. A failing
check in an instruction either ends its thread or calls `exit()`, which ends the
process with all its threads.

| Component | State | Operations | Interacts with |
|---|---|---|---|
| Buddy heap, `memory/heap_memory.c` | `heap_alloc_mask`, `heap_split_mask` (variables of the file), headers in `ram[]` | `malloc_heap`, `free_heap` (`buddy_heap_init` exists and is never called) | called by `H_ALLOC` and `H_FREE`; writes headers to `ram[]` without `store_global` |
| RAM and word states, `memory/memory.h`, `core/eval/eval_memory.c` | `VM.ram`, each word with a `word_state` | `store_global`, `load_global`; `LOAD`, `STORE`, `ISTORE`.., `LOAD_OFF`, `STORE_OFF` | filled by the loader; holds heap headers |
| Calls and locals, `eval_control_flow.c`, `eval_memory.c` | `call_stack`, `stack_frame`, `ram_stack` and their tops, `pc` | `CALL`, `RET`, jumps, `HALT`, `STORE_L`, `LOAD_L`, `ISTORE_L`.. | `vm_request_thread` opens the frame of `::_global` |
| Operand stack and types, `math/`, `util/types/`, `io/eval_io.c` | `VM_Thread.stack`, `sp` | stack instructions, arithmetic, comparisons, conditional jumps, `IN`, `OUT` | everything passes values through it |
| Threads and scheduling, `core/vm.c`, `core/vm_threads.c` | the pool, each slot's `status`, the loop's `i` and `free_threads` | `vm_init`, `vm_request_thread`, the loop of `vm_execute` | runs the instructions of all of the above |
| Several VMs | one pair of masks for all of them | as above | `README.md:13` promises independence |
| Assembler, `assembler/Assembler.java` | symbol table, subroutine map, word counter, program, the output file | two passes over the source, and the writing of the binary | agrees with the loader on the file, with the VM on operand counts |
| Loader, `assembler/loader.c` | none of its own | `load_kdm_file` | fills `program[]` and `ram[]` from what the assembler has left on disk |
| Command line, `main.c` | the binary on disk, between two commands | `command_compile_vm`, `command_run_vm` | starts all of the above |

Components that keep no state of interest (printing, the syscall stub, terminal
handles, the Python assembler, the hash map, build files) are
listed in `PROJECT.json` with the reason they are left out.

What is hard here, and what has to hold:

- **Heap.** A block is marked in one mask and its ancestors in the other; the
  marking on allocation stops at the first free buddy, the clearing on free at
  the first unmarked parent, and coalescing reads both masks while they change.
  Over any history of sizes: live blocks must be exclusive, every free block
  found again from the level in the word before it, nothing be lost, and a
  request fail only when there really is no room. A second free of an address
  passes all checks, for the header stays behind.
- **RAM.** A stored value brings along the `word_state` it was loaded or built
  with. Constants have to stay constant, headers untouched, mutable words mutable.
- **Calls.** Call stack and frames are pushed with different macros and limits;
  a frame grows while it is used, and the next one starts where it ended at the
  time of the call. Frames have to stay apart, and locals survive calls.
- **Values.** Five types in one union, conversions with a missing case, words
  of which only some bits are written. Arithmetic and comparison should be those
  of the numbers the values stand for.
- **Scheduling.** The loop counts free slots one by one while threads end in
  between. It must not return early, nor starve a thread, nor spin forever.
- **Assembler.** The first pass counts words, the second emits them, the VM
  fetches them: three places, two languages, one layout. Jumps count from the
  start of a subroutine, CALLs name one, locals have names in the text and offsets
  in a frame: the run of the words has to be the run of the text.
- **The file.** The assembler empties the old binary, then writes three parts; it
  may fail or be killed before, between and after them. `kdvm -r` takes what is
  there. It has to run one whole binary or nothing.

`PROJECT.json` lists every hazard at its line, with the properties that watch it.

## Modules

| Module | Models | Extends / instantiates |
|---|---|---|
| `BuddyTree` | the tree: levels, nodes, addresses, the search and mark operators, as closed forms | |
| `BuddyHeap` | `malloc_heap`, `free_heap` as actions; programs with and without double frees | `BuddyTree`; refines `HeapSpec` |
| `HeapSpec` | what a heap promises, without masks or tree | |
| `BuddySearch` | the recursion and the loops of `heap_memory.c` step by step, compared with the closed forms | `BuddyHeap` |
| `VmMemory` | `ram[]`, static data, the memory instructions | `BuddyHeap` |
| `TwoMachines` | two VMs over one pair of masks | two instances of `BuddyHeap`; both together refine `HeapSpec` |
| `CallFrames` | calls and locals of one thread | |
| `Operands` | operand stack and arithmetic of one thread | |
| `Scheduler` | thread pool and `vm_execute` | |
| `GrrSource` | the lines of a `.grr` text, and the classes of instructions | |
| `Assembler` | both passes of `compileGrrToBin`, and the writing of the binary | `GrrSource` |
| `Program` | from the text over the binary and the loader to the end of execution | `Assembler`, an instance of `CallFrames`; refines `SourceRun` |
| `SourceRun` | what running a text means, without addresses, offsets or frames | `GrrSource` |
| `BuddyHeapProofs` | lemmas about the tree, theorems about the heap, and the closed forms | `BuddySearch` |
| `VmMemoryProofs` | theorems about the RAM over the heap | `VmMemory`, `BuddyHeapProofs` |
| `TwoMachinesProofs` | theorems about two VMs | `TwoMachines`, four instances of `BuddyHeapProofs` |
| `CallFramesProofs`, `OperandsProofs`, `SchedulerProofs` | theorems | the module they are about |
| `ProgramProofs` | theorems about the assembler, the binary and its execution | `Program`, an instance of `CallFramesProofs` |
| `SourceRunProofs` | that executing the binary is running the text | `ProgramProofs` |
| `MC*` | constants too large for a `.cfg` | the module they check |

### BuddyTree, BuddyHeap, HeapSpec, BuddySearch

A mask is the set of the nodes whose bit is set; nodes are numbered from 0 at
the root as in the code, the children of `i` being `2i + 1` and `2i + 2`.
A call of `malloc_heap` or `free_heap` is one action, since it runs to its end
inside one instruction of one C thread. `MallocRefused`, `MallocFull` and
`MallocOk` are its three outcomes, `Release` is a free that passes the three
checks and `FreeRejected` one that does not. `live` and `ret` are history: what
the program holds, and what the last call answered.

`BuddyTree` gives the recursion of `buddy_find_free` and the `while` loops as
what they compute: the first candidate in depth-first order, the ancestors that
get split, the ancestors that become full. That this is what the code computes
is not taken for granted: `BuddySearch` writes the same functions down step by
step, as recursive functions. Its run compares both in every reachable pair of masks,
those that double frees produce included, and `BuddyHeapProofs` proves them equal on
every tree. The closed forms are what the other proofs use.

The tree has `MaxLevel + 1` levels; the arena is `2^MaxLevel` words, the largest
power of two in `HEAP_RAM_SIZE`, as in the code. Addresses are unsigned and wrap
at `WORD_MOD`; a failed call returns `WORD_MOD - 1`, the `(uint32_t)-1` of the
code.

`Next` is a program that frees what it holds, once, or the result of a failed
call. `StaleNext` also frees again what it freed before.

### VmMemory

`ram` maps each address to payload and `word_state`. The initial state is that
after `vm_init` and `load_kdm_file`: `Image` is the data section, the rest is
what the memory of the VM held before. One action per instruction; an operand
that the program pushed just before (address, size) is an input of the action.
`stack` holds values between a load and a store. `running` becomes FALSE where
the code calls `exit()`. `PUSH` and `ISTORE` build a value without setting its
`word_state`, so it is any member of `Indeterminate`. What type an operand has is left
to `Operands`; here an instruction that takes an address or an offset from the stack may
find it `Mistyped`, and the process ends. Offsets are signed, and so is the length
that `LOAD_OFF` compares them with, which may be that of a word that holds no length
(`Signed`, `ElementCounts`).

### TwoMachines

Two instances of `BuddyHeap` with their own headers and live blocks but the same
masks, since these are variables of `heap_memory.c` and not of the `VM` struct.
An action is an instruction of one of the machines. `OneHeap` maps both to one heap
of `HeapSpec` that holds the blocks of both: whoever asks gets the lowest run that
neither uses, and gives back only blocks of its own.

### CallFrames

One thread: `vm_request_thread`, `HALT`, `CALL`, `RET`, `JUMP` (also a conditional
jump that is taken), a local store and a local load, each with its failure. The
program is not fixed: any instruction may follow any other, with the operands as
inputs, so every program is covered. `stored` is history: per activation and
offset, what was stored last. `RET` checks `sfp` as the code does, and ends the process
if there is no frame, which no run finds (`LockStep`). The fetch is guarded by `pc` being inside the
program memory, which the code leaves to the program.

### Operands

A value is its type and the word of the union. `c` and `b` are the low bits of
that word, so an instruction that writes only `c` or `b` leaves the others as
they were; `IN` does so in an uninitialised variable. A FLOAT is a number on a
uniform grid with infinities and NaN: sums and differences on it are exact until
they overflow, products and quotients round to it. Fallthrough from `FOUT` into
the next case, integer division by zero and `INT_MIN / -1` are as in the code. Integer
overflow, which C leaves undefined for `int`, wraps around as in the builds of the
repository. `IN` is answered at once with any value of the type it asks for, and for ADDRESS,
which it does not read, with what was in the variable before; operands above 4, which
make a value of no type, are left out. That `IN` waits is in `Scheduler`.

### Scheduler

`phase` is the host before `vm_execute`, its loop, an `IN` of the loop that waits, or
its end. One action per
visit of a slot: `VisitFree`, `Execute`, `ExecuteExits`, then `NextPass` or
`Return`. What an instruction does is reduced to what the loop sees of it: the
thread goes on, ends (`left` is the number of instructions it has left), the
process exits, or the instruction waits for input. Then the loop waits, and with it
every thread, until `InputArrives`: `scanf` and `getchar` in `io/eval_io.c:19-35` block
the one C thread there is. The instruction is not tried again in a later pass, as the
comment at `core/vm.c:50-51` has it of instructions that cannot proceed: the checkpoint
is written and never read. `since` is history: who has executed since a slot last did.

### GrrSource, Assembler

A state is a place in one of the passes, with the symbol table, the start and
the locals of each subroutine, the data words with their `word_state`, the words
emitted so far, each with the line it comes from, and the file. One action per
kind of line and pass. A line is given as its parts; splitting text into tokens is
left out, and so are the bits of float, character and byte literals: a token is a
number or it is none. A name is one name with and without `$` or `::`; in
the symbol table these are different keys, which the assembler tries in turn. Operands that are missing, superfluous or of the wrong kind
have the effects they have in the code (`Malformed`, `OperandTokens`,
`OperandWord`). An instruction in a data section is a declaration of an unknown type:
with two values or more it is an array to the assembler, which gives it a word for its
length and none for the values (`Elements`). `Fetches` is the other side of the contract, the number of
operands the VM fetches, from the handlers in `core/eval/`, and that of `IN` in
`io/eval_io.c`.

Then the binary is written: `OpenOutput` empties the file of the earlier run
(`Leftover`), `WriteHeader`, `WriteProgram` and `WriteData`, the last once for
each word, append to it. `WriteFails` is the `IOException`, or the death of the
process, at any of these points. A write that is torn leaves less than one part,
which the loader, reading the same parts, does not tell from a missing one.

### Program, SourceRun

`Program` goes on from there with `kdvm -r`: `load_kdm_file` where the file is as
long as its header says, `LoadFails` where it is not, `StartExecution` for the
`vm_request_thread` of `vm_execute`, and one action for each instruction of a
sample: those that decide where a program goes, that use locals, that load data,
and a few that compute. The frames and the call stack are those of `CallFrames`,
of which `VM` is an instance; `Program` adds the fetch of opcode and operands from
`program[]`, and the stack. Values are INTs here; a word of `program[]` or `ram[]`
is read as an unsigned number of the width `WORD_MOD`, so that a negative literal is
what its bits are. `Offsets` are those a local can have: each has an instruction of
at least two words that names it first. The commands come one after the other, as a
user gives them.

`machine` becomes `"wild"` where the code goes on without a meaning: at the end of
the code, in an operand, off the operand stack, at an instruction that is not in
the sample, or after a load of more data than `ram[]` has. A run is followed no
further there.

`SourceRun` says what the README does of the instructions, on the text: a line
runs after the other, a `CALL` enters the subroutine of that name, a local keeps
what this activation has stored, a jump counts the words of its own subroutine, a
`LOAD` of a symbol yields what was declared. A text that breaks the rules in
`WellFormed` may do anything, and a local that was not stored may hold anything.
`Text` maps the one to the other: addresses to the lines their words come from,
frames and offsets to activations and names. That this is a refinement holds only
if both passes, the resolution of symbols, the numbering of locals, the fetch, the
frames and the loader all fit together.

## Runs

The longest runs, `program` and `operands`, take one to two minutes on two workers. The code is not
parameterised by much: array sizes, the width of a word, the program. These are
the CONSTANTS.

### Passing

| Run | Shows | Bounds, and why they are enough |
|---|---|---|
| `buddy_heap` | blocks exclusive, headers found, masks exact (`AllocMeansFilled`, `SplitMeansInUse`), `BuddyHeap` implements `HeapSpec` | three levels, four words, all sizes `0..15`. Three levels are the least at which both upward loops and the search run for more than one iteration and can stop in the middle; every shape of full, part-full and free subtree occurs. The arena starts at 3 and is smaller than `HEAP_RAM_SIZE` (5). |
| `buddy_search` | the code's recursion and loops equal the closed forms | the same, with double frees, which reach masks no orderly program does |
| `vm_memory` | constants and headers are never written behind the allocator's back | one constant, one mutable word, a heap of two words, every address and one past the end, offsets 0 and -1, operands of a wrong type, double frees |
| `two_machines` | two VMs do not damage each other, freed memory comes back, and both are answered as from one heap (`OneHeap`) | four words, requests of 0 and 2 |
| `call_frames` | frames apart, locals kept, stacks in step | two return addresses, three words of locals: both limits, and failure at each, are reached with nested calls |
| `operands` | `+` and `-` are those of numbers, in a type no narrower than the operands, `/` and `%` of integers round as in C and never get a divisor of zero, the six comparisons are one order | words of 3 bits, CHAR and BYTE of 2, a grid with 3 steps to 1.0, stack of 3: every sign, every wrap, overflow to infinity and NaN occur. CHAR (16 bits) and BYTE (8) have the same width here; they differ in signedness |
| `scheduler` | no early return, round robin; if every `IN` is answered, every program ends and `vm_execute` returns | four slots, programs of 1 to 3 instructions or endless, any instruction of which may end the process, or wait for input unless it is one that ends its thread |
| `program` | subroutines are where they were mapped, the VM decodes what was written, one offset per local and subroutine, a binary runs whole or not at all, its run is one of the text, and programs without jumps end | every text of up to four lines over 14 lines, one of every layout; and families of longer ones: calls with locals on both sides (`Calls`), mutual recursion (`Mutual`), subroutines in two parts (`Continued`), operands missing, superfluous, of a wrong kind or among the data (`Crooked`), two declarations of data and what finds them (`Lookups`), loops and the recursion of `tests/test_recursion.grr` (`Loops`). 20 words of program, two return addresses, four words of locals, a stack of three, eight words of RAM, all of 5 bits: all limits are reached and passed. A literal and a word of data are negative. The assembler may stop at every point of its writing, over an old binary with code and data of its own. |

Deadlock is checked where the system can go on forever (the heap runs). In the
others the process may end, by `exit()`, by the end of all threads, or with the
binary written, or the bound on the stack leaves a program nothing to do.

What the properties leave out, because the code does not do it: `AddsNumbers`
leaves out the value of a BYTE with a FLOAT, and says of a sum of two narrow values only
that its type is no narrower; `OrdersNumbers` leaves out BYTEs (`equal_bytes`
below); `CodeWhereMapped` leaves out sources with code before the first header, which
the second pass emits and the first does not count;
`DecodesAsWritten` leaves out `LOAD`, `STORE` and `OUT` written with an operand,
which the README documents without one, and for which the assembler emits a word
that the VM takes for an opcode; `ImplementsText` leaves the same out through
`WellFormed`. `DividesNumbers` leaves out `INT_MIN / -1`.

### Fairness

`Scheduler` and `Program` have liveness properties. The fairness of `Scheduler`
is `WF_vars(Loop)`: the loop is C code on the only thread, so while it can take a
step it takes one. There is none on the host, which may never call `vm_execute`,
none on `ExecuteExits`, since no program has to exit, and none on single threads
of the VM: that each gets its turn is what the loop has to achieve.
`EveryProgramEnds` and `ExecutionReturns` leave a way out through `exit()`,
which any instruction of any thread may take.

There is no fairness on `InputArrives` either: an `IN` may wait for ever, and then
nothing else happens in the process. So both properties have a premise, `Answered`: every
`IN` that waits is answered in the end. It is an assumption about users, for the code
has no timeout and no other thread to go on with. Without it both are false, as one
thread that waits shows; `README.md:162` says as much of the thread itself ("Pauses
execution"), and of the others nothing.

That of `Program` is `WF_programVars(Execute)`, the same loop with one thread in
it. Nothing is assumed of the assembler, which may die, nor of the user, who may
never run the binary. `IN` is not among the instructions of its sample, so that none
there can wait. `RunsEnd` speaks of programs without jumps: they can go on only
by recursion, which the call stack ends, and a `RET` that would go back to its own
`CALL` is what would keep one from ending.

## Where code and documents disagree

Each of these runs checks one property, which states what a document says, and
TLC finds a behaviour of the code that violates it.

| Run | Documented | What the code does |
|---|---|---|
| `data_mutable` | `README.md:180`, `::_data` is mutable | `STORE` copies `word_state` too: a constant stored into mutable data makes it constant |
| `heap_reuse` | `README.md:142`, freed memory can be allocated again | the header of a freed block stays constant inside a larger block allocated later; its owner cannot store there |
| `machine_alone` | `README.md:13`, no global state, machines are independent | the masks are shared: one machine's allocation makes the other's fail or move |
| `equal_bytes` | `README.md:149`, `CMPEQ` | a BYTE has no case in `primitive_as_double` and counts as 0 |

Their bounds are the smallest at which the case occurs: one constant and one
mutable word; three levels, for two blocks and one that takes the place of both;
two machines over two words; two values on the stack.

The models behave as the code does in other places that a reader of the documents
would not expect, on which no run is spent:

- `PUSH` and `ISTORE` leave `word_state` unset (`Built` of `VmMemory`), with the
  effect of `data_mutable` if what the C stack held looks like a constant.
- Static data longer than `GLOBAL_RAM_SIZE` reaches into the heap, where
  `malloc_heap` writes its header over it; so `ConstantsImmutable` has a condition.
- `STORE_OFF` ignores its offset and stores over the length of the array.
- A frame grows to the largest offset stored, and the words below that were not
  stored show what another subroutine left (`LOAD_L` of `CallFrames`).
- Arithmetic makes an INT of everything that is no FLOAT (`Promoted` of
  `Operands`), where `README.md:114-117` has the highest common type: CHAR for a CHAR and
  a BYTE. `AddsNumbers` does not take sides there.
- An `IN` that waits stops every thread of the process (`WaitForInput` of `Scheduler`).
- In a data section, a line without a type and with two values or more allocates the word
  for a length, and moves what is declared behind it (`Elements` of `Assembler`).
- `JZ` and `JNZ` test all bits of the union, of which `IN` has written some only.
- With two headers of one name, jumps under the first are relative to the second
  (`resolveJumpTarget` of `Assembler`).

## Theorems

All proofs are checked by TLAPS 1.4.5 with Z3, Zenon and LS4. They hold for
every value of the constants that satisfies the `ASSUME`s of the module.

| Theorem | Module | States |
|---|---|---|
| `TypeCorrect` | `BuddyHeapProofs` | `StaleSpec => []TypeOK` |
| `HeapInvariant` | | `Spec => [](TypeOK /\ NoNesting /\ Placed)`; its parts are `NeverNested`, `BlocksPlaced` |
| `Exclusive` | | `Spec => []NoOverlap` |
| `HeadersFound` | | `Spec => []HeaderIntact` |
| `NothingStaysSplit` | | `Spec => []SplitMeansInUse` |
| `MarksExact` | | `Spec => []AllocMeansFilled` |
| `BuddyImplementsHeap` | | `Spec => ImplementsHeapSpec` |
| `LoopsAreExact` | | `StaleSpec => []LoopsAgree`: marking and clearing upward |
| `SearchIsExact` | | `StaleSpec => []SearchAgrees`: the depth-first search |
| `LevelsAreExact` | | `StaleSpec => []LevelsAgree`: the levels of sizes and headers |
| `BothTyped` | `TwoMachinesProofs` | `Spec => []TwoTypeOK` |
| `MachinesApart` | | `Spec => []NoSharedNodes` |
| `EachKeepsItsOwn` | | `Spec => []EachFindsItsOwn` |
| `MarksComeBack` | | `Spec => []NothingLost` |
| `MachinesShareHeap` | | `Spec => OneHeap` |
| `MemTypeCorrect` | `VmMemoryProofs` | `MemStaleSpec => []MemTypeOK` |
| `ConstantsKept` | | `MemStaleSpec => ConstantIsForever` |
| `ConstantsImmutable` | | `Len(Image) <= HEAP_RAM_START`: `MemStaleSpec => []ConstImmutable` |
| `HeadersKept` | | `MemStaleSpec => []HeadersUntouched` |
| `ProgramsUseHeap`, `HeapPromiseKept` | | `MemSpec => Spec` of the heap, `MemSpec => ImplementsHeapSpec` |
| `ContentsKept` | | `MemSpec`: no call of the allocator changes a word of a live block |
| `FramesInvariant` | `CallFramesProofs` | `Spec => []FrameInv` |
| `FramesTyped`, `FramesStayApart`, `LocalsSurvive`, `StacksInStep` | | its parts |
| `LoopInvariant` | `SchedulerProofs` | `Spec => []LoopInv` |
| `LoopTyped`, `NobodyAbandoned`, `RoundRobin` | | `[]TypeOK`, `[]ReturnsWhenAllFree`, `TakesTurns` |
| `ThreadsCountDown` | | every step of the loop brings every thread that ends one step nearer to its end, or begins to wait for input and changes nothing |
| `ReturnCountsDown` | | when all slots are free, every step of the loop counts down to its return |
| `StackTyped` | `OperandsProofs` | `Spec => []TypeOK` |
| `NumbersOrdered` | | `Spec => []OrdersNumbers` |
| `NumbersAdded`, `NumbersDivided` | | `Spec => AddsNumbers`, `Spec => DividesNumbers` |
| `AssemblerTypes` | `ProgramProofs` | `Spec => []TypeOK`, of `Assembler` |
| `PassesAgree` | | `Spec => []CodeWhereMapped` |
| `OpcodesFound` | | `Spec => []DecodesAsWritten` |
| `OneOffsetEach` | | `Spec => []LocalsApart` |
| `CommandsApart` | | `ProgramSpec => Spec`: what holds of the assembler holds of every run of the commands |
| `WholeBinaries` | | `ProgramSpec => []RunsWholeBinary` |
| `ProgramTyped` | | `ProgramSpec => []ProgramTypeOK` |
| `ProgramKeepsLocals` | | `ProgramSpec => [](VM!LockStep /\ VM!FramesApart /\ VM!LocalsKept)` |
| `RunsCountDown` | | without jumps, every step of a run comes nearer to its end |
| `ProgramImplementsText` | `SourceRunProofs` | `ProgramSpec => ImplementsText` |

**The heap.** `NoOverlap` is not inductive: nothing in it says that
`buddy_find_free` will not return a node inside a live block. `NoNesting` does: a
live block is marked allocated and what contains it marked split, so the search
neither stops above nor descends into it. A free must not disturb that for the
other blocks: it clears allocated bits of the block and its ancestors, none of
which is another live block, and a split bit only where the sibling below is
neither allocated nor split; if another live block lay under that sibling, or
were it, one of its two marks would be set. `Placed` ties nodes to words: the header is the first word of the region,
and holds the node's level. The lemmas about the tree give the rest: paths
of unrelated nodes part at two siblings (`PathsPart`), whose regions are disjoint
(`RegionsApart`) and inside the arena (`BlocksInArena`). The one assumption about
numbers that the code cannot violate, and no prover here can derive, is
`PowersOfTwo` in `BuddyTree`: 2^0 = 1 and 2^(n+1) = 2 * 2^n, the recursive
definition of `^`; TLC evaluates it on every run.

**The masks.** What is marked too much is invisible to `HeapInv`: an allocated bit
nobody owns only makes memory disappear. `MarksInv` excludes it. Its core is that
a marked node which is no block has both children marked, and a node with two
marked children is marked: the upward marking stops where this fails, and the
upward clearing, which starts from a block, can then stop at the first parent
without a mark. With it, `SplitMeansInUse` follows at once, and `AllocMeansFilled`
over the levels of the tree: a marked node that is not filled would have a child
of that kind, and an unmarked one that is filled, too; the largest such node has
no children. (Such arguments take a largest or least counterexample, the prover
having no induction over an operator.)

**Implementing the heap.** From both invariants, the nodes the search may return
on a level are exactly those whose words no live block uses; the nodes of a level
are the aligned runs of its size; the depth-first order is the order of addresses;
and the level `malloc_heap` chooses is that of the least power of two that fits.
So it answers with the lowest free run of `HeapSpec`, and refuses when there is none.

**The recursion and the loops.** Of a recursive function the prover knows one thing:
if some function solves its equation, it is one that does. So the closed form is
first shown to be a solution, which takes one turn of the loop (`MarkedOnce`,
`ClearedOnce`, `CoalescedOnce`, `StoppedOnce`, `FoundOnce`). Then any solution is shown to be
it: take the smallest argument on which the two differ; the next turn is about a
smaller one, where they agree, and one turn is the same for both (`NoDescent`, over the
natural numbers that bound the turns: the node for the walks upward, the levels
left for the search, the capacity for `target_lvl`). A turn of a walk reads a sibling, and the
siblings are not on the path it changes, so no turn sees what an earlier one
wrote. A search of the left half that fails has split nothing, so that of the right one starts
from the same masks (`FreeInHalves`). All of the left half comes before the
right one (`LeftFirst`), so the first hit of the recursion is the least. None of this
depends on how the masks came about: the theorems hold after double frees, too.
`LevelsAreExact` also needs that a header holds a level (`TypeCorrect`).

**Two machines.** `TwoInv` asks the `HeapInv` of `BuddyHeapProofs` of each machine,
that no block of one lies inside a block of the other, and that each mark in the
shared masks is explained by a block of either. What makes the first two survive a
step of the other machine is that the search sees only marks, whoever has set them,
and that the clearing of a free stops below them: the lemmas about the masks
(`MaskStep`, `OthersGuarded`, `StillExplained` of `BuddyHeapProofs`) speak of sets of
nodes and know no machine, and serve the proofs of one heap and of two. From the
explanation of the marks, `NothingLost`: no block, no mark.

For `OneHeap` the two machines are put together: `JointA` is an instance of
`BuddyHeapProofs` with the blocks of both, and with a header array in which the word
before each block is read where its owner wrote it (`OwnersA`, `PlacesA`). The
invariants of the single heap hold of it, for neither machine's blocks overlap the
other's (`StartsApartA`), and a call of one machine is a call of the joint heap
(`CallsA`), which is answered as `HeapSpec` says (`AnswersA`). No step has both
machines in it: `JointB` is the same with their parts exchanged. What the theorems do
not give is independence, which `machine_alone` refutes: alone, a machine would get
the lowest run that it does not use itself.

**RAM.** `RamStep` says what one instruction can do to a word: nothing, a store
that found it OPEN or AVAILABLE, or a header of `malloc_heap`. From this an action
property (`ConstantsKept`), and with the static data below the heap, an invariant
(`ConstantsImmutable`). Without the condition a header
may be written over a constant. `HeadersKept` holds even with double frees.

A program that loads and stores makes calls of the allocator and does nothing else to
it (`HeapCalls`), so that all that is proved of the heap alone, its refinement
included, holds of the heap in `ram[]` (`ProgramsUseHeap`). The other direction is
`ContentsKept`: the one word a call writes is the header of the block it returns
(`NewBlock`), and that is in no other live block, by `NoOverlap`.

**Frames.** The four conjuncts of `FrameInv` need each other. `LockStep` makes the
top frame that of the running subroutine; `FramesApart` says a store to it, which
`store_stack` keeps inside `ram_stack`, does not reach a frame below; `LocalsKept`
follows. The assumption `CallsBeforeFrames` (64 < 512) is why the second check of
`CALL` never fails; `OffsetsAssumption` is why `start + offset` does not wrap.

**Values.** `StackTyped` is an induction over the instructions, `Yield` after
`Yield`; the others say of any two values what an instruction makes of them, and are about the
operators. A word and the number it stands for differ by a
multiple of the modulus, and two numbers in the range of a type that do so are one
(`OneOfThem`): so sums modulo 2^w are those of the numbers. TLA+ divides toward
minus infinity and C toward zero; `RoundsToZero` is the lemma between them. Orders
of different types meet on the grid of `Operands`, where an integer has its exact
place as long as it fits there (`NumbersFit`).

**The loop.** `PassInv`: if all slots of this pass so far were counted free, all
of them are free, for a slot becomes active only through the host, before the
loop. `TurnInv` says who can have executed since an active slot last did: the
slots between it and the loop variable.

Of the liveness properties, fairness and `ENABLED` are out of the prover's reach, but not
what the steps achieve. `StepsToEnd(s)` is the number of steps of the loop before slot
`s` has executed the last instruction of its thread: a pass and its end for each
instruction left, and the way to its next turn. Each step lowers it by one, whatever
the other threads do (`ThreadsCountDown`), the answer to an `IN` included; a step that
begins to wait leaves it as it is. A program that ends does so within
`left * (MAX_THREADS + 1) + MAX_THREADS` steps that complete an instruction or visit
a slot. When all have ended, the
loop still has to find that out in a pass that began after the last one ended;
`StepsToReturn` counts the rest of this pass and, if need be, another
(`ReturnCountsDown`). `EveryProgramEnds` and `ExecutionReturns` follow if the loop goes on
taking steps, which is `WF_vars(Loop)`, and every wait has an end, which is `Answered`.

**The passes.** The start of a subroutine is a sum over the lines before its
header, which a recursive function would compute, and about which nothing could be
proved. `MapInv` says instead that there are functions `C` and `D` on the lines, the
words of code before each line and whether it stands in a data section, with
`C[1] = 0` and each value determined by the one before it (`Counts`). The first pass makes
them longer by a line (`OneMoreLine`), and its starts are values of `C` (`StartsAt`);
the second pass follows the same `C`, for it emits what the first has counted
(`SameCount`), and the words of the lines before `k` are the first `C[k]`
(`PlacedBy`). `LeadingCode` is excluded, for code before the first header is emitted without
having been counted.

**The fetch and the locals.** `Decoded` is `DecodesAsWritten` during the second pass:
the words of a line are emitted in one step, an opcode and after it as many operands
as its handler fetches (`FetchesAll`), so that the fetch ends at the next opcode or at
the end of what there is. `LocalInv` says that the locals of a subroutine are a sequence
without repetition (`Distinct`), that a word of code names the local at its offset
(`NamesLocal`) among those of the subroutine it stands under (`UnderHeader`), and
that all subroutines in the code are known (`HeadersKnown`). A sequence that only
grows keeps its offsets.

**The binary.** `FileInv` lists what the file can be: the old one, empty, the
header alone, or header and code with the first `n` words of the data. Of these
only the old one and a complete new one have the lengths the header gives, or else
the parts that are missing are empty (`WholeFiles`). After a load no assembler
runs, so it stays that way. `AssemblerAssumption` asks that the sources are
sequences of lines, and that the old binary fits in the program memory.

**The program.** The execution changes nothing of the assembler's (`CommandsApart`),
and what it runs is one binary. `CodeInv` carries what the execution needs to know of
its words from the second pass into the file: all operands are there, each is a
number, and a local has an offset of `Offsets`, because a subroutine has at most half as many
locals as there are words (`OneMoreLocal`). `MachineInv` adds the words of the stack and
the `FrameInv` of the thread. Each instruction then is a step of `CallFrames` with
operands that its assumptions allow, wherever `pc` has come from, and the lemmas behind
`FramesInvariant` (`FrameStep` of `CallFramesProofs`) apply to it: this gives the
frames and the locals, and with the width of the words, `ProgramTypeOK`.

A program without jumps can go on only by calls, and it can call itself: the number of
instructions it may still execute is exponential in the height of the call stack. So the
measure is not a number but one for each activation that the stack has room for: what is
`StillAhead` of it in the code, behind the word it has come to or will come back to, and 0
for those that are not there. An instruction brings the running activation forward, a
`CALL` its caller, which will come back behind it, and a `RET` lets one go; those below
stay where they are (`Further`). In the lexicographic order of the activations, the
lowest first, this goes down with each instruction (`RunsCountDown`); the numbers are
at most `Len(code) + 1` (`AheadBounded`) and there are `CALL_STACK_MEM + 1` of them, so
that it cannot for ever. A `RET` that went back to its own `CALL` would leave the caller
where it was; that it does not is in `FurtherByReturn` and `FurtherByCall`.

**The text.** `ProgramImplementsText` says that each step of `Program` is a step of
`SourceRun` or none, under the map `Text`. Its invariant is `ImplementInv`, three
parts:

- `MachineInv`, as above: words are in range, operands are there, frames apart.
- `TextInv`: in a text that is `WellFormed`, everything the passes have built so far is
  what the text says, in terms of which no address occurs. `Before(k)` is the number of
  words of code on the lines before `k`. In the first pass the counter is `Before(at)`,
  and each subroutine seen starts at `Before` of its header (`FirstRead`); in the second
  the words of each line lie at `Before` of it (`SecondRead`); after it, all data words
  and the words of all lines do (`Finished`), and the locals of a subroutine are names
  from its code (`OnlyNamed`). `CodeWhereMapped` alone would not do: it compares the
  passes with each other, not with the text.
- `PathInv`: there is a sequence of lines, one for each activation, on which the
  execution stands (`Path`). `pc` is `Before` of the last one; below it are `CALL`s,
  and the return address of each is `Before` of the line, plus two. Without it, nothing
  says to which line `RET` goes back, nor whose names the offsets of the frame below
  are. A frame starts within the room that the locals of the subroutines below it can
  take, so that a store fails only where the text, too, has run out of it.

`TextStep` keeps the second part, line for line. For the third there is a lemma for
each kind of instruction: it stays in its subroutine and goes on behind (`StraightStep`,
`LoadsStep`, `StoresStep`), or elsewhere in it (`JumpsStep`), it puts a line on the path
or takes one off (`SubroutinesStep`), or it ends the run (`StopsStep`). That the jump of
the text and that of the words arrive at one line is counting: `SourceRun` counts the
words from the start of the subroutine, the assembler from the start of the text, and
the words of a set of lines have a `Cardinality` that adds up over parts (`JumpLines`,
`BodyStart`). That a store in the text and in the frame is one store needs that equal
names have equal offsets and no others have (`LocalInv`), and the value an
activation finds again is `LocalsKept`. The proof has shown what `WellFormed` has to ask
beside what the README's language suggests: that no name is also a numeral, and that
`PUSH` takes a number or the name of data: the assembler also takes the name of a
subroutine, and the machine pushes an address of code, which a text does not have. A text whose subroutines come in two parts
is left out (one header for each), for a jump in the first would count from the second.

**What is assumed.** Beside ranges of the sizes:

- `PowersOfTwo`, `CallsBeforeFrames`, `OffsetsAssumption`, as said above. For the
  frames of `Program` the last two are proved (`FrameSizes`).
- `RequestsAssumption`: requests to the two machines are words.
- `NumbersFit`: an INT has room for every CHAR, and every INT is a finite float.
- `AssemblerAssumption`: the texts are sequences of lines, a numeral stands for an
  integer, and the type in a line of data is no mnemonic.
- `MachineAssumption`: the return stack is shorter than the frame stack (64 < 512), and
  addresses and frames fit in a word (1024, 512 and 2^32).
- `LeftoverAssumption`: the binary on disk before the first command, if there is one, is
  one that an assembler wrote: its header is three words, its instructions have their operands.

Only model-checked: the liveness properties `EveryProgramEnds`, `ExecutionReturns`
and `RunsEnd`, which the prover has no means for. The part of them that needs no
fairness is proved: that every step counts down. Open is that a step is taken, which
asks for fairness and `ENABLED`, and the induction from counting down to the end.

## Not modelled

- Both ends of the operand stack, which no check guards: the models bound it
  and leave its depth to the program. The same for `pc` past the program.
- Binaries that no assembler has written: `program_size` can then exceed
  `program[]`. What becomes of a VM whose data section is longer than `ram[]`.
- An assembler and a loader at work on one file at the same time; a second
  `kdvm -r` in the same process, which `main.c` never does.
- In `Program`, the instructions outside its sample; they are in `VmMemory`,
  `Operands` and `CallFrames`, but not composed with the text.
- The threads of `Scheduler` over one memory as a composition. `VmMemory` has no
  order of instructions of its own and any values in flight, so whatever several
  threads do to the memory is already a behaviour of it.
- `THREAD_YIELD` and `THREAD_IO_BLOCKED`, which nothing sets; `pc_checkpoint`,
  which nothing reads.
- Rounding and signed zero of IEEE floats; large integers as floats.
- `IN` with an operand that is no code of a type.
- Tokens and the syntax of literals in the assembler; its listing file. Texts in which
  `$f`, `::f` and `f` are declared as different things (`resolveVal` would keep them
  apart), lines of a data section with a comma and no type in front, and a name that is a
  part of the word for its type, behind which the assembler would look for the values.
- Printing, terminal handles, the syscall stub, the arguments of `main.c`, the
  Python assembler with outdated opcodes, the hash map (third-party code that
  nobody calls), build files.

## Plan

Done, in this order: the heap (tree, actions, specification, step-by-step
comparison), RAM over it, calls and locals, the scheduler, two machines, the
assembler, operands. Then the writing of the binary with
its failures, the loader, execution composed with the assembler and compared with the
meaning of the text. Proofs of every invariant and action property that the runs
check, of all refinements, those of the heap, by one program and by two machines, and that
of the text, and of the closed forms against the recursion and the loops.

What could follow, extending the model:

1. The two ends of the operand stack, as the neighbouring fields of `VM_Thread`.
2. The remaining instructions in `Program` and `SourceRun`, stores to RAM first.
3. Literals, and the types of data words, through assembler and loader.

Proving: for each of these, that `ProgramImplementsText` still holds. Of the properties
that the runs check, only the liveness ones are not proved, and they are beyond the
prover.
