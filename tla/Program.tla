-------------------------------- MODULE Program --------------------------------
(****************************************************************************)
(* From a .grr text to the end of its run: the assembler writes the binary  *)
(* (module Assembler), kdvm -r loads it and executes it on one thread       *)
(* (module CallFrames).  The commands are separate processes, used one      *)
(* after the other; the assembler may fail or die at any point, and the     *)
(* file then is what is left of it, or still the one from an earlier run.   *)
(*                                                                          *)
(* Executed are the instructions that decide where a program goes, which    *)
(* locals and data it finds, and a sample of arithmetic; all values are     *)
(* INTs.  Types are the subject of Operands, stores to RAM of VmMemory.     *)
(****************************************************************************)
EXTENDS Assembler

CONSTANTS
  CALL_STACK_MEM, THREAD_STACK_SIZE,   \* as in CallFrames
  VM_STACK_SIZE,    \* words of the operand stack (256)
  VM_RAM_SIZE,      \* words of ram[] (5120)
  WORD_MOD,         \* 2^w of a word (2^32)
  Residue           \* what ram_stack holds before anything is stored

Words == 0..(WORD_MOD - 1)

\* Every local has an instruction of two words or more that names it first.
Offsets == 0..((VM_PROGRAM_MEM \div 2) - 1)

ASSUME MachineAssumption ==
  /\ CALL_STACK_MEM \in Nat \ {0} /\ THREAD_STACK_SIZE \in Nat
  /\ CALL_STACK_MEM < THREAD_STACK_SIZE
  /\ VM_STACK_SIZE \in Nat /\ VM_RAM_SIZE \in Nat
  /\ WORD_MOD \in Nat /\ VM_PROGRAM_MEM + THREAD_STACK_SIZE < WORD_MOD
  /\ Residue \subseteq Words

\* Code in which every instruction has its operands, and every local an offset
\* that the assembler may have given
Assembled(words) ==
  \A p \in DOMAIN words :
    LET last == p + Fetches(words[p].op)
    IN  /\ words[p].val \in Int
        /\ words[p].op # "operand" => last \in DOMAIN words
        /\ words[p].op \in StoresLocal \cup UsesLocal => words[last].val \in Offsets

ASSUME LeftoverAssumption ==
  /\ Leftover.header = <<>> \/ Leftover.header \in [1..3 -> Nat]
  /\ Leftover.words \in Seq([op : STRING, val : Int, line : Nat])
  /\ Assembled(Leftover.words)

VARIABLES
  machine,          \* "none", "refused", "loaded", "executing", or "wild" when
                    \* it goes on with what is no instruction or no operand
  code, ram,        \* program[] and ram[], as far as they were loaded
  stack,            \* stack[0..sp] of the thread
  status, pc, csp, sfp, call_stack, stack_frame, ram_stack, running, stored

VM == INSTANCE CallFrames WITH Starts <- Words, Payloads <- Words

assembly == vars
thread == <<status, pc, csp, sfp, call_stack, stack_frame, ram_stack, running, stored>>
programVars == <<assembly, machine, code, ram, stack, thread>>

\* vm_init sets pc too, to whatever _global_start is before the load;
\* vm_request_thread will set it again.
ProgramInit ==
  /\ Init
  /\ machine = "none" /\ code = <<>> /\ ram = <<>> /\ stack = <<>>
  /\ pc = 0 /\ VM!Init

Assemble == Next /\ UNCHANGED <<machine, code, ram, stack, thread>>

----------------------------------------------------------------------------
(* kdvm -r, while no assembler runs.                                        *)

CommandRun == machine = "none" /\ pass \in {0, 6}

\* A loader that would take the data that is there
DataIgnored == file.header # <<>> /\ Len(file.words) = file.header[2]

\* All three reads of load_kdm_file get what the header says.
FileIsWhole ==
  /\ file.header # <<>>
  /\ Len(file.words) = file.header[2] /\ Len(file.data) = file.header[3]

\* The VM is freed, and nothing runs.
LoadFails ==
  /\ CommandRun /\ ~FileIsWhole
  /\ machine' = "refused"
  /\ UNCHANGED <<assembly, code, ram, stack, thread>>

\* No size is compared with an array: data that does not fit in ram[] goes over
\* what follows it in the VM, the pointers to the threads among it.
load_kdm_file ==
  /\ CommandRun /\ FileIsWhole
  /\ machine' = IF Len(file.data) <= VM_RAM_SIZE THEN "loaded" ELSE "wild"
  /\ code' = file.words /\ ram' = file.data
  /\ UNCHANGED <<assembly, stack, thread>>

\* vm_execute begins with the thread of ::_global.
StartExecution ==
  /\ machine = "loaded" /\ machine' = "executing"
  /\ VM!vm_request_thread(file.header[1] % WORD_MOD)
  /\ UNCHANGED <<assembly, code, ram, stack>>

----------------------------------------------------------------------------
(* One turn of the loop of vm_execute.                                      *)

Executing == machine = "executing" /\ running /\ status = VM!THREAD_ACTIVE
Opcode == code[pc + 1].op
Operand(n) == code[pc + 1 + n].val % WORD_MOD
Depth == Len(stack)

\* An instruction that takes so many words off the stack and puts so many there
Instruction(ops, pops, pushes) ==
  /\ Executing /\ pc < Len(code) /\ Opcode \in ops
  /\ Depth >= pops /\ Depth - pops + pushes <= VM_STACK_SIZE
  /\ UNCHANGED <<assembly, machine, code, ram>>
Yields(pops, words) == stack' = SubSeq(stack, 1, Depth - pops) \o words

\* VM_GET_INSTRUCTION, for the opcode and each operand
Fetch(n) ==
  /\ pc' = pc + n
  /\ UNCHANGED <<status, csp, sfp, call_stack, stack_frame, ram_stack, running, stored>>

HALT == Instruction({"HALT"}, 0, 0) /\ VM!HALT /\ UNCHANGED stack
PUSH == Instruction({"PUSH"}, 0, 1) /\ Yields(0, <<Operand(1)>>) /\ Fetch(2)
POP == Instruction({"POP"}, 1, 0) /\ Yields(1, <<>>) /\ Fetch(1)
DUP == Instruction({"DUP"}, 1, 2) /\ Yields(0, <<stack[Depth]>>) /\ Fetch(1)
SUB ==
  /\ Instruction({"SUB"}, 2, 1) /\ Fetch(1)
  /\ Yields(2, <<(stack[Depth - 1] - stack[Depth]) % WORD_MOD>>)
CMPEQ ==
  /\ Instruction({"CMPEQ"}, 2, 1) /\ Fetch(1)
  /\ Yields(2, <<IF stack[Depth - 1] = stack[Depth] THEN 1 ELSE 0>>)

\* RAM behind the data section holds whatever the memory of the VM held before.
LOAD ==
  /\ Instruction({"LOAD"}, 1, 1) /\ stack[Depth] < VM_RAM_SIZE /\ Fetch(1)
  /\ \E word \in Words :
       /\ stack[Depth] < Len(ram) => word = ram[stack[Depth] + 1].val % WORD_MOD
       /\ Yields(1, <<word>>)
LOADFails ==
  /\ Instruction({"LOAD"}, 1, 1) /\ stack[Depth] >= VM_RAM_SIZE /\ VM!Exit
  /\ UNCHANGED stack

JUMP == Instruction({"JUMP"}, 0, 0) /\ VM!JUMP(Operand(1)) /\ UNCHANGED stack
Branch ==
  /\ Instruction({"JZ", "JNZ"}, 1, 0) /\ Yields(1, <<>>)
  /\ IF (Opcode = "JZ") = (stack[Depth] = 0) THEN VM!JUMP(Operand(1)) ELSE VM!NoJump

CALL ==
  /\ Instruction({"CALL"}, 0, 0) /\ UNCHANGED stack
  /\ VM!CALL(Operand(1)) \/ VM!CallFails
RET ==
  /\ Instruction({"RET"}, 0, 0) /\ UNCHANGED stack
  /\ VM!RET \/ VM!RetUnderflow

STORE_L ==
  /\ Instruction({"STORE_L"}, 1, 0) /\ Yields(1, <<>>)
  /\ VM!LocalStore(2, Operand(1), stack[Depth]) \/ VM!LocalStoreFails(2, Operand(1))
ISTORE_L ==
  /\ Instruction({"ISTORE_L"}, 0, 0) /\ UNCHANGED stack
  /\ VM!LocalStore(3, Operand(2), Operand(1)) \/ VM!LocalStoreFails(3, Operand(2))
LOAD_L ==
  /\ Instruction({"LOAD_L"}, 0, 1)
  /\ \/ VM!LOAD_L(Operand(1)) /\ Yields(0, <<ram_stack[VM!Address(Operand(1))]>>)
     \/ VM!LoadFails(Operand(1)) /\ UNCHANGED stack

\* Neither pc nor the ends of the stack are checked.  A run is not followed past
\* the end of the code, into an operand, off the stack, or past an instruction
\* that is not among those above.
Followed ==
  {"HALT", "PUSH", "POP", "DUP", "SUB", "CMPEQ", "LOAD", "LOAD_L", "STORE_L", "ISTORE_L",
   "RET"} \cup Jumps
Pops ==
  CASE Opcode \in {"SUB", "CMPEQ"} -> 2
    [] Opcode \in {"POP", "DUP", "LOAD", "STORE_L", "JZ", "JNZ"} -> 1
    [] OTHER -> 0
Stray ==
  /\ Executing
  /\ \/ pc >= Len(code)
     \/ /\ pc < Len(code)
        /\ \/ Opcode \notin Followed
           \/ Depth < Pops
           \/ Opcode \in {"PUSH", "DUP", "LOAD_L"} /\ Depth = VM_STACK_SIZE
  /\ machine' = "wild"
  /\ UNCHANGED <<assembly, code, ram, stack, thread>>

Execute ==
  \/ HALT \/ PUSH \/ POP \/ DUP \/ SUB \/ CMPEQ \/ LOAD \/ LOADFails
  \/ JUMP \/ Branch \/ CALL \/ RET \/ STORE_L \/ ISTORE_L \/ LOAD_L \/ Stray

ProgramNext == Assemble \/ LoadFails \/ load_kdm_file \/ StartExecution \/ Execute

\* Once it runs, the loop goes on as long as it can.
ProgramSpec ==
  ProgramInit /\ [][ProgramNext]_programVars /\ WF_programVars(Execute)

----------------------------------------------------------------------------
(* What a program can rely on.                                              *)

ProgramTypeOK ==
  /\ TypeOK /\ VM!TypeOK
  /\ machine \in {"none", "refused", "loaded", "executing", "wild"}
  /\ Len(code) <= VM_PROGRAM_MEM
  /\ stack \in Seq(Words) /\ Depth <= VM_STACK_SIZE

\* What runs is what one run of the assembler has written, code, data and start,
\* whichever write the last one failed at: never a part of it, and never the code
\* of one with the data of another.
RunsWholeBinary ==
  machine \in {"loaded", "executing", "wild"} =>
    \/ file = Leftover /\ code = Leftover.words /\ ram = Leftover.data
    \/ code = program /\ ram = ramData /\ file.header[1] = globalStart

\* The file is of this run of the assembler.
Fresh == file # Leftover
Running == Executing /\ Fresh

\* The lines the words come from, the subroutine of each frame, and its locals by
\* their names
LineOf(address) == IF address < Len(code) THEN code[address + 1].line ELSE 0
FrameLine(i) == LineOf(IF i = sfp THEN pc ELSE call_stack[i] - 2)
FrameSub(i) == source[HeaderOf(source, FrameLine(i))].name
FrameLocals(i) ==
  LET named == locals[FrameSub(i)]
      kept == {o \in DOMAIN named : o - 1 \in Offsets /\ stored[i][o - 1] # {}}
  IN  [name \in {named[o] : o \in kept} |->
         CHOOSE word \in Words : word \in stored[i][OffsetOf(named, name)]]

Text == INSTANCE SourceRun WITH
  state <- IF ~Fresh \/ machine \notin {"executing", "wild"} THEN "idle"
           ELSE IF machine = "wild" THEN "wild"
           ELSE IF Executing THEN "running" ELSE "over",
  here <- IF Running THEN LineOf(pc) ELSE 0,
  activations <-
    IF Running
    THEN [i \in 1..(sfp + 1) |->
            [sub |-> FrameSub(i - 1), locals |-> FrameLocals(i - 1),
             back |-> IF i = 1 THEN 0 ELSE LineOf(call_stack[i - 2])]]
    ELSE <<>>,
  stack <- IF Running THEN stack ELSE <<>>

\* Executing the words does what the text says: addresses that the first pass has
\* counted, words that the second has emitted, frames and offsets together behave
\* like lines, subroutines and named locals.
ImplementsText == Text!Spec

\* A program without jumps comes to an end, for recursion ends at the call stack.
NoJumps == \A p \in DOMAIN code : code[p].op \notin {"JUMP", "JZ", "JNZ"}
RunsEnd == (Executing /\ NoJumps) ~> ~Executing

=============================================================================
