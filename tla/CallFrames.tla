------------------------------ MODULE CallFrames -------------------------------
(****************************************************************************)
(* Subroutines and local variables of one VM_Thread: CALL and RET of        *)
(* core/eval/eval_control_flow.c, the local stores and loads of             *)
(* core/eval/eval_memory.c, and the thread's start and end.                 *)
(*                                                                          *)
(* A subroutine's locals are the words of ram_stack from the start of its   *)
(* frame on.  A frame has no fixed size: it grows with the largest offset   *)
(* stored to, and a CALL puts the next frame behind what has been stored    *)
(* so far.  The program is any sequence of these instructions, the operands *)
(* being inputs of the actions.                                             *)
(****************************************************************************)
EXTENDS Integers

CONSTANTS
  VM_PROGRAM_MEM,     \* words of program memory (1024)
  CALL_STACK_MEM,     \* return addresses a thread can hold (64)
  THREAD_STACK_SIZE,  \* words of ram_stack, and frames (512)
  WORD_MOD,           \* 2^w of the unsigned address arithmetic (2^32)
  Starts,             \* targets of calls and jumps, and the start of ::_global
  Offsets,            \* offsets the assembler gives to locals
  Payloads,           \* what the program stores in them
  Residue             \* what ram_stack holds before anything is stored

ASSUME FrameAssumption ==
  /\ VM_PROGRAM_MEM \in Nat
  /\ CALL_STACK_MEM \in Nat \ {0}
  /\ THREAD_STACK_SIZE \in Nat \ {0}
  /\ WORD_MOD \in Nat /\ THREAD_STACK_SIZE < WORD_MOD
  /\ Starts \subseteq Nat

\* The second check of CALL is behind the first: 64 calls, 512 frames.
ASSUME CallsBeforeFrames == CALL_STACK_MEM < THREAD_STACK_SIZE

\* The assembler numbers the locals of a subroutine from 0, each from a line of
\* its own, so that start + offset stays far below 2^32.
ASSUME OffsetsAssumption ==
  /\ Offsets \subseteq Nat
  /\ \A offset \in Offsets : offset + THREAD_STACK_SIZE < WORD_MOD

VARIABLES
  status,       \* VM_Thread.status: THREAD_FREE or THREAD_ACTIVE
  pc, csp, sfp, \* program counter, tops of the call stack and of the frames
  call_stack, stack_frame, ram_stack,
  running,      \* FALSE once a check has ended the process
  stored        \* history: what each activation has stored, by offset

vars == <<status, pc, csp, sfp, call_stack, stack_frame, ram_stack, running, stored>>

THREAD_FREE == 0
THREAD_ACTIVE == 2

Frames == [start : Nat, count : Nat]
NoFrame == [start |-> 0, count |-> 0]
Activations == 0..(THREAD_STACK_SIZE - 1)

\* The history of an activation that has stored nothing.
Nothing == [offset \in Offsets |-> {}]

TypeOK ==
  /\ status \in {THREAD_FREE, THREAD_ACTIVE}
  /\ pc \in Nat
  /\ csp \in -1..(CALL_STACK_MEM - 1)
  /\ sfp \in -1..(THREAD_STACK_SIZE - 1)
  /\ call_stack \in [0..(CALL_STACK_MEM - 1) -> Nat]
  /\ stack_frame \in [Activations -> Frames]
  /\ ram_stack \in [0..(THREAD_STACK_SIZE - 1) -> Payloads \cup Residue]
  /\ running \in BOOLEAN
  /\ stored \in [Activations -> [Offsets -> SUBSET Payloads]]

\* vm_init_thread: the stacks themselves are not cleared.
Init ==
  /\ status = THREAD_FREE
  /\ pc \in Starts /\ csp = -1 /\ sfp = -1
  /\ call_stack = [i \in 0..(CALL_STACK_MEM - 1) |-> 0]
  /\ stack_frame = [i \in Activations |-> NoFrame]
  /\ ram_stack \in [0..(THREAD_STACK_SIZE - 1) -> Residue]
  /\ running = TRUE
  /\ stored = [i \in Activations |-> Nothing]

----------------------------------------------------------------------------
\* vm_request_thread, on a thread of the pool that is free: vm_init_thread, then
\* the frame of ::_global.
vm_request_thread(global_start) ==
  /\ running /\ status = THREAD_FREE
  /\ status' = THREAD_ACTIVE
  /\ pc' = global_start /\ csp' = -1 /\ sfp' = 0
  /\ stack_frame' = [stack_frame EXCEPT ![0] = NoFrame]
  /\ stored' = [stored EXCEPT ![0] = Nothing]
  /\ UNCHANGED <<call_stack, ram_stack, running>>

\* The thread is scheduled, and an instruction of so many words is there.  The
\* code does not check pc: that the program ends in HALT or RET, and does not run
\* off program memory, is up to whoever wrote it.
Fetched(words) ==
  /\ running /\ status = THREAD_ACTIVE
  /\ pc + words <= VM_PROGRAM_MEM

Exit ==
  /\ running' = FALSE
  /\ UNCHANGED <<status, pc, csp, sfp, call_stack, stack_frame, ram_stack, stored>>

HALT ==
  /\ Fetched(1)
  /\ status' = THREAD_FREE /\ pc' = pc + 1
  /\ UNCHANGED <<csp, sfp, call_stack, stack_frame, ram_stack, running, stored>>

\* JUMP, or JNZ and JZ with a condition that holds
JUMP(target) ==
  /\ Fetched(2)
  /\ pc' = target
  /\ UNCHANGED <<status, csp, sfp, call_stack, stack_frame, ram_stack, running, stored>>

\* JNZ and JZ with a condition that does not hold
NoJump ==
  /\ Fetched(2)
  /\ pc' = pc + 2
  /\ UNCHANGED <<status, csp, sfp, call_stack, stack_frame, ram_stack, running, stored>>

\* What the checks of CALL would be with room counted from 1
CallRoomFromOne == csp <= CALL_STACK_MEM - 1 /\ sfp <= THREAD_STACK_SIZE - 1

CallRoom == csp < CALL_STACK_MEM - 1 /\ sfp < THREAD_STACK_SIZE - 1

\* The frame of a callee that would share the caller's locals
FrameOverLast(last) == [start |-> last.start, count |-> 0]

NextFrame(last) == [start |-> (last.start + last.count) % WORD_MOD, count |-> 0]

\* Call stack overflow, or no room for a frame: exit(-1)
CallFails == Fetched(2) /\ ~CallRoom /\ Exit

CALL(target) ==
  /\ Fetched(2) /\ CallRoom
  /\ call_stack' = [call_stack EXCEPT ![csp + 1] = pc + 2]
  /\ stack_frame' = [stack_frame EXCEPT ![sfp + 1] = NextFrame(stack_frame[sfp])]
  /\ csp' = csp + 1 /\ sfp' = sfp + 1
  /\ pc' = target
  /\ stored' = [stored EXCEPT ![sfp + 1] = Nothing]
  /\ UNCHANGED <<status, ram_stack, running>>

\* RET without a CALL ends the thread, with its frames as they are.
RetUnderflow ==
  /\ Fetched(1) /\ csp < 0
  /\ status' = THREAD_FREE /\ pc' = pc + 1
  /\ UNCHANGED <<csp, sfp, call_stack, stack_frame, ram_stack, running, stored>>

\* A RET that would leave the callee's frame on top
RetKeepsFrame ==
  /\ Fetched(1) /\ csp >= 0
  /\ pc' = call_stack[csp]
  /\ csp' = csp - 1
  /\ UNCHANGED <<status, sfp, call_stack, stack_frame, ram_stack, running, stored>>

\* A RET that would leave the return address where it is
RetKeepsAddress ==
  /\ Fetched(1) /\ csp >= 0
  /\ pc' = call_stack[csp]
  /\ UNCHANGED <<status, csp, sfp, call_stack, stack_frame, ram_stack, running, stored>>

\* Without a frame the process ends; no run gets there (LockStep).
RET ==
  /\ Fetched(1) /\ csp >= 0
  /\ pc' = call_stack[csp]
  /\ csp' = csp - 1
  /\ sfp' = IF sfp >= 0 THEN sfp - 1 ELSE sfp
  /\ running' = (sfp >= 0)
  /\ UNCHANGED <<status, call_stack, stack_frame, ram_stack, stored>>

\* fp + offset in uint32_t
Address(offset) == (stack_frame[sfp].start + offset) % WORD_MOD

\* A frame that would be counted one local short
GrownShort(frame, offset) ==
  IF frame.count < offset THEN [frame EXCEPT !.count = offset] ELSE frame

\* The frame's count with the local at offset in it: offset + 1 in uint32_t
Grown(frame, offset) ==
  IF frame.count < (offset + 1) % WORD_MOD
  THEN [frame EXCEPT !.count = (offset + 1) % WORD_MOD] ELSE frame

\* STORE_L in two words, ISTORE_L, FSTORE_L, CSTORE_L and BSTORE_L in three
LocalStore(words, offset, value) ==
  /\ Fetched(words)
  /\ Address(offset) < THREAD_STACK_SIZE
  /\ stack_frame' = [stack_frame EXCEPT ![sfp] = Grown(@, offset)]
  /\ ram_stack' = [ram_stack EXCEPT ![Address(offset)] = value]
  /\ stored' = [stored EXCEPT ![sfp][offset] = {value}]
  /\ pc' = pc + words
  /\ UNCHANGED <<status, csp, sfp, call_stack, running>>

LocalStoreFails(words, offset) ==
  /\ Fetched(words)
  /\ Address(offset) >= THREAD_STACK_SIZE
  /\ Exit

\* Only the offset is checked against the frame; which of its words this
\* activation has stored to is not known.
LOAD_L(offset) ==
  /\ Fetched(2)
  /\ offset < stack_frame[sfp].count
  /\ Address(offset) < THREAD_STACK_SIZE
  /\ pc' = pc + 2
  /\ UNCHANGED <<status, csp, sfp, call_stack, stack_frame, ram_stack, running, stored>>

LoadFails(offset) ==
  /\ Fetched(2)
  /\ offset >= stack_frame[sfp].count \/ Address(offset) >= THREAD_STACK_SIZE
  /\ Exit

Next ==
  \/ \E global_start \in Starts : vm_request_thread(global_start)
  \/ HALT
  \/ \E target \in Starts : CALL(target) \/ JUMP(target)
  \/ NoJump
  \/ CallFails
  \/ RET \/ RetUnderflow
  \/ \E words \in {2, 3}, offset \in Offsets :
       \/ \E value \in Payloads : LocalStore(words, offset, value)
       \/ LocalStoreFails(words, offset)
  \/ \E offset \in Offsets : LOAD_L(offset) \/ LoadFails(offset)

Spec == Init /\ [][Next]_vars

----------------------------------------------------------------------------
(* What a subroutine can rely on.                                           *)

\* Return addresses and frames are pushed and popped together, so that LOAD_L
\* and STORE_L always find the frame of the subroutine that runs, and the
\* checks of sfp in CALL and RET never have to stop anything.
LockStep == status = THREAD_ACTIVE => sfp = csp + 1

\* The frames below the top do not overlap: each ends before the next begins,
\* and inside ram_stack.
FramesApart ==
  status = THREAD_ACTIVE =>
    /\ \A i, j \in 0..sfp :
         i < j => stack_frame[i].start + stack_frame[i].count <= stack_frame[j].start
    /\ \A i \in 0..sfp :
         stack_frame[i].start + stack_frame[i].count <= THREAD_STACK_SIZE

\* What a subroutine has stored in a local is still there when it runs again,
\* whatever the subroutines it called have stored in theirs.
LocalsKept ==
  status = THREAD_ACTIVE =>
    \A i \in 0..sfp, offset \in Offsets : \A value \in stored[i][offset] :
      /\ offset < stack_frame[i].count
      /\ ram_stack[stack_frame[i].start + offset] = value

=============================================================================
