------------------------------- MODULE Scheduler -------------------------------
(****************************************************************************)
(* The thread pool of core/vm_threads.c and the loop of vm_execute in       *)
(* core/vm.c.  One C thread runs everything: the loop visits the slots of   *)
(* vm->threads in turn and has each active VM_Thread execute one            *)
(* instruction.  vm_execute requests the main thread; a host may have       *)
(* requested others before, with vm_request_thread of grrvm.h.              *)
(*                                                                          *)
(* What an instruction does is left to the other modules: here it goes on,  *)
(* ends its thread (HALT, an unknown opcode, RET without CALL, MOD by zero) *)
(* or ends the process, by one of the checks that call exit(), or waits for *)
(* the terminal, in scanf and getchar of IN, and with it the one C thread.  *)
(****************************************************************************)
EXTENDS Integers, FiniteSets

CONSTANTS
  MAX_THREADS,   \* size of the pool (32)
  Lengths,       \* instructions a thread may execute before it ends
  MayExit        \* whether an instruction may end the process

ASSUME SchedulerAssumption ==
  /\ MAX_THREADS \in Nat \ {0}
  /\ Lengths \subseteq Nat \ {0}
  /\ MayExit \in BOOLEAN

Slots == 0..(MAX_THREADS - 1)
Forever == 0   \* of a thread that loops

THREAD_FREE == 0
THREAD_ACTIVE == 2

VARIABLES
  phase,         \* "host" before vm_execute, "loop", "reading" from the
                 \* terminal within it, "returned", "exited"
  status,        \* VM_Thread.status of every slot
  left,          \* instructions the thread of a slot has left, or Forever
  i,             \* the loop variable
  free_threads,  \* free slots seen in this pass
  since          \* history: who has executed since a slot's last instruction

vars == <<phase, status, left, i, free_threads, since>>

TypeOK ==
  /\ phase \in {"host", "loop", "reading", "returned", "exited"}
  /\ status \in [Slots -> {THREAD_FREE, THREAD_ACTIVE}]
  /\ left \in [Slots -> Nat]
  /\ i \in 0..MAX_THREADS
  /\ free_threads \in 0..MAX_THREADS
  /\ since \in [Slots -> SUBSET Slots]

\* vm_init
Init ==
  /\ phase = "host"
  /\ status = [s \in Slots |-> THREAD_FREE]
  /\ left = [s \in Slots |-> Forever]
  /\ i = 0 /\ free_threads = 0
  /\ since = [s \in Slots |-> {}]

----------------------------------------------------------------------------
(* vm_request_thread                                                        *)

FirstFree(s) ==
  /\ status[s] = THREAD_FREE
  /\ \A t \in Slots : t < s => status[t] # THREAD_FREE

PoolFull == \A s \in Slots : status[s] # THREAD_FREE

\* The slot is initialised and made active; what its thread will do is open.
Request(s) ==
  /\ FirstFree(s)
  /\ status' = [status EXCEPT ![s] = THREAD_ACTIVE]
  /\ \E n \in Lengths \cup {Forever} : left' = [left EXCEPT ![s] = n]
  /\ UNCHANGED <<i, since>>

ExitProcess ==
  /\ phase' = "exited"
  /\ UNCHANGED <<status, left, i, free_threads, since>>

HostRequests ==
  /\ phase = "host"
  /\ \/ \E s \in Slots : Request(s) /\ UNCHANGED <<phase, free_threads>>
     \/ PoolFull /\ ExitProcess

----------------------------------------------------------------------------
(* vm_execute                                                               *)

EnterLoop ==
  /\ phase = "host"
  /\ \/ \E s \in Slots : Request(s) /\ phase' = "loop" /\ free_threads' = 0
     \/ PoolFull /\ ExitProcess

\* A loop that would stay with a thread while it is active
StayWhileActive(s) == IF status[s] = THREAD_ACTIVE THEN s ELSE s + 1

\* A loop that would pass over a slot
SkipOne(s) == IF s + 2 < MAX_THREADS THEN s + 2 ELSE MAX_THREADS

NextSlot(s) == s + 1

VisitFree ==
  /\ phase = "loop" /\ i < MAX_THREADS /\ status[i] = THREAD_FREE
  /\ free_threads' = free_threads + 1
  /\ i' = NextSlot(i)
  /\ UNCHANGED <<phase, status, left, since>>

Executed(s) == since' = [t \in Slots |-> IF t = s THEN {} ELSE since[t] \cup {s}]

\* One instruction has been executed; a status of 0 or less ends the thread.
Completes ==
  /\ left' = [left EXCEPT ![i] = IF @ = Forever THEN Forever ELSE @ - 1]
  /\ status' = IF left[i] = 1 THEN [status EXCEPT ![i] = THREAD_FREE] ELSE status
  /\ i' = NextSlot(i)
  /\ Executed(i)
  /\ UNCHANGED free_threads

AtActive == phase = "loop" /\ i < MAX_THREADS /\ status[i] = THREAD_ACTIVE

Execute == AtActive /\ Completes /\ UNCHANGED phase

\* IN finds nothing typed and waits.  It is no instruction that ends its thread.
WaitForInput ==
  /\ AtActive /\ left[i] # 1
  /\ phase' = "reading"
  /\ UNCHANGED <<status, left, i, free_threads, since>>

\* The user ends the line, or the input: IN is completed.
InputArrives ==
  /\ phase = "reading" /\ phase' = "loop"
  /\ Completes

ExecuteExits == MayExit /\ AtActive /\ ExitProcess

\* The count of a pass that would go on from the last one
CountKept == UNCHANGED free_threads

CountAnew == free_threads' = 0

NextPass ==
  /\ phase = "loop" /\ i = MAX_THREADS /\ free_threads < MAX_THREADS
  /\ i' = 0 /\ CountAnew
  /\ UNCHANGED <<phase, status, left, since>>

Return ==
  /\ phase = "loop" /\ i = MAX_THREADS /\ free_threads >= MAX_THREADS
  /\ phase' = "returned"
  /\ UNCHANGED <<status, left, i, free_threads, since>>

Loop == VisitFree \/ Execute \/ WaitForInput \/ NextPass \/ Return

Next == HostRequests \/ EnterLoop \/ Loop \/ InputArrives \/ ExecuteExits

\* The loop is plain C code on the one C thread: while it can take a step it
\* does.  The host may never call vm_execute, the user may never type a line, and
\* no instruction has to exit.
Spec == Init /\ [][Next]_vars /\ WF_vars(Loop)

----------------------------------------------------------------------------
(* What the threads and the host can rely on.                               *)

\* vm_execute returns when no thread is left, never earlier: a slot that was
\* counted free in the last pass is still free at its end.
ReturnsWhenAllFree == phase = "returned" => \A s \in Slots : status[s] = THREAD_FREE

\* No thread executes a second instruction while another active thread waits
\* for its own: round robin over all active slots.
TakesTurns ==
  [][Execute \/ InputArrives =>
       \A t \in Slots \ {i} : status[t] = THREAD_ACTIVE => i \notin since[t]]_vars

InLoop == phase \in {"loop", "reading"}

\* What the user is asked for is typed in the end.  Nothing in the code sees to
\* it, and an IN that waits holds up every thread, not only its own.
Answered == phase = "reading" ~> phase # "reading"

\* If every IN is answered, a thread whose program ends gets to its end, even if
\* others loop forever, unless one of them ends the process.
EveryProgramEnds ==
  Answered =>
    \A s \in Slots :
      InLoop /\ status[s] = THREAD_ACTIVE /\ left[s] # Forever
        ~> status[s] = THREAD_FREE \/ phase = "exited"

\* If every IN is answered and no thread loops, vm_execute returns.
ExecutionReturns ==
  Answered =>
    (InLoop /\ (\A s \in Slots : status[s] = THREAD_ACTIVE => left[s] # Forever)
       ~> phase \in {"returned", "exited"})

=============================================================================
