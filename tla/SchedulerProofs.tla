---------------------------- MODULE SchedulerProofs ----------------------------
(****************************************************************************)
(* For a pool of any size: vm_execute returns only when every slot is free, *)
(* and no thread overtakes another.                                         *)
(****************************************************************************)
EXTENDS Scheduler, TLAPS

\* The count of a pass is at most the slots visited, and reaches it only if all
\* of them are free: no slot becomes active while the loop runs.
PassInv ==
  /\ free_threads <= i
  /\ phase \in {"loop", "returned"} /\ free_threads = i =>
       \A s \in Slots : s < i => status[s] = THREAD_FREE
  /\ phase = "returned" => i = MAX_THREADS /\ free_threads = MAX_THREADS

\* Who has executed since an active thread last did: after its turn in this pass
\* the slots between it and the loop variable, before its turn also those behind
\* it in the last pass.
TurnInv ==
  /\ phase = "host" => i = 0 /\ since = [s \in Slots |-> {}]
  /\ \A t \in Slots : status[t] = THREAD_ACTIVE =>
       \A u \in since[t] : IF t < i THEN t < u /\ u < i ELSE u > t \/ u < i

\* The C thread waits for input on behalf of an active thread that goes on.
ReadInv ==
  phase = "reading" => i \in Slots /\ status[i] = THREAD_ACTIVE /\ left[i] # 1

\* The invariant both theorems follow from.
LoopInv == TypeOK /\ PassInv /\ TurnInv /\ ReadInv

\* The statuses of the enumeration differ.
LEMMA StatusesDiffer == THREAD_FREE # THREAD_ACTIVE
BY DEF THREAD_FREE, THREAD_ACTIVE

\* vm_request_thread happens before the loop, when nobody has executed.
LEMMA RequestStep ==
  ASSUME LoopInv, phase = "host", NEW s \in Slots, Request(s),
         \/ phase' = phase /\ free_threads' = free_threads
         \/ phase' = "loop" /\ free_threads' = 0
  PROVE  LoopInv'
<1>1. i = 0 /\ i' = 0 /\ since = [t \in Slots |-> {}] /\ since' = since
  BY DEF LoopInv, TurnInv, Request
<1>2. PICK n \in Lengths \cup {Forever} : left' = [left EXCEPT ![s] = n]
  BY DEF Request
<1>3. n \in Nat
  BY SchedulerAssumption DEF Forever
<1>4. free_threads \in Nat /\ free_threads <= 0
  BY <1>1 DEF LoopInv, PassInv, TypeOK
<1>5. free_threads' = 0
  BY <1>4
<1>6. TypeOK'
  BY <1>1, <1>2, <1>3, <1>5, SchedulerAssumption DEF LoopInv, TypeOK, Request
<1>7. PassInv'
  <2>1. phase' # "returned"
    OBVIOUS
  <2>2. \A t \in Slots : ~(t < 0)
    BY DEF Slots
  <2> QED
    BY <2>1, <2>2, <1>1, <1>5 DEF PassInv
<1>8. TurnInv'
  <2>1. since' = [t \in Slots |-> {}]
    BY <1>1
  <2>2. \A t \in Slots : since'[t] = {}
    BY <2>1
  <2> QED
    BY <1>1, <2>1, <2>2 DEF TurnInv
<1> QED
  BY <1>6, <1>7, <1>8 DEF LoopInv, ReadInv

\* An instruction is completed in the slot under the loop variable.
LEMMA CompletedHere ==
  ASSUME LoopInv, Execute \/ InputArrives
  PROVE  /\ phase \in {"loop", "reading"} /\ phase' = "loop"
         /\ i \in Slots /\ status[i] = THREAD_ACTIVE /\ Completes
BY SchedulerAssumption
   DEF Execute, InputArrives, AtActive, LoopInv, ReadInv, TypeOK, Slots

\* One instruction of that slot, at once or after waiting for input.
LEMMA ExecuteStep ==
  ASSUME LoopInv, Execute \/ InputArrives
  PROVE  LoopInv'
<1>1. /\ phase \in {"loop", "reading"} /\ phase' = "loop"
      /\ i \in Slots /\ i' = i + 1 /\ free_threads' = free_threads
      /\ status[i] = THREAD_ACTIVE
      /\ since' = [t \in Slots |-> IF t = i THEN {} ELSE since[t] \cup {i}]
      /\ left' = [left EXCEPT ![i] = IF @ = Forever THEN Forever ELSE @ - 1]
      /\ status' = IF left[i] = 1 THEN [status EXCEPT ![i] = THREAD_FREE] ELSE status
  BY CompletedHere DEF Completes, Executed, NextSlot
<1>2. TypeOK'
  <2>1. left' \in [Slots -> Nat]
    <3>1. left[i] \in Nat
      BY <1>1 DEF LoopInv, TypeOK
    <3>2. (IF left[i] = Forever THEN Forever ELSE left[i] - 1) \in Nat
      BY <3>1 DEF Forever
    <3> QED
      BY <3>2, <1>1 DEF LoopInv, TypeOK
  <2>2. since' \in [Slots -> SUBSET Slots]
    BY <1>1 DEF LoopInv, TypeOK
  <2>3. status' \in [Slots -> {THREAD_FREE, THREAD_ACTIVE}]
    BY <1>1 DEF LoopInv, TypeOK
  <2>4. i' \in 0..MAX_THREADS
    BY <1>1, SchedulerAssumption DEF Slots
  <2> QED
    BY <2>1, <2>2, <2>3, <2>4, <1>1 DEF LoopInv, TypeOK
<1>3. PassInv'
  <2>1. free_threads' <= i' /\ free_threads' # i'
    BY <1>1, SchedulerAssumption DEF LoopInv, PassInv, TypeOK, Slots
  <2> QED
    BY <2>1, <1>1 DEF PassInv
<1>4. \A t \in Slots : status'[t] = THREAD_ACTIVE => status[t] = THREAD_ACTIVE
  BY <1>1, StatusesDiffer DEF LoopInv, TypeOK
<1>5. TurnInv'
  <2>1. ASSUME NEW t \in Slots, status'[t] = THREAD_ACTIVE, NEW u \in since'[t]
        PROVE  IF t < i' THEN t < u /\ u < i' ELSE u > t \/ u < i'
    <3>1. t # i
      BY <2>1, <1>1
    <3>2. u \in since[t] \cup {i} /\ u \in Int /\ t \in Int /\ i \in Int
      BY <2>1, <3>1, <1>1 DEF LoopInv, TypeOK, Slots
    <3>3. CASE u = i
      BY <3>1, <3>2, <3>3, <1>1
    <3>4. CASE u \in since[t]
      <4>1. IF t < i THEN t < u /\ u < i ELSE u > t \/ u < i
        BY <2>1, <3>4, <1>4 DEF LoopInv, TurnInv
      <4> QED
        BY <4>1, <3>1, <3>2, <1>1
    <3> QED
      BY <3>2, <3>3, <3>4
  <2> QED
    BY <2>1, <1>1 DEF TurnInv
<1> QED
  BY <1>1, <1>2, <1>3, <1>5 DEF LoopInv, ReadInv

\* IN starts to wait: only the phase changes.
LEMMA WaitStep ==
  ASSUME LoopInv, WaitForInput
  PROVE  LoopInv'
<1>1. /\ phase = "loop" /\ phase' = "reading"
      /\ i < MAX_THREADS /\ status[i] = THREAD_ACTIVE /\ left[i] # 1
      /\ UNCHANGED <<status, left, i, free_threads, since>>
  BY DEF WaitForInput, AtActive
<1>2. TypeOK'
  BY <1>1 DEF LoopInv, TypeOK
<1>3. PassInv'
  BY <1>1 DEF LoopInv, PassInv
<1>4. TurnInv'
  BY <1>1 DEF LoopInv, TurnInv
<1>5. ReadInv'
  BY <1>1, SchedulerAssumption DEF LoopInv, TypeOK, ReadInv, Slots
<1> QED
  BY <1>2, <1>3, <1>4, <1>5 DEF LoopInv

\* A free slot is counted and passed over.
LEMMA VisitStep ==
  ASSUME LoopInv, VisitFree
  PROVE  LoopInv'
<1>1. /\ phase = "loop" /\ i \in Slots /\ status[i] = THREAD_FREE
      /\ free_threads' = free_threads + 1 /\ i' = i + 1
      /\ UNCHANGED <<phase, status, left, since>>
      /\ i \in Int /\ free_threads \in Nat /\ free_threads <= i
  BY SchedulerAssumption DEF VisitFree, NextSlot, Slots, LoopInv, TypeOK, PassInv
<1>2. TypeOK'
  BY <1>1, SchedulerAssumption DEF LoopInv, TypeOK, Slots
<1>3. PassInv'
  <2>1. ASSUME free_threads' = i', NEW s \in Slots, s < i'
        PROVE  status'[s] = THREAD_FREE
    <3>1. s \in Int
      BY SchedulerAssumption DEF Slots
    <3>2. s < i \/ s = i
      BY <3>1, <2>1, <1>1
    <3>3. free_threads + 1 = i + 1
      BY <2>1, <1>1
    <3>4. free_threads = i
      BY <3>3, <1>1
    <3> QED
      BY <3>2, <3>4, <1>1 DEF LoopInv, PassInv
  <2> QED
    BY <2>1, <1>1 DEF PassInv
<1>4. TurnInv'
  <2>1. ASSUME NEW t \in Slots, status'[t] = THREAD_ACTIVE, NEW u \in since'[t]
        PROVE  IF t < i' THEN t < u /\ u < i' ELSE u > t \/ u < i'
    <3>1. t # i /\ status[t] = THREAD_ACTIVE /\ u \in since[t]
      BY <2>1, <1>1, StatusesDiffer
    <3>2. u \in Int /\ t \in Int
      BY <3>1 DEF LoopInv, TypeOK, Slots
    <3>3. IF t < i THEN t < u /\ u < i ELSE u > t \/ u < i
      BY <3>1 DEF LoopInv, TurnInv
    <3> QED
      BY <3>1, <3>2, <3>3, <1>1
  <2> QED
    BY <2>1, <1>1 DEF TurnInv
<1> QED
  BY <1>1, <1>2, <1>3, <1>4 DEF LoopInv, ReadInv

\* The loop starts over, with a count of its own.
LEMMA PassStep ==
  ASSUME LoopInv, NextPass
  PROVE  LoopInv'
<1>1. /\ phase = "loop" /\ i = MAX_THREADS /\ i' = 0 /\ free_threads' = 0
      /\ UNCHANGED <<phase, status, left, since>>
  BY DEF NextPass, CountAnew
<1>2. TypeOK'
  BY <1>1, SchedulerAssumption DEF LoopInv, TypeOK
<1>3. PassInv'
  BY <1>1 DEF PassInv, Slots
<1>4. TurnInv'
  <2>1. ASSUME NEW t \in Slots, status'[t] = THREAD_ACTIVE, NEW u \in since'[t]
        PROVE  IF t < i' THEN t < u /\ u < i' ELSE u > t \/ u < i'
    <3>1. t < u
      BY <2>1, <1>1, SchedulerAssumption DEF LoopInv, TurnInv, Slots
    <3> QED
      BY <3>1, <1>1 DEF Slots
  <2> QED
    BY <2>1, <1>1 DEF TurnInv
<1> QED
  BY <1>1, <1>2, <1>3, <1>4 DEF LoopInv, ReadInv

\* The loop ends, in the process or by returning.
LEMMA EndStep ==
  ASSUME LoopInv, ExitProcess \/ Return
  PROVE  LoopInv'
<1>1. /\ phase' \in {"exited", "returned"}
      /\ phase' = "returned" => i = MAX_THREADS /\ free_threads >= MAX_THREADS /\ phase = "loop"
      /\ UNCHANGED <<status, left, i, free_threads, since>>
  BY DEF ExitProcess, Return
<1>2. TypeOK'
  BY <1>1 DEF LoopInv, TypeOK
<1>3. PassInv'
  BY <1>1, SchedulerAssumption DEF LoopInv, PassInv, TypeOK
<1>4. TurnInv'
  BY <1>1 DEF LoopInv, TurnInv
<1> QED
  BY <1>1, <1>2, <1>3, <1>4 DEF LoopInv, ReadInv

----------------------------------------------------------------------------
\* The types, the count of free slots and the turns, in every state.
THEOREM LoopInvariant == Spec => []LoopInv
<1>1. Init => LoopInv
  <2> SUFFICES ASSUME Init PROVE LoopInv
    OBVIOUS
  <2>1. TypeOK
    BY SchedulerAssumption DEF Init, TypeOK, Forever
  <2>2. PassInv
    BY DEF Init, PassInv
  <2>3. TurnInv
    BY StatusesDiffer DEF Init, TurnInv
  <2> QED
    BY <2>1, <2>2, <2>3 DEF Init, LoopInv, ReadInv
<1>2. LoopInv /\ [Next]_vars => LoopInv'
  <2> SUFFICES ASSUME LoopInv, [Next]_vars PROVE LoopInv'
    OBVIOUS
  <2>1. CASE HostRequests
    BY <2>1, RequestStep, EndStep DEF HostRequests
  <2>2. CASE EnterLoop
    BY <2>2, RequestStep, EndStep DEF EnterLoop
  <2>3. CASE VisitFree
    BY <2>3, VisitStep
  <2>4. CASE Execute \/ InputArrives
    BY <2>4, ExecuteStep
  <2>5. CASE ExecuteExits \/ Return
    BY <2>5, EndStep DEF ExecuteExits
  <2>6. CASE NextPass
    BY <2>6, PassStep
  <2>7. CASE WaitForInput
    BY <2>7, WaitStep
  <2>8. CASE UNCHANGED vars
    BY <2>8 DEF LoopInv, TypeOK, PassInv, TurnInv, ReadInv, vars
  <2> QED
    BY <2>1, <2>2, <2>3, <2>4, <2>5, <2>6, <2>7, <2>8 DEF Next, Loop
<1> QED
  BY <1>1, <1>2, PTL DEF Spec

\* vm_execute returns only when the thread of every slot has ended.
THEOREM NobodyAbandoned == Spec => []ReturnsWhenAllFree
<1>1. LoopInv => ReturnsWhenAllFree
  BY SchedulerAssumption DEF LoopInv, PassInv, ReturnsWhenAllFree, Slots
<1> QED
  BY <1>1, LoopInvariant, PTL

\* No thread executes twice while another active thread waits for its turn.
THEOREM RoundRobin == Spec => TakesTurns
<1>1. LoopInv /\ (Execute \/ InputArrives) =>
        \A t \in Slots \ {i} : status[t] = THREAD_ACTIVE => i \notin since[t]
  <2> SUFFICES ASSUME LoopInv, Execute \/ InputArrives, NEW t \in Slots \ {i},
                      status[t] = THREAD_ACTIVE, i \in since[t]
               PROVE  FALSE
    OBVIOUS
  <2>1. IF t < i THEN t < i /\ i < i ELSE i > t \/ i < i
    BY DEF LoopInv, TurnInv
  <2>2. t \in Int /\ i \in Int /\ t # i
    BY CompletedHere DEF LoopInv, TypeOK, Slots
  <2> QED
    BY <2>1, <2>2
<1>2. LoopInv /\ [Next]_vars =>
        [Execute \/ InputArrives =>
           \A t \in Slots \ {i} : status[t] = THREAD_ACTIVE => i \notin since[t]]_vars
  BY <1>1
<1> QED
  BY <1>2, LoopInvariant, PTL DEF Spec, TakesTurns

\* The loop variable and the count of free slots stay within the pool.
THEOREM LoopTyped == Spec => []TypeOK
<1>1. LoopInv => TypeOK
  BY DEF LoopInv
<1> QED
  BY <1>1, LoopInvariant, PTL

----------------------------------------------------------------------------
(* What EveryProgramEnds and ExecutionReturns rest on, apart from fairness: *)
(* each step of the loop counts down.                                       *)

\* The steps of the loop before the next turn of a slot: the slots in between,
\* and the end of the pass if the slot has had its turn in this one.
StepsToTurn(s) == IF i <= s THEN s - i ELSE MAX_THREADS + 1 + s - i

\* The steps before the thread of a slot has executed its last instruction.
StepsToEnd(s) == left[s] * (MAX_THREADS + 1) + StepsToTurn(s)

\* One pass more or less.
LEMMA OnePass ==
  ASSUME NEW n \in Nat \ {0}
  PROVE  /\ n * (MAX_THREADS + 1) \in Nat
         /\ n * (MAX_THREADS + 1) = (n - 1) * (MAX_THREADS + 1) + MAX_THREADS + 1
BY SchedulerAssumption

\* The turn of a slot that is not under the loop variable comes nearer.
LEMMA TurnNearer ==
  ASSUME TypeOK, NEW s \in Slots, s # i,
         \/ i < MAX_THREADS /\ i' = i + 1
         \/ i = MAX_THREADS /\ i' = 0
  PROVE  StepsToTurn(s)' = StepsToTurn(s) - 1
BY SchedulerAssumption DEF TypeOK, Slots, StepsToTurn

\* Every step of vm_execute brings every thread that ends one step nearer to its
\* end, whatever the other threads do: so it ends within left * (MAX_THREADS + 1)
\* + MAX_THREADS of them, unless an instruction ends the process.  A step that
\* starts to wait for input changes nothing, and the next one is the answer.
THEOREM ThreadsCountDown ==
  Spec => [][\A s \in Slots :
               InLoop /\ status[s] = THREAD_ACTIVE /\ left[s] # Forever =>
                 \/ phase' = "exited"
                 \/ phase = "loop" /\ phase' = "reading" /\ UNCHANGED <<status, left, i>>
                 \/ left[s] = 1 /\ i = s /\ status'[s] = THREAD_FREE
                 \/ /\ status'[s] = THREAD_ACTIVE /\ left'[s] # Forever
                    /\ StepsToEnd(s)' = StepsToEnd(s) - 1 /\ StepsToEnd(s)' \in Nat]_vars
<1>1. ASSUME LoopInv, Next, NEW s \in Slots,
             InLoop, status[s] = THREAD_ACTIVE, left[s] # Forever
      PROVE  \/ phase' = "exited"
             \/ phase = "loop" /\ phase' = "reading" /\ UNCHANGED <<status, left, i>>
             \/ left[s] = 1 /\ i = s /\ status'[s] = THREAD_FREE
             \/ /\ status'[s] = THREAD_ACTIVE /\ left'[s] # Forever
                /\ StepsToEnd(s)' = StepsToEnd(s) - 1 /\ StepsToEnd(s)' \in Nat
  <2>1. /\ TypeOK /\ left[s] \in Nat \ {0} /\ i \in 0..MAX_THREADS
        /\ status \in [Slots -> {THREAD_FREE, THREAD_ACTIVE}] /\ left \in [Slots -> Nat]
        /\ s \in 0..(MAX_THREADS - 1) /\ MAX_THREADS \in Nat
    BY <1>1, SchedulerAssumption DEF LoopInv, TypeOK, Slots, Forever
  <2>2. StepsToTurn(s) \in 0..MAX_THREADS
    BY <2>1 DEF StepsToTurn
  <2>3. ASSUME UNCHANGED <<status, left>>, s # i,
               \/ i < MAX_THREADS /\ i' = i + 1
               \/ i = MAX_THREADS /\ i' = 0
        PROVE  /\ status'[s] = THREAD_ACTIVE /\ left'[s] # Forever
               /\ StepsToEnd(s)' = StepsToEnd(s) - 1 /\ StepsToEnd(s)' \in Nat
    <3>1. StepsToTurn(s)' = StepsToTurn(s) - 1
      BY <1>1, <2>1, <2>3, TurnNearer
    <3>2. StepsToTurn(s)' \in 0..MAX_THREADS
      BY <2>1, <2>3 DEF StepsToTurn
    <3>3. left[s] * (MAX_THREADS + 1) \in Nat
      BY <2>1, OnePass
    <3> QED
      BY <1>1, <2>2, <2>3, <3>1, <3>2, <3>3 DEF StepsToEnd
  <2>4. CASE VisitFree
    <3>1. s # i
      BY <1>1, <2>4, StatusesDiffer DEF VisitFree
    <3> QED
      BY <2>3, <2>4, <3>1 DEF VisitFree, NextSlot
  <2>5. CASE NextPass
    BY <2>1, <2>3, <2>5 DEF NextPass
  <2>6. CASE (Execute \/ InputArrives) /\ i # s
    <3>1. /\ i \in Slots /\ i < MAX_THREADS /\ i' = i + 1
          /\ status'[s] = status[s] /\ left'[s] = left[s]
      BY <1>1, <2>1, <2>6, CompletedHere DEF Completes, NextSlot, Slots
    <3>2. StepsToTurn(s)' = StepsToTurn(s) - 1
      BY <2>1, <2>6, <3>1, TurnNearer
    <3>3. StepsToTurn(s)' \in 0..MAX_THREADS
      BY <2>1, <3>1 DEF StepsToTurn
    <3>4. left[s] * (MAX_THREADS + 1) \in Nat
      BY <2>1, OnePass
    <3> QED
      BY <1>1, <2>2, <3>1, <3>2, <3>3, <3>4 DEF StepsToEnd
  <2>7. CASE (Execute \/ InputArrives) /\ i = s
    <3>1. /\ i' = s + 1 /\ left'[s] = left[s] - 1
          /\ left[s] = 1 => status'[s] = THREAD_FREE
          /\ left[s] # 1 => status'[s] = THREAD_ACTIVE
      BY <1>1, <2>1, <2>7, CompletedHere DEF Completes, NextSlot
    <3>2. CASE left[s] = 1
      BY <2>7, <3>1, <3>2
    <3>3. CASE left[s] # 1
      <4>1. StepsToTurn(s) = 0 /\ StepsToTurn(s)' = MAX_THREADS
        BY <2>1, <2>7, <3>1 DEF StepsToTurn
      <4>2. left'[s] \in Nat \ {0}
        BY <2>1, <3>1, <3>3
      <4>3. /\ left[s] * (MAX_THREADS + 1)
                 = left'[s] * (MAX_THREADS + 1) + MAX_THREADS + 1
            /\ left'[s] * (MAX_THREADS + 1) \in Nat
        BY <2>1, <3>1, <4>2, OnePass
      <4> QED
        BY <2>1, <3>1, <3>3, <4>1, <4>2, <4>3 DEF StepsToEnd, Forever
    <3> QED
      BY <3>2, <3>3
  <2>8. CASE Return
    <3>1. phase = "loop" /\ free_threads = i /\ i = MAX_THREADS
      BY <1>1, <2>1, <2>8 DEF Return, LoopInv, PassInv, TypeOK
    <3>2. s < i
      BY <2>1, <3>1
    <3>3. status[s] = THREAD_FREE
      BY <1>1, <3>1, <3>2 DEF LoopInv, PassInv
    <3> QED
      BY <1>1, <3>3, StatusesDiffer
  <2>9. CASE ExecuteExits
    BY <2>9 DEF ExecuteExits, ExitProcess
  <2>10. CASE WaitForInput
    BY <2>10 DEF WaitForInput, AtActive
  <2> QED
    BY <1>1, <2>4, <2>5, <2>6, <2>7, <2>8, <2>9, <2>10
       DEF Next, HostRequests, EnterLoop, Loop, InLoop
<1>2. LoopInv /\ [Next]_vars =>
        [\A s \in Slots :
           InLoop /\ status[s] = THREAD_ACTIVE /\ left[s] # Forever =>
             \/ phase' = "exited"
             \/ phase = "loop" /\ phase' = "reading" /\ UNCHANGED <<status, left, i>>
             \/ left[s] = 1 /\ i = s /\ status'[s] = THREAD_FREE
             \/ /\ status'[s] = THREAD_ACTIVE /\ left'[s] # Forever
                /\ StepsToEnd(s)' = StepsToEnd(s) - 1 /\ StepsToEnd(s)' \in Nat]_vars
  BY <1>1
<1> QED
  BY <1>2, LoopInvariant, PTL DEF Spec

\* The steps before vm_execute returns when all slots are free: the rest of this
\* pass and, if a thread was still active in it, another one.
StepsToReturn ==
  (IF free_threads = i THEN 0 ELSE MAX_THREADS + 1) + MAX_THREADS - i

\* Once the last thread has ended, every step of vm_execute counts down to its
\* return: it counts the free slots once more and comes back.
THEOREM ReturnCountsDown ==
  Spec => [][phase = "loop" /\ (\A s \in Slots : status[s] = THREAD_FREE) =>
               \/ phase' = "returned" /\ StepsToReturn = 0
               \/ /\ phase' = "loop" /\ \A s \in Slots : status'[s] = THREAD_FREE
                  /\ StepsToReturn' = StepsToReturn - 1 /\ StepsToReturn' \in Nat]_vars
<1>1. ASSUME LoopInv, Next, phase = "loop", \A s \in Slots : status[s] = THREAD_FREE
      PROVE  \/ phase' = "returned" /\ StepsToReturn = 0
             \/ /\ phase' = "loop" /\ \A s \in Slots : status'[s] = THREAD_FREE
                /\ StepsToReturn' = StepsToReturn - 1 /\ StepsToReturn' \in Nat
  <2>1. /\ i \in 0..MAX_THREADS /\ free_threads \in 0..MAX_THREADS /\ free_threads <= i
        /\ MAX_THREADS \in Nat
    BY <1>1, SchedulerAssumption DEF LoopInv, TypeOK, PassInv
  <2>2. CASE VisitFree
    BY <1>1, <2>1, <2>2 DEF VisitFree, NextSlot, StepsToReturn
  <2>3. CASE NextPass
    BY <1>1, <2>1, <2>3 DEF NextPass, CountAnew, StepsToReturn
  <2>4. CASE Return
    BY <1>1, <2>1, <2>4 DEF Return, StepsToReturn
  <2>5. ~Execute /\ ~WaitForInput /\ ~InputArrives /\ ~ExecuteExits
    <3>1. i < MAX_THREADS => status[i] = THREAD_FREE
      BY <1>1, <2>1 DEF Slots
    <3> QED
      BY <1>1, <3>1, StatusesDiffer
         DEF Execute, WaitForInput, InputArrives, ExecuteExits, AtActive
  <2> QED
    BY <1>1, <2>2, <2>3, <2>4, <2>5 DEF Next, HostRequests, EnterLoop, Loop
<1>2. LoopInv /\ [Next]_vars =>
        [phase = "loop" /\ (\A s \in Slots : status[s] = THREAD_FREE) =>
           \/ phase' = "returned" /\ StepsToReturn = 0
           \/ /\ phase' = "loop" /\ \A s \in Slots : status'[s] = THREAD_FREE
              /\ StepsToReturn' = StepsToReturn - 1 /\ StepsToReturn' \in Nat]_vars
  BY <1>1
<1> QED
  BY <1>2, LoopInvariant, PTL DEF Spec

=============================================================================
