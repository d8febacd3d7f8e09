--------------------------- MODULE CallFramesProofs ----------------------------
(****************************************************************************)
(* For every size of the stacks: CALL and RET move the two stacks together, *)
(* the frames stay apart and what a subroutine stored is kept.  The four    *)
(* invariants are inductive together, and none of them is without the       *)
(* others: that a store does not reach the frames below rests on their      *)
(* order, and the order on the checks of store_stack.                       *)
(****************************************************************************)
EXTENDS CallFrames, TLAPS

\* The four invariants of the runs; none is inductive alone.
FrameInv == TypeOK /\ LockStep /\ FramesApart /\ LocalsKept

\* A running thread has a frame, and it has one for each return address.
LEMMA FrameThere ==
  ASSUME TypeOK, LockStep, status = THREAD_ACTIVE
  PROVE  /\ sfp \in Activations
         /\ sfp = csp + 1
         /\ stack_frame[sfp].start \in Nat
         /\ stack_frame[sfp].count \in Nat
BY FrameAssumption DEF TypeOK, LockStep, Activations, Frames

\* The end of the top frame and the words a local store may reach are computed
\* without wrapping around.
LEMMA NoWrap ==
  ASSUME TypeOK, LockStep, FramesApart, status = THREAD_ACTIVE
  PROVE  /\ (stack_frame[sfp].start + stack_frame[sfp].count) % WORD_MOD
              = stack_frame[sfp].start + stack_frame[sfp].count
         /\ \A offset \in Offsets :
              /\ Address(offset) = stack_frame[sfp].start + offset
              /\ (offset + 1) % WORD_MOD = offset + 1
<1> DEFINE s == stack_frame[sfp].start
           c == stack_frame[sfp].count
<1>1. s \in Nat /\ c \in Nat /\ s + c <= THREAD_STACK_SIZE
  BY FrameThere DEF FramesApart, Activations
<1>2. \A x \in Nat : x < WORD_MOD => x % WORD_MOD = x
  BY FrameAssumption, SMTT(30)
<1>3. (s + c) % WORD_MOD = s + c
  BY <1>1, <1>2, FrameAssumption
<1>4. ASSUME NEW offset \in Offsets
      PROVE  Address(offset) = s + offset /\ (offset + 1) % WORD_MOD = offset + 1
  <2>1. offset \in Nat /\ offset + THREAD_STACK_SIZE < WORD_MOD
    BY OffsetsAssumption
  <2>2. s + offset \in Nat /\ s + offset < WORD_MOD
    BY <1>1, <2>1, FrameAssumption
  <2>3. offset + 1 \in Nat /\ offset + 1 < WORD_MOD
    BY <2>1, FrameAssumption
  <2> QED
    BY <2>2, <2>3, <1>2 DEF Address
<1> QED
  BY <1>3, <1>4

----------------------------------------------------------------------------
(* One lemma per instruction that changes a frame.                          *)

\* CALL puts an empty frame behind the last one.
LEMMA CallStep ==
  ASSUME FrameInv, NEW target \in Starts, CALL(target)
  PROVE  FrameInv'
<1> DEFINE new == stack_frame[sfp].start + stack_frame[sfp].count
           frame == [start |-> new, count |-> 0]
<1>1. status = THREAD_ACTIVE /\ sfp \in Activations /\ sfp = csp + 1
  BY FrameThere DEF FrameInv, CALL, Fetched
<1>2. /\ stack_frame[sfp].start \in Nat /\ stack_frame[sfp].count \in Nat
      /\ new \in Nat /\ new <= THREAD_STACK_SIZE
  BY <1>1, FrameThere DEF FrameInv, FramesApart, Activations
<1>3. stack_frame' = [stack_frame EXCEPT ![sfp + 1] = frame]
  BY <1>1, NoWrap DEF FrameInv, CALL, NextFrame
<1>4. /\ sfp' = sfp + 1 /\ csp' = csp + 1 /\ pc' = target /\ status' = status
      /\ call_stack' = [call_stack EXCEPT ![csp + 1] = pc + 2]
      /\ stored' = [stored EXCEPT ![sfp + 1] = Nothing]
      /\ ram_stack' = ram_stack /\ running' = running
      /\ sfp + 1 \in Activations /\ csp + 1 \in 0..(CALL_STACK_MEM - 1)
  BY <1>1, FrameAssumption DEF CALL, CallRoom, FrameInv, TypeOK, Activations
<1>5. TypeOK'
  <2>1. frame \in Frames
    BY <1>2 DEF Frames
  <2>2. Nothing \in [Offsets -> SUBSET Payloads]
    BY DEF Nothing
  <2>3. pc' \in Nat /\ pc + 2 \in Nat
    BY <1>4, FrameAssumption DEF FrameInv, TypeOK
  <2> QED
    BY <2>1, <2>2, <2>3, <1>3, <1>4 DEF FrameInv, TypeOK, Activations
<1>6. LockStep'
  BY <1>1, <1>4 DEF LockStep
<1>7. /\ \A i \in 0..sfp : i \in Activations /\ stack_frame'[i] = stack_frame[i]
      /\ stack_frame'[sfp + 1] = frame
      /\ \A i \in 0..sfp : stored'[i] = stored[i]
      /\ stored'[sfp + 1] = Nothing
  <2>1. \A i \in 0..sfp : i \in Activations /\ i # sfp + 1
    BY <1>1, FrameAssumption DEF Activations
  <2>2. DOMAIN stack_frame = Activations /\ DOMAIN stored = Activations
    BY DEF FrameInv, TypeOK
  <2> QED
    BY <2>1, <2>2, <1>3, <1>4
<1>8. \A i \in 0..sfp : stack_frame[i].start + stack_frame[i].count <= new
  <2>1. ASSUME NEW i \in 0..sfp
        PROVE  stack_frame[i].start + stack_frame[i].count <= new
    <3>1. CASE i = sfp
      BY <3>1, <1>2
    <3>2. CASE i < sfp
      <4>1. stack_frame[i].start + stack_frame[i].count <= stack_frame[sfp].start
        BY <3>2, <1>1 DEF FrameInv, FramesApart, Activations
      <4>2. stack_frame[i] \in Frames
        BY <1>7 DEF FrameInv, TypeOK
      <4> QED
        BY <4>1, <4>2, <1>2 DEF Frames
    <3> QED
      BY <3>1, <3>2, <1>1 DEF Activations
  <2> QED
    BY <2>1
<1>9. FramesApart'
  <2>1. ASSUME NEW i \in 0..(sfp + 1), NEW j \in 0..(sfp + 1), i < j
        PROVE  stack_frame'[i].start + stack_frame'[i].count <= stack_frame'[j].start
    <3>1. CASE j = sfp + 1
      BY <2>1, <3>1, <1>1, <1>7, <1>8 DEF Activations
    <3>2. CASE j # sfp + 1
      BY <2>1, <3>2, <1>1, <1>7 DEF FrameInv, FramesApart, Activations
    <3> QED
      BY <3>1, <3>2
  <2>2. ASSUME NEW i \in 0..(sfp + 1)
        PROVE  stack_frame'[i].start + stack_frame'[i].count <= THREAD_STACK_SIZE
    <3>1. CASE i = sfp + 1
      BY <3>1, <1>2, <1>7
    <3>2. CASE i # sfp + 1
      BY <3>2, <1>1, <1>7 DEF FrameInv, FramesApart, Activations
    <3> QED
      BY <3>1, <3>2
  <2> QED
    BY <2>1, <2>2, <1>4 DEF FramesApart
<1>10. LocalsKept'
  <2>1. ASSUME NEW i \in 0..(sfp + 1), NEW offset \in Offsets,
               NEW value \in stored'[i][offset]
        PROVE  /\ offset < stack_frame'[i].count
               /\ ram_stack'[stack_frame'[i].start + offset] = value
    <3>1. i # sfp + 1
      BY <2>1, <1>7 DEF Nothing
    <3>2. i \in 0..sfp
      BY <3>1, <1>1 DEF Activations
    <3> QED
      BY <3>2, <2>1, <1>1, <1>4, <1>7 DEF FrameInv, LocalsKept
  <2> QED
    BY <2>1, <1>4 DEF LocalsKept
<1> QED
  BY <1>5, <1>6, <1>9, <1>10 DEF FrameInv

\* A local store changes the count of the top frame and a word of it alone.
LEMMA StoreStep ==
  ASSUME FrameInv, NEW words \in {2, 3}, NEW offset \in Offsets,
         NEW value \in Payloads, LocalStore(words, offset, value)
  PROVE  FrameInv'
<1> DEFINE s == stack_frame[sfp].start
           c == stack_frame[sfp].count
           top == Grown(stack_frame[sfp], offset)
<1>1. status = THREAD_ACTIVE /\ sfp \in Activations /\ sfp = csp + 1
  BY FrameThere DEF FrameInv, LocalStore, Fetched
<1>2. s \in Nat /\ c \in Nat /\ offset \in Nat /\ s + c <= THREAD_STACK_SIZE
  BY <1>1, FrameThere, OffsetsAssumption DEF FrameInv, FramesApart, Activations
<1>3. Address(offset) = s + offset /\ (offset + 1) % WORD_MOD = offset + 1
  BY <1>1, NoWrap DEF FrameInv
<1>4. /\ stack_frame' = [stack_frame EXCEPT ![sfp] = top]
      /\ ram_stack' = [ram_stack EXCEPT ![s + offset] = value]
      /\ stored' = [stored EXCEPT ![sfp][offset] = {value}]
      /\ s + offset < THREAD_STACK_SIZE
      /\ sfp' = sfp /\ csp' = csp /\ status' = status
      /\ call_stack' = call_stack /\ running' = running /\ pc' = pc + words
  BY <1>3 DEF LocalStore
<1>5. /\ top \in Frames /\ top.start = s
      /\ top.count >= c /\ offset < top.count
      /\ s + top.count <= THREAD_STACK_SIZE
  <2>1. stack_frame[sfp] \in Frames
    BY <1>1 DEF FrameInv, TypeOK
  <2>2. CASE c < offset + 1
    <3>1. top = [start |-> s, count |-> offset + 1]
      BY <2>1, <2>2, <1>3 DEF Grown, Frames
    <3> QED
      BY <3>1, <2>2, <1>2, <1>4, FrameAssumption DEF Frames
  <2>3. CASE ~(c < offset + 1)
    <3>1. top = stack_frame[sfp]
      BY <2>3, <1>3 DEF Grown
    <3> QED
      BY <3>1, <2>1, <2>3, <1>2
  <2> QED
    BY <2>2, <2>3
<1>6. TypeOK'
  <2>1. pc' \in Nat
    BY <1>4 DEF FrameInv, TypeOK
  <2>2. stored' \in [Activations -> [Offsets -> SUBSET Payloads]]
    BY <1>4 DEF FrameInv, TypeOK
  <2>3. ram_stack' \in [0..(THREAD_STACK_SIZE - 1) -> Payloads \cup Residue]
    BY <1>4, <1>2 DEF FrameInv, TypeOK
  <2>4. stack_frame' \in [Activations -> Frames]
    BY <1>4, <1>5 DEF FrameInv, TypeOK
  <2> QED
    BY <2>1, <2>2, <2>3, <2>4, <1>4 DEF FrameInv, TypeOK
<1>7. LockStep'
  BY <1>1, <1>4 DEF LockStep
<1>8. /\ \A i \in 0..sfp : i \in Activations
      /\ \A i \in 0..sfp : i # sfp => stack_frame'[i] = stack_frame[i]
      /\ \A i \in 0..sfp : i # sfp => stored'[i] = stored[i]
      /\ stack_frame'[sfp] = top
      /\ \A i \in 0..sfp : stack_frame'[i].start = stack_frame[i].start
  <2>1. \A i \in 0..sfp : i \in Activations
    BY <1>1, FrameAssumption DEF Activations
  <2>2. DOMAIN stack_frame = Activations /\ DOMAIN stored = Activations
    BY DEF FrameInv, TypeOK
  <2>3. \A i \in 0..sfp : i # sfp => stack_frame'[i] = stack_frame[i]
    BY <2>1, <2>2, <1>4
  <2>4. \A i \in 0..sfp : i # sfp => stored'[i] = stored[i]
    BY <2>1, <2>2, <1>4
  <2>5. stack_frame'[sfp] = top
    BY <2>2, <1>1, <1>4
  <2> QED
    BY <2>1, <2>3, <2>4, <2>5, <1>5
<1>9. FramesApart'
  <2>1. ASSUME NEW i \in 0..sfp, NEW j \in 0..sfp, i < j
        PROVE  stack_frame'[i].start + stack_frame'[i].count <= stack_frame'[j].start
    <3>1. i # sfp
      BY <2>1, <1>1 DEF Activations
    <3> QED
      BY <3>1, <2>1, <1>1, <1>8 DEF FrameInv, FramesApart
  <2>2. ASSUME NEW i \in 0..sfp
        PROVE  stack_frame'[i].start + stack_frame'[i].count <= THREAD_STACK_SIZE
    BY <2>2, <1>1, <1>5, <1>8 DEF FrameInv, FramesApart
  <2> QED
    BY <2>1, <2>2, <1>4 DEF FramesApart
<1>10. LocalsKept'
  <2>1. ASSUME NEW i \in 0..sfp, NEW o \in Offsets, NEW v \in stored'[i][o]
        PROVE  /\ o < stack_frame'[i].count
               /\ ram_stack'[stack_frame'[i].start + o] = v
    <3>1. o \in Nat
      BY OffsetsAssumption
    <3>2. CASE i # sfp
      <4>1. /\ v \in stored[i][o] /\ stack_frame'[i] = stack_frame[i]
            /\ stack_frame[i] \in Frames
        BY <2>1, <3>2, <1>8 DEF FrameInv, TypeOK
      <4>2. /\ o < stack_frame[i].count
            /\ ram_stack[stack_frame[i].start + o] = v
        BY <4>1, <1>1 DEF FrameInv, LocalsKept
      <4>3. i < sfp /\ sfp \in 0..sfp
        BY <3>2, <1>1 DEF Activations
      <4>4. stack_frame[i].start + stack_frame[i].count <= s
        BY <4>3, <1>1 DEF FrameInv, FramesApart
      <4>5. stack_frame[i].start + o # s + offset
        BY <4>1, <4>2, <4>4, <3>1, <1>2 DEF Frames
      <4>6. ram_stack'[stack_frame[i].start + o] = ram_stack[stack_frame[i].start + o]
        <5>1. stack_frame[i].start + o \in 0..(THREAD_STACK_SIZE - 1)
          BY <4>1, <4>2, <4>4, <3>1, <1>2, FrameAssumption DEF Frames
        <5> QED
          BY <5>1, <4>5, <1>4 DEF FrameInv, TypeOK
      <4> QED
        BY <4>1, <4>2, <4>6
    <3>3. CASE i = sfp /\ o = offset
      <4>1. stored'[sfp][offset] = {value}
        BY <1>1, <1>4 DEF FrameInv, TypeOK
      <4>2. s + offset \in 0..(THREAD_STACK_SIZE - 1)
        BY <1>2, <1>4, FrameAssumption
      <4>3. ram_stack'[s + offset] = value
        BY <4>2, <1>4 DEF FrameInv, TypeOK
      <4> QED
        BY <4>1, <4>3, <3>3, <2>1, <1>5, <1>8
    <3>4. CASE i = sfp /\ o # offset
      <4>1. v \in stored[sfp][o]
        BY <3>4, <2>1, <1>1, <1>4 DEF FrameInv, TypeOK
      <4>2. o < c /\ ram_stack[s + o] = v
        BY <4>1, <1>1 DEF FrameInv, LocalsKept, Activations
      <4>3. s + o \in 0..(THREAD_STACK_SIZE - 1) /\ s + o # s + offset
        BY <4>2, <3>1, <3>4, <1>2, FrameAssumption
      <4>4. ram_stack'[s + o] = ram_stack[s + o]
        BY <4>3, <1>4 DEF FrameInv, TypeOK
      <4>5. o < top.count
        BY <4>2, <3>1, <1>2, <1>5 DEF Frames
      <4> QED
        BY <4>2, <4>4, <4>5, <3>4, <1>5, <1>8
    <3> QED
      BY <3>2, <3>3, <3>4
  <2> QED
    BY <2>1, <1>4 DEF LocalsKept
<1> QED
  BY <1>6, <1>7, <1>9, <1>10 DEF FrameInv

\* RET only uncovers the frame below.
LEMMA RetStep ==
  ASSUME FrameInv, RET
  PROVE  FrameInv'
<1>1. status = THREAD_ACTIVE /\ sfp \in Activations /\ sfp = csp + 1 /\ csp >= 0
  BY FrameThere DEF FrameInv, RET, Fetched
<1>2. /\ sfp' = sfp - 1 /\ csp' = csp - 1 /\ pc' = call_stack[csp]
      /\ running' = TRUE /\ running = TRUE
      /\ UNCHANGED <<status, call_stack, stack_frame, ram_stack, stored>>
  <2>1. sfp >= 0
    BY <1>1, FrameAssumption DEF Activations
  <2>2. running = TRUE
    BY DEF RET, Fetched, FrameInv, TypeOK
  <2> QED
    BY <2>1, <2>2 DEF RET
<1>3. TypeOK'
  <2>1. pc' \in Nat /\ csp' \in -1..(CALL_STACK_MEM - 1)
    BY <1>1, <1>2, FrameAssumption DEF FrameInv, TypeOK
  <2> QED
    BY <2>1, <1>1, <1>2, FrameAssumption DEF FrameInv, TypeOK, Activations
<1>4. LockStep'
  BY <1>1, <1>2 DEF LockStep, Activations, FrameInv, TypeOK
<1>5. 0..sfp' \subseteq 0..sfp
  BY <1>1, <1>2 DEF Activations
<1>6. FramesApart'
  BY <1>1, <1>2, <1>5 DEF FrameInv, FramesApart
<1>7. LocalsKept'
  BY <1>1, <1>2, <1>5 DEF FrameInv, LocalsKept
<1> QED
  BY <1>3, <1>4, <1>6, <1>7 DEF FrameInv

\* A thread taken from the pool starts with one empty frame.
LEMMA RequestStep ==
  ASSUME FrameInv, NEW global_start \in Starts, vm_request_thread(global_start)
  PROVE  FrameInv'
<1>1. /\ status' = THREAD_ACTIVE /\ pc' = global_start /\ csp' = -1 /\ sfp' = 0
      /\ stack_frame' = [stack_frame EXCEPT ![0] = NoFrame]
      /\ stored' = [stored EXCEPT ![0] = Nothing]
      /\ UNCHANGED <<call_stack, ram_stack, running>>
      /\ 0 \in Activations
  BY FrameAssumption DEF vm_request_thread, Activations
<1>2. TypeOK'
  <2>1. NoFrame \in Frames /\ Nothing \in [Offsets -> SUBSET Payloads]
    BY DEF NoFrame, Frames, Nothing
  <2>2. pc' \in Nat
    BY <1>1, FrameAssumption
  <2>3. /\ stack_frame' \in [Activations -> Frames]
        /\ stored' \in [Activations -> [Offsets -> SUBSET Payloads]]
    BY <2>1, <1>1 DEF FrameInv, TypeOK
  <2> QED
    BY <2>2, <2>3, <1>1, FrameAssumption DEF FrameInv, TypeOK
<1>3. LockStep'
  BY <1>1 DEF LockStep
<1>4. stack_frame'[0] = NoFrame /\ stored'[0] = Nothing /\ 0..sfp' = {0}
  BY <1>1 DEF FrameInv, TypeOK
<1>5. FramesApart'
  BY <1>4, FrameAssumption DEF FramesApart, NoFrame
<1>6. LocalsKept'
  BY <1>4 DEF LocalsKept, Nothing
<1> QED
  BY <1>2, <1>3, <1>5, <1>6 DEF FrameInv

\* A step that leaves stacks and frames alone, and starts no thread.
LEMMA SameFrames ==
  ASSUME FrameInv, UNCHANGED <<csp, sfp, call_stack, stack_frame, ram_stack, stored>>,
         pc' \in Nat, running' \in BOOLEAN, status' = status \/ status' = THREAD_FREE
  PROVE  FrameInv'
<1>1. TypeOK'
  BY DEF FrameInv, TypeOK
<1>2. status' = THREAD_ACTIVE => status = THREAD_ACTIVE
  BY DEF THREAD_ACTIVE, THREAD_FREE
<1> QED
  BY <1>1, <1>2 DEF FrameInv, LockStep, FramesApart, LocalsKept

----------------------------------------------------------------------------
(* All instructions together.                                               *)

\* The invariant holds before a thread has started, ...
LEMMA FrameInit == Init => FrameInv
<1> SUFFICES ASSUME Init PROVE FrameInv
  OBVIOUS
<1>1. TypeOK
  <2>1. NoFrame \in Frames /\ Nothing \in [Offsets -> SUBSET Payloads]
    BY DEF NoFrame, Frames, Nothing
  <2>2. /\ ram_stack \in [0..(THREAD_STACK_SIZE - 1) -> Payloads \cup Residue]
        /\ call_stack \in [0..(CALL_STACK_MEM - 1) -> Nat]
        /\ pc \in Nat
    BY FrameAssumption DEF Init
  <2> QED
    BY <2>1, <2>2, FrameAssumption DEF Init, TypeOK
<1>2. status # THREAD_ACTIVE
  BY DEF Init, THREAD_FREE, THREAD_ACTIVE
<1> QED
  BY <1>1, <1>2 DEF FrameInv, LockStep, FramesApart, LocalsKept

\* ... and every instruction keeps it.
LEMMA FrameStep == FrameInv /\ [Next]_vars => FrameInv'
<1> SUFFICES ASSUME FrameInv, [Next]_vars PROVE FrameInv'
  OBVIOUS
<1>1. pc \in Nat /\ running \in BOOLEAN
  BY DEF FrameInv, TypeOK
<1>2. CASE \E global_start \in Starts : vm_request_thread(global_start)
  BY <1>2, RequestStep
<1>3. CASE HALT \/ RetUnderflow
  BY <1>1, <1>3, SameFrames DEF HALT, RetUnderflow
<1>4. CASE \E target \in Starts : CALL(target)
  BY <1>4, CallStep
<1>5. CASE \E target \in Starts : JUMP(target)
  BY <1>1, <1>5, SameFrames, FrameAssumption DEF JUMP
<1>6. CASE NoJump \/ \E offset \in Offsets : LOAD_L(offset)
  BY <1>1, <1>6, SameFrames DEF NoJump, LOAD_L
<1>7. CASE \/ CallFails
           \/ \E words \in {2, 3}, offset \in Offsets : LocalStoreFails(words, offset)
           \/ \E offset \in Offsets : LoadFails(offset)
  <2>1. Exit
    BY <1>7 DEF CallFails, LocalStoreFails, LoadFails
  <2> QED
    BY <1>1, <2>1, SameFrames DEF Exit
<1>8. CASE RET
  BY <1>8, RetStep
<1>9. CASE \E words \in {2, 3}, offset \in Offsets, value \in Payloads :
             LocalStore(words, offset, value)
  BY <1>9, StoreStep
<1>10. CASE UNCHANGED vars
  BY <1>1, <1>10, SameFrames DEF vars
<1> QED
  BY <1>2, <1>3, <1>4, <1>5, <1>6, <1>7, <1>8, <1>9, <1>10 DEF Next

\* The four invariants of the frames hold for any nesting of subroutines and any
\* local stores: frames do not overlap, so that locals survive the calls made
\* under them, and LOAD_L and STORE_L find the frame of the running subroutine.
THEOREM FramesInvariant == Spec => []FrameInv
BY FrameInit, FrameStep, PTL DEF Spec

\* Frames of the subroutines under way do not overlap and end inside ram_stack.
THEOREM FramesStayApart == Spec => []FramesApart
<1>1. FrameInv => FramesApart
  BY DEF FrameInv
<1> QED
  BY <1>1, FramesInvariant, PTL

\* A local keeps the value its subroutine stored, across every call made under it.
THEOREM LocalsSurvive == Spec => []LocalsKept
<1>1. FrameInv => LocalsKept
  BY DEF FrameInv
<1> QED
  BY <1>1, FramesInvariant, PTL

\* The call stack and the frames of a running thread have the same height.
THEOREM StacksInStep == Spec => []LockStep
<1>1. FrameInv => LockStep
  BY DEF FrameInv
<1> QED
  BY <1>1, FramesInvariant, PTL

\* The stacks of calls, frames and locals and their tops keep their types, so that no
\* push of CALL or of a local store goes past an array.
THEOREM FramesTyped == Spec => []TypeOK
<1>1. FrameInv => TypeOK
  BY DEF FrameInv
<1> QED
  BY <1>1, FramesInvariant, PTL

=============================================================================
