---------------------------- MODULE VmMemoryProofs -----------------------------
(****************************************************************************)
(* Theorems about ram[]: constants stay what the loader made them and heap  *)
(* headers what malloc_heap made them, for every program, also one that     *)
(* frees blocks twice.                                                      *)
(****************************************************************************)
EXTENDS VmMemory, BuddyHeapProofs

USE DEF memVars, vars

\* malloc_heap from the outside: it fails and writes nothing, or writes one
\* level into one heap word and returns the address after it.
LEMMA MallocWrites ==
  ASSUME TypeOK, NEW n \in Sizes, Malloc(n)
  PROVE  \/ ret'.addr = FAIL /\ header' = header
         \/ \E s \in HeapSlots, lvl \in Levels :
              /\ ret'.addr = s + 1 /\ s + 1 # FAIL
              /\ header' = [header EXCEPT ![s] = lvl]
<1>1. CASE MallocRefused(n)
  BY <1>1 DEF MallocRefused, Fails
<1>2. CASE MallocFull(n)
  BY <1>2 DEF MallocFull, Fails
<1>3. CASE MallocOk(n)
  <2>1. PICK lvl \in Levels, node \in Nodes :
          /\ node \in NodesAt(lvl)
          /\ header' = [header EXCEPT ![StartSlot(node, lvl)] = lvl]
          /\ ret' = [slots |-> n, addr |-> StartSlot(node, lvl) + 1]
    BY <1>3, MallocOkStep
  <2>2. StartSlot(node, lvl) \in HeapSlots
    BY <2>1, BlocksInArena, TreeAssumption, TreeSizes DEF HeapSlots
  <2>3. StartSlot(node, lvl) + 1 # FAIL
    BY <2>2, TreeAssumption, TreeSizes, ArenaAssumption
       DEF HeapSlots, FAIL, BUDDY_ARENA_SIZE
  <2> QED
    BY <2>1, <2>2, <2>3
<1> QED
  BY <1>1, <1>2, <1>3 DEF Malloc

\* Heap words are words of ram[].
LEMMA HeapInRam == HeapSlots \subseteq RamSlots
BY TreeAssumption, TreeSizes, ArenaAssumption
   DEF HeapSlots, RamSlots, VM_RAM_SIZE, BUDDY_ARENA_SIZE

\* How an instruction can change ram[]: not at all, one writable word through
\* store_global, or the word of a header.
LEMMA RamStep ==
  ASSUME MemTypeOK, [MemStaleNext]_memVars
  PROVE  \/ ram' = ram /\ header' = header
         \/ /\ header' = header
            /\ \E a \in RamSlots, v \in Values : Writable(a) /\ ram' = [ram EXCEPT ![a] = v]
         \/ \E s \in HeapSlots, lvl \in Levels :
              /\ ret'.addr = s + 1
              /\ header' = [header EXCEPT ![s] = lvl]
              /\ ram' = [ram EXCEPT ![s] = [u |-> lvl, word_state |-> CONSTANT_WORD]]
<1> DEFINE Same == ram' = ram /\ header' = header
           Stored == /\ header' = header
                     /\ \E a \in RamSlots, v \in Values :
                          Writable(a) /\ ram' = [ram EXCEPT ![a] = v]
<1>1. ASSUME NEW k \in Immediates, PUSH(k) PROVE Same
  BY <1>1 DEF PUSH
<1>2. ASSUME POP PROVE Same
  BY <1>2 DEF POP
<1>3. ASSUME NEW addr \in Addresses, LOAD(addr) PROVE Same
  BY <1>3 DEF LOAD
<1>4. ASSUME NEW addr, NEW v \in Values,
             store_global(addr, v) \/ StoreFails(addr) \/ Mistyped,
             UNCHANGED vars
      PROVE  Same \/ Stored
  BY <1>4 DEF store_global, StoreFails, Mistyped, Writable, InRam
<1>5. ASSUME stack # <<>> PROVE Top \in Values
  BY <1>5 DEF MemTypeOK, Top
<1>6. ASSUME NEW addr \in Addresses, STORE(addr) PROVE Same \/ Stored
  BY <1>4, <1>5, <1>6 DEF STORE
<1>7. ASSUME NEW k \in Immediates, NEW addr \in Addresses, ISTORE(k, addr)
      PROVE  Same \/ Stored
  <2>1. \A v \in Built(k) : v \in Values
    BY MemoryAssumption DEF Built, Values
  <2> QED
    BY <1>4, <1>7, <2>1 DEF ISTORE
<1>8. ASSUME NEW addr \in Addresses, NEW offset \in Offsets, STORE_OFF(addr, offset)
      PROVE  Same \/ Stored
  BY <1>4, <1>5, <1>8 DEF STORE_OFF
<1>9. ASSUME NEW addr \in Addresses, NEW offset \in Offsets, LOAD_OFF(addr, offset)
      PROVE  Same
  BY <1>9 DEF LOAD_OFF
<1>10. ASSUME NEW n \in Sizes, HALLOC(n)
       PROVE  \/ Same
              \/ \E s \in HeapSlots, lvl \in Levels :
                   /\ ret'.addr = s + 1
                   /\ header' = [header EXCEPT ![s] = lvl]
                   /\ ram' = [ram EXCEPT ![s] = [u |-> lvl, word_state |-> CONSTANT_WORD]]
  <2>1. CASE ret'.addr = FAIL /\ header' = header
    BY <1>10, <2>1 DEF HALLOC
  <2>2. ASSUME NEW s \in HeapSlots, NEW lvl \in Levels,
               ret'.addr = s + 1, s + 1 # FAIL, header' = [header EXCEPT ![s] = lvl]
        PROVE  ram' = [ram EXCEPT ![s] = [u |-> lvl, word_state |-> CONSTANT_WORD]]
    <3>1. ret'.addr - 1 = s /\ header'[s] = lvl
      BY <2>2, TreeAssumption, TreeSizes DEF HeapSlots, MemTypeOK, TypeOK
    <3> QED
      BY <1>10, <2>2, <3>1 DEF HALLOC
  <2> QED
    <3>1. TypeOK /\ Malloc(n)
      BY <1>10 DEF HALLOC, MemTypeOK
    <3>2. CASE ret'.addr = FAIL /\ header' = header
      BY <2>1, <3>2
    <3>3. CASE \E s \in HeapSlots, lvl \in Levels :
                 /\ ret'.addr = s + 1 /\ s + 1 # FAIL
                 /\ header' = [header EXCEPT ![s] = lvl]
      <4>1. PICK s \in HeapSlots, lvl \in Levels :
              /\ ret'.addr = s + 1 /\ s + 1 # FAIL
              /\ header' = [header EXCEPT ![s] = lvl]
        BY <3>3
      <4>2. ram' = [ram EXCEPT ![s] = [u |-> lvl, word_state |-> CONSTANT_WORD]]
        BY <4>1, <2>2
      <4> QED
        BY <4>1, <4>2
    <3> QED
      BY <3>1, <3>2, <3>3, MallocWrites
<1>11. ASSUME NEW addr, HFREE(addr) \/ HFREE_again(addr) PROVE Same
  BY <1>11 DEF HFREE, HFREE_again, FreeBlock, FreeRejected, StaleFree, Release
<1>12. ASSUME UNCHANGED memVars PROVE Same
  BY <1>12
<1> HIDE DEF Same, Stored
<1>13. \/ Same \/ Stored
       \/ \E s \in HeapSlots, lvl \in Levels :
            /\ ret'.addr = s + 1
            /\ header' = [header EXCEPT ![s] = lvl]
            /\ ram' = [ram EXCEPT ![s] = [u |-> lvl, word_state |-> CONSTANT_WORD]]
  BY <1>1, <1>2, <1>3, <1>6, <1>7, <1>8, <1>9, <1>10, <1>11, <1>12
     DEF MemStaleNext, MemNext
<1> QED
  BY <1>13 DEF Same, Stored

----------------------------------------------------------------------------
(* Types.                                                                   *)

\* Pushing and popping keep the stack a sequence of values.
LEMMA StackTypes ==
  ASSUME stack \in Seq(Values), Len(stack) <= MaxStack
  PROVE  /\ stack # <<>> => Popped \in Seq(Values) /\ Len(Popped) <= MaxStack
         /\ \A v \in Values : Push(v) => stack' \in Seq(Values) /\ Len(stack') <= MaxStack
BY MemoryAssumption DEF Popped, Push

\* Every instruction leaves values in ram[].
LEMMA RamTyped == MemTypeOK /\ [MemStaleNext]_memVars => ram' \in [RamSlots -> Values]
<1> SUFFICES ASSUME MemTypeOK, [MemStaleNext]_memVars PROVE ram' \in [RamSlots -> Values]
  OBVIOUS
<1>1. ram \in [RamSlots -> Values]
  BY DEF MemTypeOK
<1>2. \A lvl \in Levels : [u |-> lvl, word_state |-> CONSTANT_WORD] \in Values
  BY TreeAssumption DEF Levels, Values, CONSTANT_WORD, WordStates
<1> QED
  BY RamStep, <1>1, <1>2

\* Every instruction keeps the types of the machine.
LEMMA MemTypeStep == MemTypeOK /\ [MemStaleNext]_memVars => MemTypeOK'
<1> SUFFICES ASSUME MemTypeOK, [MemStaleNext]_memVars PROVE MemTypeOK'
  OBVIOUS
<1>1. /\ TypeOK /\ ram \in [RamSlots -> Values] /\ running \in BOOLEAN
      /\ stack \in Seq(Values) /\ Len(stack) <= MaxStack
  BY DEF MemTypeOK
<1> DEFINE StackOK == stack' \in Seq(Values) /\ Len(stack') <= MaxStack
           Rest == StackOK /\ running' \in BOOLEAN /\ [StaleNext]_vars
<1>2. ASSUME UNCHANGED stack PROVE StackOK
  BY <1>1, <1>2
<1>3. ASSUME stack # <<>>, stack' = Popped PROVE StackOK
  BY <1>1, <1>3, StackTypes
<1>4. ASSUME NEW v \in Values, Push(v) PROVE StackOK
  BY <1>1, <1>4, StackTypes
<1> HIDE DEF StackOK
<1>5. ASSUME NEW k \in Immediates, PUSH(k) PROVE Rest
  <2>1. \A v \in Built(k) : v \in Values
    BY MemoryAssumption DEF Built, Values
  <2> QED
    BY <1>1, <1>4, <1>5, <2>1 DEF PUSH
<1>6. ASSUME POP PROVE Rest
  BY <1>1, <1>3, <1>6 DEF POP
<1>7. ASSUME NEW addr \in Addresses, LOAD(addr) PROVE Rest
  <2>1. InRam(addr) => ram[addr] \in Values
    BY <1>1 DEF InRam
  <2> QED
    BY <1>1, <1>2, <1>4, <1>7, <2>1 DEF LOAD, Mistyped
<1>8. ASSUME NEW addr, NEW v, store_global(addr, v) \/ StoreFails(addr) \/ Mistyped
      PROVE  running' \in BOOLEAN
  BY <1>1, <1>8 DEF store_global, StoreFails, Mistyped
<1>9. ASSUME NEW addr \in Addresses, STORE(addr) PROVE Rest
  BY <1>3, <1>8, <1>9 DEF STORE
<1>10. ASSUME NEW k \in Immediates, NEW addr \in Addresses, ISTORE(k, addr) PROVE Rest
  BY <1>2, <1>8, <1>10 DEF ISTORE
<1>11. ASSUME NEW addr \in Addresses, NEW offset \in Offsets, STORE_OFF(addr, offset)
       PROVE  Rest
  BY <1>3, <1>8, <1>11 DEF STORE_OFF
<1>12. ASSUME NEW addr \in Addresses, NEW offset \in Offsets, LOAD_OFF(addr, offset)
       PROVE  Rest
  <2>1. ElementInRam(addr, offset) => ram[addr + offset + 1] \in Values
    BY <1>1 DEF ElementInRam, InRam
  <2> QED
    BY <1>1, <1>2, <1>4, <1>12, <2>1 DEF LOAD_OFF, Mistyped
<1>13. ASSUME NEW n \in Sizes, HALLOC(n) PROVE Rest
  <2>1. [StaleNext]_vars
    BY <1>13 DEF HALLOC, StaleNext, Next
  <2>2. TypeOK'
    BY <1>1, <2>1, TypeStep
  <2>3. ret'.addr \in Int
    BY <2>2, TreeAssumption, TreeSizes DEF TypeOK, DataSlots, FAIL
  <2>4. [u |-> ret'.addr, word_state |-> OPEN] \in Values
    BY <2>3 DEF Values, WordStates, OPEN
  <2> QED
    BY <1>1, <1>4, <1>13, <2>1, <2>4 DEF HALLOC
<1>14. ASSUME NEW addr \in {b.addr : b \in live} \cup {FAIL}, HFREE(addr) PROVE Rest
  BY <1>1, <1>2, <1>14 DEF HFREE, StaleNext, Next, FreeRejected
<1>15. ASSUME NEW addr \in Issued, HFREE_again(addr) PROVE Rest
  BY <1>1, <1>2, <1>15 DEF HFREE_again, StaleNext
<1>16. ASSUME UNCHANGED memVars PROVE Rest
  BY <1>1, <1>2, <1>16
<1> HIDE DEF Rest
<1>17. Rest
  BY <1>5, <1>6, <1>7, <1>9, <1>10, <1>11, <1>12, <1>13, <1>14, <1>15, <1>16
     DEF MemStaleNext, MemNext
<1>18. TypeOK'
  BY <1>1, <1>17, TypeStep DEF Rest
<1>19. ram' \in [RamSlots -> Values]
  BY RamTyped
<1> QED
  BY <1>17, <1>18, <1>19 DEF MemTypeOK, Rest, StackOK

\* ram[], the stack and the allocator keep their types under every program.
THEOREM MemTypeCorrect == MemStaleSpec => []MemTypeOK
<1>1. MemInit => MemTypeOK
  <2> SUFFICES ASSUME MemInit PROVE MemTypeOK
    OBVIOUS
  <2>1. TypeOK
    BY DEF MemInit, Init, TypeOK
  <2>2. \A a \in RamSlots : ram[a] \in Values
    BY MemoryAssumption, TreeAssumption DEF MemInit, RamSlots, VM_RAM_SIZE
  <2>3. ram \in [RamSlots -> Values]
    BY <2>2 DEF MemInit
  <2> QED
    BY <2>1, <2>3, MemoryAssumption DEF MemInit, MemTypeOK
<1> QED
  BY <1>1, MemTypeStep, PTL DEF MemStaleSpec

----------------------------------------------------------------------------
(* Constants.                                                               *)

\* No instruction but HALLOC changes a constant word.
LEMMA ConstantStep ==
  ASSUME MemTypeOK, [MemStaleNext]_memVars, NEW a \in RamSlots,
         ram[a].word_state = CONSTANT_WORD
  PROVE  /\ ram'[a].word_state = CONSTANT_WORD
         /\ ram'[a] = ram[a] \/ (a \in HeapSlots /\ ret'.addr = a + 1)
<1>1. ram \in [RamSlots -> Values]
  BY DEF MemTypeOK
<1>2. ~Writable(a)
  BY DEF Writable, CONSTANT_WORD, OPEN, AVAILABLE
<1>3. CASE \E s \in HeapSlots, lvl \in Levels :
             /\ ret'.addr = s + 1
             /\ ram' = [ram EXCEPT ![s] = [u |-> lvl, word_state |-> CONSTANT_WORD]]
  BY <1>1, <1>3
<1>4. CASE \E w \in RamSlots, v \in Values : Writable(w) /\ ram' = [ram EXCEPT ![w] = v]
  BY <1>1, <1>2, <1>4
<1> QED
  BY <1>3, <1>4, RamStep

\* No instruction turns a constant word into a mutable one or stores to it; only
\* malloc_heap, writing a header, changes the payload of one.
THEOREM ConstantsKept == MemStaleSpec => ConstantIsForever
<1>1. MemTypeOK /\ [MemStaleNext]_memVars =>
        [\A a \in RamSlots : ram[a].word_state = CONSTANT_WORD =>
           /\ ram'[a].word_state = CONSTANT_WORD
           /\ ram'[a].u = ram[a].u \/ (a \in HeapSlots /\ ret'.addr = a + 1)]_memVars
  BY ConstantStep
<1> QED
  BY <1>1, MemTypeCorrect, PTL DEF MemStaleSpec, ConstantIsForever

\* The data section's constants never change, if the data section fits the
\* globals: beyond them a heap header may be written over a constant.
THEOREM ConstantsImmutable ==
  ASSUME Len(Image) <= HEAP_RAM_START
  PROVE  MemStaleSpec => []ConstImmutable
<1>1. MemInit => ConstImmutable
  BY DEF MemInit, ConstImmutable, ConstAddrs
<1>2. MemTypeOK /\ ConstImmutable /\ [MemStaleNext]_memVars => ConstImmutable'
  <2> SUFFICES ASSUME MemTypeOK, ConstImmutable, [MemStaleNext]_memVars,
                      NEW a \in ConstAddrs
               PROVE  ram'[a] = Image[a + 1]
    BY DEF ConstImmutable
  <2>1. a \in RamSlots /\ a < HEAP_RAM_START /\ a \in Int
    BY MemoryAssumption, TreeAssumption DEF ConstAddrs, RamSlots
  <2>2. a \notin HeapSlots
    BY <2>1, TreeAssumption DEF HeapSlots
  <2>3. ram[a] = Image[a + 1] /\ ram[a].word_state = CONSTANT_WORD
    BY DEF ConstImmutable, ConstAddrs
  <2> QED
    BY <2>1, <2>2, <2>3, ConstantStep
<1> QED
  BY <1>1, <1>2, MemTypeCorrect, PTL DEF MemStaleSpec

\* What free_heap reads from a header word is the level malloc_heap wrote there.
THEOREM HeadersKept == MemStaleSpec => []HeadersUntouched
<1>1. MemInit => HeadersUntouched
  BY TreeAssumption DEF MemInit, Init, HeadersUntouched, NoHeader, Levels
<1>2. MemTypeOK /\ HeadersUntouched /\ [MemStaleNext]_memVars => HeadersUntouched'
  <2> SUFFICES ASSUME MemTypeOK, HeadersUntouched, [MemStaleNext]_memVars,
                      NEW t \in HeapSlots, header'[t] \in Levels
               PROVE  ram'[t] = [u |-> header'[t], word_state |-> CONSTANT_WORD]
    BY DEF HeadersUntouched
  <2>1. /\ ram \in [RamSlots -> Values] /\ t \in RamSlots
        /\ header \in [HeapSlots -> Levels \cup {NoHeader}]
    BY HeapInRam DEF MemTypeOK, TypeOK
  <2>2. header[t] \in Levels =>
          ram[t] = [u |-> header[t], word_state |-> CONSTANT_WORD] /\ ~Writable(t)
    BY DEF HeadersUntouched, Writable, CONSTANT_WORD, OPEN, AVAILABLE
  <2>3. CASE ram' = ram /\ header' = header
    BY <2>2, <2>3
  <2>4. CASE /\ header' = header
             /\ \E a \in RamSlots, v \in Values : Writable(a) /\ ram' = [ram EXCEPT ![a] = v]
    BY <2>1, <2>2, <2>4
  <2>5. CASE \E s \in HeapSlots, lvl \in Levels :
               /\ header' = [header EXCEPT ![s] = lvl]
               /\ ram' = [ram EXCEPT ![s] = [u |-> lvl, word_state |-> CONSTANT_WORD]]
    <3>1. PICK s \in HeapSlots, lvl \in Levels :
            /\ header' = [header EXCEPT ![s] = lvl]
            /\ ram' = [ram EXCEPT ![s] = [u |-> lvl, word_state |-> CONSTANT_WORD]]
      BY <2>5
    <3>2. CASE t = s
      BY <2>1, <3>1, <3>2
    <3>3. CASE t # s
      BY <2>1, <2>2, <3>1, <3>3
    <3> QED
      BY <3>2, <3>3
  <2> QED
    BY <2>3, <2>4, <2>5, RamStep
<1> QED
  BY <1>1, <1>2, MemTypeCorrect, PTL DEF MemStaleSpec

----------------------------------------------------------------------------
(* The heap under a program that loads and stores: nothing it does to ram[] *)
(* reaches the allocator, and the allocator does not reach its data.        *)

\* What an instruction does to the allocator is a call of it, or nothing.
LEMMA HeapCalls == [MemNext]_memVars => [Next]_vars
<1> SUFFICES ASSUME [MemNext]_memVars PROVE Next \/ vars' = vars
  OBVIOUS
<1>1. ASSUME NEW n \in Sizes, HALLOC(n) PROVE Next
  BY <1>1 DEF HALLOC, Next
<1>2. ASSUME NEW addr \in {b.addr : b \in live} \cup {FAIL}, HFREE(addr)
      PROVE  Next \/ vars' = vars
  <2>1. CASE FreeRejected(addr)
    BY <2>1 DEF FreeRejected
  <2>2. CASE \E block \in live : block.addr = addr /\ FreeBlock(block)
    BY <2>2 DEF Next
  <2> QED
    BY <1>2, <2>1, <2>2 DEF HFREE
<1>3. ASSUME NEW addr \in Addresses,
             LOAD(addr) \/ STORE(addr)
               \/ (\E k \in Immediates : ISTORE(k, addr))
               \/ (\E offset \in Offsets : STORE_OFF(addr, offset) \/ LOAD_OFF(addr, offset))
      PROVE  vars' = vars
  BY <1>3 DEF LOAD, STORE, ISTORE, STORE_OFF, LOAD_OFF
<1>4. ASSUME POP \/ \E k \in Immediates : PUSH(k) PROVE vars' = vars
  BY <1>4 DEF POP, PUSH
<1> QED
  BY <1>1, <1>2, <1>3, <1>4 DEF MemNext

\* Whatever the program loads and stores, the calls it makes of the allocator
\* are answered as if it did nothing else: what is proved of the heap alone
\* holds of the heap in ram[].
THEOREM ProgramsUseHeap == MemSpec => Spec
<1>1. MemInit => Init
  BY DEF MemInit
<1> QED
  BY <1>1, HeapCalls, PTL DEF MemSpec, Spec

\* With its headers in a ram[] that the program stores to, malloc_heap still
\* answers with the lowest free run and fails only when there is none.
THEOREM HeapPromiseKept == MemSpec => ImplementsHeapSpec
BY ProgramsUseHeap, BuddyImplementsHeap

\* The block that a successful malloc_heap returns was not live before, and its
\* header is the one word that it writes.
LEMMA NewBlock ==
  ASSUME HeapInv, NEW n \in Sizes, MallocOk(n)
  PROVE  \E new \in live' :
           /\ new \notin live /\ live \subseteq live'
           /\ ret'.addr = new.addr
           /\ new.addr - 1 \in Words(new)
<1>1. PICK lvl \in Levels, node \in Nodes :
        /\ node \in NodesAt(lvl)
        /\ FirstOf(Candidates(heap_alloc_mask, heap_split_mask, lvl), node)
        /\ live' = live \cup {[addr |-> StartSlot(node, lvl) + 1,
                               slots |-> n, node |-> node]}
        /\ ret' = [slots |-> n, addr |-> StartSlot(node, lvl) + 1]
  BY MallocOkStep
<1> DEFINE new == [addr |-> StartSlot(node, lvl) + 1, slots |-> n, node |-> node]
<1>2. node \notin heap_alloc_mask
  BY <1>1, SelfOnPath DEF FirstOf, Candidates
<1>3. new \notin live
  BY <1>2 DEF HeapInv, NoNesting
<1>4. StartSlot(node, lvl) \in Int /\ n \in Nat
  BY <1>1, BlocksInArena, SizesAssumption, TreeAssumption
<1>5. new.addr - 1 \in Words(new)
  BY <1>4 DEF Words
<1> QED
  BY <1>1, <1>3, <1>5

\* No call of the allocator changes a word of a live block: what a program has
\* stored in one stays there until it stores there again or frees the block.
THEOREM ContentsKept ==
  MemSpec => [][vars' # vars => \A b \in live : \A s \in Words(b) : ram'[s] = ram[s]]_memVars
<1>1. MemTypeOK /\ HeapInv /\ NoOverlap' /\ [MemNext]_memVars =>
        [vars' # vars => \A b \in live : \A s \in Words(b) : ram'[s] = ram[s]]_memVars
  <2> SUFFICES ASSUME MemTypeOK, HeapInv, NoOverlap', [MemNext]_memVars, vars' # vars,
                      NEW b \in live, NEW s \in Words(b), ram' # ram
               PROVE  ram'[s] = ram[s]
    OBVIOUS
  <2>1. PICK n \in Sizes : HALLOC(n)
    BY DEF MemNext, POP, PUSH, LOAD, STORE, ISTORE, STORE_OFF, LOAD_OFF, HFREE
  <2>2. MallocOk(n) /\ ret'.addr # FAIL
    BY <2>1 DEF HALLOC, Malloc, MallocRefused, MallocFull, Fails
  <2>3. PICK new \in live' :
          /\ new \notin live /\ live \subseteq live'
          /\ ret'.addr = new.addr
          /\ new.addr - 1 \in Words(new)
    BY <2>2, NewBlock
  <2>4. b \in live' /\ b # new /\ Words(b) \cap Words(new) = {}
    <3>1. b \in live' /\ b # new
      BY <2>3
    <3> QED
      BY <2>3, <3>1 DEF NoOverlap
  <2>5. s # new.addr - 1
    BY <2>3, <2>4
  <2>6. ram' = [ram EXCEPT ![new.addr - 1] =
                  [u |-> header'[new.addr - 1], word_state |-> CONSTANT_WORD]]
    BY <2>1, <2>2, <2>3 DEF HALLOC
  <2> QED
    BY <2>5, <2>6 DEF MemTypeOK
<1>2. MemSpec => []HeapInv /\ []NoOverlap
  BY ProgramsUseHeap, HeapInvariant, Exclusive, PTL
<1>3. [MemNext]_memVars => [MemStaleNext]_memVars
  BY DEF MemStaleNext
<1> QED
  BY <1>1, <1>2, <1>3, MemTypeCorrect, PTL DEF MemSpec, MemStaleSpec

=============================================================================
