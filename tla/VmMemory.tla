------------------------------- MODULE VmMemory --------------------------------
(****************************************************************************)
(* ram[] of the VM as a program uses it: the static data the loader puts at *)
(* its start, the heap behind it, and the word_state every word carries.    *)
(* The instructions are those of core/eval/eval_memory.c that read or write *)
(* ram[], with store_global and load_global of memory/memory.h.             *)
(*                                                                          *)
(* An operand that is an address or a size is an input of the instruction   *)
(* (the program has just pushed it), and so is whether it has a type the     *)
(* instruction accepts; the operand stack holds the values in               *)
(* flight between ram[] words.  A value is its payload and the word_state   *)
(* it carries, for PUSH, STORE and LOAD copy the whole PrimitiveValue.      *)
(* exit() ends the process: nothing happens after it.                       *)
(****************************************************************************)
EXTENDS BuddyHeap, Sequences

CONSTANTS
  Image,          \* the words of the binary's data section, from address 0
  FreshWords,     \* what a word of ram[] may hold that nothing has written
  Indeterminate,  \* word_states of a value built without setting one
  Immediates,     \* operands of PUSH and ISTORE
  Addresses,      \* addresses the program uses, also past the end of ram[]
  Offsets,        \* array indices of STORE_OFF and LOAD_OFF, also negative
  MaxStack        \* bound on the values in flight (VM_STACK_SIZE)

AVAILABLE == 0
OPEN == 1
CONSTANT_WORD == 2
WordStates == 0..5

VM_RAM_SIZE == HEAP_RAM_START + HEAP_RAM_SIZE
RamSlots == 0..(VM_RAM_SIZE - 1)
Values == [u : Int, word_state : WordStates]

ASSUME MemoryAssumption ==
  /\ Image \in Seq(Values) /\ Len(Image) <= VM_RAM_SIZE
  /\ FreshWords \subseteq Values
  /\ Indeterminate \subseteq WordStates
  /\ Immediates \subseteq Int
  /\ Addresses \subseteq 0..(WORD_MOD - 1)
  /\ Offsets \subseteq Int
  /\ MaxStack \in Nat

VARIABLES
  ram,     \* VM.ram
  stack,   \* the values in flight on VM_Thread.stack, the top last
  running  \* FALSE once a check has ended the process

memVars == <<ram, stack, running, vars>>

MemTypeOK ==
  /\ TypeOK
  /\ ram \in [RamSlots -> Values]
  /\ stack \in Seq(Values) /\ Len(stack) <= MaxStack
  /\ running \in BOOLEAN

\* load_kdm_file after vm_init: the data section is copied with the word_states
\* of the file, the rest of ram[] is what the allocation of the VM held.
MemInit ==
  /\ Init
  /\ ram \in [RamSlots -> FreshWords \cup {Image[i] : i \in 1..Len(Image)}]
  /\ \A a \in RamSlots :
       IF a < Len(Image) THEN ram[a] = Image[a + 1] ELSE ram[a] \in FreshWords
  /\ stack = <<>>
  /\ running = TRUE

----------------------------------------------------------------------------
(* store_global and load_global                                             *)

InRam(addr) == addr \in RamSlots

\* A store that would look at the bounds alone
WritableInRam(addr) == InRam(addr)

Writable(addr) == InRam(addr) /\ ram[addr].word_state \in {OPEN, AVAILABLE}

\* The word takes the whole value, word_state included.
store_global(addr, value) ==
  /\ Writable(addr)
  /\ ram' = [ram EXCEPT ![addr] = value]
  /\ UNCHANGED running

StoreFails(addr) ==
  /\ ~Writable(addr)
  /\ running' = FALSE
  /\ UNCHANGED ram

\* An address that is neither INT nor ADDRESS, or an offset that is no INT
Mistyped == running' = FALSE /\ UNCHANGED ram

Push(value) == Len(stack) < MaxStack /\ stack' = Append(stack, value)
Top == stack[Len(stack)]
Popped == SubSeq(stack, 1, Len(stack) - 1)

\* PUSH and ISTORE set type and data, and leave word_state as it was in memory.
Built(k) == {[u |-> k, word_state |-> st] : st \in Indeterminate}

----------------------------------------------------------------------------
(* The instructions                                                         *)

PUSH(k) ==
  /\ \E value \in Built(k) : Push(value)
  /\ UNCHANGED <<ram, running, vars>>

POP ==
  /\ stack # <<>> /\ stack' = Popped
  /\ UNCHANGED <<ram, running, vars>>

LOAD(addr) ==
  /\ Len(stack) < MaxStack
  /\ \/ InRam(addr) /\ Push(ram[addr]) /\ UNCHANGED running
     \/ ~InRam(addr) /\ running' = FALSE /\ UNCHANGED stack
     \/ Mistyped /\ UNCHANGED stack
  /\ UNCHANGED <<ram, vars>>

STORE(addr) ==
  /\ stack # <<>> /\ stack' = Popped
  /\ store_global(addr, Top) \/ StoreFails(addr) \/ Mistyped
  /\ UNCHANGED vars

ISTORE(k, addr) ==
  /\ \E value \in Built(k) : store_global(addr, value) \/ StoreFails(addr)
  /\ UNCHANGED <<stack, vars>>

\* The offset is popped and type-checked; the store goes to the address.
STORE_OFF(addr, offset) ==
  /\ stack # <<>> /\ stack' = Popped
  /\ store_global(addr, Top) \/ StoreFails(addr) \/ Mistyped
  /\ UNCHANGED vars

\* data.u, an int32_t, of a word that may hold an unsigned value
LowestInt == -(WORD_MOD \div 2)
Signed(u) == ((u - LowestInt) % WORD_MOD) + LowestInt

\* size.data.u - 1: below the lowest integer the subtraction is undefined, and
\* either wraps or is folded into the comparison.
ElementCounts(u) ==
  {Signed(u) - 1} \cup (IF Signed(u) = LowestInt THEN {-LowestInt - 1} ELSE {})

ElementInRam(addr, offset) == InRam(addr) /\ offset >= 0 /\ InRam(addr + offset + 1)

\* The word at the address is the length of the array, header included.
LOAD_OFF(addr, offset) ==
  /\ Len(stack) < MaxStack
  /\ \/ /\ ElementInRam(addr, offset)
        /\ \E count \in ElementCounts(ram[addr].u) : offset < count
        /\ Push(ram[addr + offset + 1])
        /\ UNCHANGED running
     \/ /\ ElementInRam(addr, offset) =>
             \E count \in ElementCounts(ram[addr].u) : offset >= count
        /\ running' = FALSE /\ UNCHANGED stack
     \/ Mistyped /\ UNCHANGED stack
  /\ UNCHANGED <<ram, vars>>

\* malloc_heap writes the header past store_global, whatever its word_state.
HALLOC(n) ==
  /\ Malloc(n)
  /\ Push([u |-> ret'.addr, word_state |-> OPEN])
  /\ ram' = IF ret'.addr = FAIL THEN ram
            ELSE [ram EXCEPT ![ret'.addr - 1] =
                    [u |-> header'[ret'.addr - 1], word_state |-> CONSTANT_WORD]]
  /\ UNCHANGED running

\* The argument is an address some HALLOC has returned, or its failure.
HFREE(addr) ==
  /\ \/ \E block \in live : block.addr = addr /\ FreeBlock(block)
     \/ FreeRejected(addr)
  /\ UNCHANGED <<ram, stack, running>>

HFREE_again(addr) ==
  /\ StaleFree(addr)
  /\ UNCHANGED <<ram, stack, running>>

MemNext ==
  /\ running
  /\ \/ \E k \in Immediates : PUSH(k)
     \/ POP
     \/ \E addr \in Addresses : LOAD(addr) \/ STORE(addr)
     \/ \E k \in Immediates, addr \in Addresses : ISTORE(k, addr)
     \/ \E addr \in Addresses, offset \in Offsets :
          STORE_OFF(addr, offset) \/ LOAD_OFF(addr, offset)
     \/ \E n \in Sizes : HALLOC(n)
     \/ \E addr \in {b.addr : b \in live} \cup {FAIL} : HFREE(addr)

MemSpec == MemInit /\ [][MemNext]_memVars

\* The same with blocks freed again that are free already.
MemStaleNext ==
  \/ MemNext
  \/ running /\ \E addr \in Issued : HFREE_again(addr)

MemStaleSpec == MemInit /\ [][MemStaleNext]_memVars

----------------------------------------------------------------------------
(* What ram[] promises to the program.                                      *)

ConstAddrs == {a \in RamSlots : a < Len(Image) /\ Image[a + 1].word_state = CONSTANT_WORD}
DataAddrs == {a \in RamSlots : a < Len(Image) /\ Image[a + 1].word_state = OPEN}

\* README: the words of ::_const_data are immutable, whatever is stored,
\* allocated or freed.
ConstImmutable == \A a \in ConstAddrs : ram[a] = Image[a + 1]

\* The header words that free_heap will read are the ones malloc_heap wrote: no
\* store reaches one, so that the level read back is the level stored.
HeadersUntouched ==
  \A s \in HeapSlots : header[s] \in Levels =>
    ram[s] = [u |-> header[s], word_state |-> CONSTANT_WORD]

\* A word that has become constant stays so, and only malloc_heap, which makes
\* it a header, gives it another payload.
ConstantIsForever ==
  [][\A a \in RamSlots : ram[a].word_state = CONSTANT_WORD =>
       /\ ram'[a].word_state = CONSTANT_WORD
       /\ ram'[a].u = ram[a].u \/ (a \in HeapSlots /\ ret'.addr = a + 1)]_memVars

\* README: the words of ::_data can be modified during runtime.
DataStaysMutable == \A a \in DataAddrs : Writable(a)

\* README: what H_FREE gives back can be allocated in the future; so every word
\* that was asked for in a live block can be stored to.
LiveDataWritable ==
  \A b \in live : \A s \in b.addr..(b.addr + b.slots - 1) : Writable(s)

=============================================================================
