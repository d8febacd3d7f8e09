------------------------------- MODULE BuddyHeap -------------------------------
(****************************************************************************)
(* malloc_heap and free_heap of memory/heap_memory.c, as the program under  *)
(* the VM calls them through HALLOC and HFREE.                              *)
(*                                                                          *)
(* Each call runs to its end inside one instruction, so that it is one      *)
(* action here.  The level of a block is kept in the word before its data   *)
(* (data.u of the header); it is all that free_heap has to find the block   *)
(* again.  A header is written by malloc_heap alone: its word_state is      *)
(* WORD_CONSTANT, which store_global refuses.                               *)
(****************************************************************************)
EXTENDS BuddyTree

CONSTANT Sizes     \* the requests the program makes, as HALLOC's operand

ASSUME SizesAssumption == Sizes \subseteq 0..(WORD_MOD - 1)

VARIABLES
  heap_alloc_mask, \* nodes whose bit is set in heap_alloc_mask
  heap_split_mask, \* nodes whose bit is set in heap_split_mask
  header,          \* heap word |-> the level written there by malloc_heap
  live,            \* history: the blocks the program has got and not freed
  ret              \* the last malloc_heap call: its argument and its result

vars == <<heap_alloc_mask, heap_split_mask, header, live, ret>>

NoHeader == -1
\* The word after a header, which for an empty block may be past the arena
DataSlots == (HEAP_RAM_START + 1)..(HEAP_RAM_START + BUDDY_ARENA_SIZE)
Blocks == [addr : DataSlots, slots : Nat, node : Nodes]

TypeOK ==
  /\ heap_alloc_mask \subseteq Nodes
  /\ heap_split_mask \subseteq Nodes
  /\ header \in [HeapSlots -> Levels \cup {NoHeader}]
  /\ live \subseteq Blocks
  /\ ret \in [slots : Sizes \cup {0}, addr : DataSlots \cup {FAIL}]

Init ==
  /\ heap_alloc_mask = {}
  /\ heap_split_mask = {}
  /\ header = [s \in HeapSlots |-> NoHeader]
  /\ live = {}
  /\ ret = [slots |-> 0, addr |-> FAIL]

----------------------------------------------------------------------------
(* malloc_heap(thread, num_slots)                                           *)

Fails(num_slots) ==
  /\ ret' = [slots |-> num_slots, addr |-> FAIL]
  /\ UNCHANGED <<heap_alloc_mask, heap_split_mask, header, live>>

\* The request can never be met: it wraps to 0 or is larger than the arena.
MallocRefused(num_slots) ==
  /\ TotalSlots(num_slots) = 0 \/ TotalSlots(num_slots) > BUDDY_ARENA_SIZE
  /\ Fails(num_slots)

Searches(num_slots, lvl) ==
  /\ TotalSlots(num_slots) # 0
  /\ TotalSlots(num_slots) <= BUDDY_ARENA_SIZE
  /\ IsTargetLevel(lvl, TotalSlots(num_slots))

\* buddy_find_free finds nothing: no mask has changed
MallocFull(num_slots) ==
  \E lvl \in Levels :
    /\ Searches(num_slots, lvl)
    /\ Candidates(heap_alloc_mask, heap_split_mask, lvl) = {}
    /\ Fails(num_slots)

MallocOk(num_slots) ==
  \E lvl \in Levels :
    /\ Searches(num_slots, lvl)
    /\ \E node \in Nodes :
         LET start_slot == StartSlot(node, lvl)
         IN  /\ FirstOf(Candidates(heap_alloc_mask, heap_split_mask, lvl), node)
             /\ heap_split_mask' = SplitPath(heap_split_mask, node)
             /\ heap_alloc_mask' = MarkAllocated(heap_alloc_mask, node)
             /\ header' = [header EXCEPT ![start_slot] = lvl]
             /\ live' = live \cup {[addr |-> start_slot + 1,
                                    slots |-> num_slots, node |-> node]}
             /\ ret' = [slots |-> num_slots, addr |-> start_slot + 1]

----------------------------------------------------------------------------
(* free_heap(vm, data_slot)                                                 *)

HeaderSlot(data_slot) == (data_slot - 1) % WORD_MOD

\* The three checks: inside the arena, a level of the tree, a block boundary.
Accepted(data_slot) ==
  LET slot == HeaderSlot(data_slot)
  IN  /\ slot \in HeapSlots
      /\ header[slot] \in Levels
      /\ (slot - HEAP_RAM_START) % BlockSlots(header[slot]) = 0

\* A free that passes the checks; the mask of the allocated nodes is cleared
\* before the coalescing loop reads it.
Release(data_slot) ==
  LET slot == HeaderSlot(data_slot)
      idx == RecoveredNode(slot, header[slot])
  IN  /\ Accepted(data_slot)
      /\ heap_alloc_mask' = ClearAllocated(heap_alloc_mask, idx)
      /\ heap_split_mask' =
           Coalesce(ClearAllocated(heap_alloc_mask, idx), heap_split_mask, idx)
      /\ UNCHANGED <<header, ret>>

FreeBlock(block) ==
  /\ Release(block.addr)
  /\ live' = live \ {block}

\* An error is printed and nothing changes.
FreeRejected(data_slot) ==
  /\ ~Accepted(data_slot)
  /\ UNCHANGED vars

----------------------------------------------------------------------------
(* A program that frees what it got, once, or the result of a failed call.  *)

Malloc(num_slots) ==
  \/ MallocRefused(num_slots)
  \/ MallocFull(num_slots)
  \/ MallocOk(num_slots)

Next ==
  \/ \E num_slots \in Sizes : Malloc(num_slots)
  \/ \E block \in live : FreeBlock(block)
  \/ FreeRejected(FAIL)

Spec == Init /\ [][Next]_vars

(* A program that may also free again what it has freed already: the header *)
(* of a freed block keeps its level, so that the call passes the checks.    *)

Issued == {s + 1 : s \in {t \in HeapSlots : header[t] \in Levels}}

StaleFree(data_slot) ==
  /\ \A block \in live : block.addr # data_slot
  /\ Release(data_slot)
  /\ UNCHANGED live

StaleNext == Next \/ \E data_slot \in Issued : StaleFree(data_slot)

StaleSpec == Init /\ [][StaleNext]_vars

----------------------------------------------------------------------------
(* What the allocator promises.                                             *)

\* The words a live block occupies: its header and the words asked for.
Words(block) == (block.addr - 1)..(block.addr + block.slots - 1)

\* The words under a node of the tree.
Region(node, lvl) ==
  StartSlot(node, lvl)..(StartSlot(node, lvl) + BlockSlots(lvl) - 1)

Taken == UNION {Words(b) : b \in live}

\* No two live blocks share a word, data or header, and none leaves the
\* arena: what malloc_heap returns is memory nobody else has, whatever was
\* allocated and freed before (buddy_find_free against both masks).
NoOverlap ==
  /\ Taken \subseteq HeapSlots
  /\ \A b, c \in live : b # c => Words(b) \cap Words(c) = {}

\* The same in the tree: of two live blocks neither lies inside the other,
\* a live block is marked allocated and all that contains it marked split
\* (the marks that keep buddy_find_free from handing it out once more).
NoNesting ==
  /\ \A b \in live : b.node \in heap_alloc_mask /\ Ancestors(b.node) \subseteq heap_split_mask
  /\ \A b, c \in live : b # c => b.node \notin Path(c.node)

\* free_heap finds the block again from its header: for every live block the
\* three checks pass and the index it computes is the node that was marked.
HeaderIntact ==
  \A b \in live :
    /\ Accepted(b.addr)
    /\ RecoveredNode(HeaderSlot(b.addr), header[HeaderSlot(b.addr)]) = b.node

\* That a level's nodes have room for the words and a header, and no deeper
\* level's do
Fits(slots, lvl) ==
  /\ slots + 1 <= BlockSlots(lvl)
  /\ \A deeper \in (lvl + 1)..MaxLevel : BlockSlots(deeper) < slots + 1

\* Where a live block is: its header word is the first of its node's region,
\* holds the node's level, and the region has room for what was asked for, but
\* none that a smaller region would have, too.
Placed ==
  \A b \in live : \E lvl \in Levels :
    /\ b.node \in NodesAt(lvl)
    /\ b.addr = StartSlot(b.node, lvl) + 1
    /\ header[b.addr - 1] = lvl
    /\ Fits(b.slots, lvl)

\* An allocated bit is set exactly when the live blocks at and below the node
\* fill every word of its region: the upward marking in buddy_mark_allocated
\* and the upward clearing in free_heap undo each other over any history.
AllocMeansFilled ==
  \A lvl \in Levels : \A p \in NodesAt(lvl) :
    p \in heap_alloc_mask <=>
      \A s \in Region(p, lvl) :
        \E b \in live : /\ p \in Path(b.node)
                       /\ s \in Region(b.node, header[b.addr - 1])

\* A split bit is set exactly when a live block lies strictly under the node:
\* a freed block is coalesced as far as it can be, and never further.
SplitMeansInUse ==
  \A p \in Nodes :
    p \in heap_split_mask <=> \E b \in live : p \in Ancestors(b.node)

\* The program cannot tell the allocator from the one of HeapSpec: malloc_heap
\* answers with the lowest free run of its size and fails only when there is
\* none, whatever the masks have gone through.
Promise == INSTANCE HeapSpec WITH
  Order <- MaxLevel, Start <- HEAP_RAM_START, WordMod <- WORD_MOD,
  Requests <- Sizes,
  blocks <- {[addr |-> b.addr, slots |-> b.slots] : b \in live}, answer <- ret

ImplementsHeapSpec == Promise!Spec

=============================================================================
