------------------------------- MODULE BuddyTree -------------------------------
(****************************************************************************)
(* The binary tree of the buddy allocator in memory/heap_memory.c and the   *)
(* walks the allocator makes over its two bit masks.                        *)
(*                                                                          *)
(* The tree is the usual heap-ordered one: node 0 is the whole arena, the   *)
(* children of i are 2i+1 and 2i+2, level l starts at node 2^l - 1.  A mask *)
(* is the set of the nodes whose bit is 1.  The recursion and the loops of  *)
(* the code are given here in closed form, as the set of nodes they touch;  *)
(* module BuddySearch translates them step by step and compares the two.    *)
(****************************************************************************)
EXTENDS Integers, FiniteSets

CONSTANTS
  MaxLevel,        \* depth of the tree: 31 - clz(HEAP_RAM_SIZE) (12 in the code)
  HEAP_RAM_SIZE,   \* words of ram[] after the globals (4096 in the code)
  HEAP_RAM_START,  \* GLOBAL_RAM_SIZE, the first heap word (1024 in the code)
  WORD_MOD         \* 2^w of the unsigned arithmetic (2^32 in the code)

ASSUME TreeAssumption ==
  /\ MaxLevel \in Nat
  /\ HEAP_RAM_SIZE \in Nat
  /\ HEAP_RAM_START \in Nat \ {0}
  /\ WORD_MOD \in Nat

\* BUDDY_ARENA_SIZE is the largest power of two that fits HEAP_RAM_SIZE, and
\* (uint32_t)-1 lies above the arena, so that it is no address in it.
ASSUME ArenaAssumption ==
  /\ 2^MaxLevel <= HEAP_RAM_SIZE /\ HEAP_RAM_SIZE < 2^(MaxLevel + 1)
  /\ WORD_MOD > HEAP_RAM_START + HEAP_RAM_SIZE + 1

\* The recursion of 2^k, which the provers know for numerals only.
ASSUME PowersOfTwo ==
  /\ 2^0 = 1
  /\ \A k \in 0..MaxLevel : 2^k \in Nat \ {0} /\ 2^(k + 1) = 2 * 2^k

----------------------------------------------------------------------------
BUDDY_ARENA_SIZE == 2^MaxLevel

Levels == 0..MaxLevel
LastNode == 2^(MaxLevel + 1) - 2
Nodes == 0..LastNode
HeapSlots == HEAP_RAM_START..(HEAP_RAM_START + BUDDY_ARENA_SIZE - 1)

\* (uint32_t)-1, the address malloc_heap returns when it fails
FAIL == WORD_MOD - 1

get_index_level(lvl) == 2^lvl - 1
get_left_node(idx) == 2 * idx + 1
get_right_node(idx) == 2 * idx + 2
Parent(idx) == (idx - 1) \div 2
Sibling(idx) == IF idx % 2 = 1 THEN idx + 1 ELSE idx - 1

NodesAt(lvl) == get_index_level(lvl)..(get_index_level(lvl + 1) - 1)
BlockSlots(lvl) == BUDDY_ARENA_SIZE \div 2^lvl

\* The nodes from idx up to the root, idx included, and those strictly above.
Path(idx) == {x \in Nodes : \E k \in Levels : x + 1 = (idx + 1) \div 2^k}
Ancestors(idx) == Path(idx) \ {idx}

----------------------------------------------------------------------------
(* The walks, given the masks they read.                                    *)

\* A search that would test no mark on its way down
CandidatesUntested(alloc, split, lvl) == {i \in NodesAt(lvl) : i \notin alloc \cup split}

\* The nodes of a level that buddy_find_free can return: no node on the way
\* down is allocated, the node itself is not split.  The search goes left
\* first, so that it returns the least of them.
Candidates(alloc, split, lvl) ==
  {i \in NodesAt(lvl) : i \notin split /\ Path(i) \cap alloc = {}}

FirstOf(found, i) == i \in found /\ \A j \in found : i <= j

\* A search that would mark the node it returns as split, too
SplitWithNode(split, idx) == split \cup Path(idx)

\* Every node on the way down to the one found is marked split.
SplitPath(split, idx) == split \cup Ancestors(idx)

\* Marking that would stop at the node, or take its buddy along, the root's too
MarkNodeOnly(alloc, idx) == alloc \cup {idx}
MarkBothBuddies(alloc, idx) == alloc \cup {idx, Sibling(idx)}

\* buddy_mark_allocated: idx, then its parents for as long as the sibling of
\* the node below is allocated too.
MarkAllocated(alloc, idx) ==
  alloc \cup {a \in Path(idx) : \A d \in Path(idx) : d > a => Sibling(d) \in alloc}

\* A free that would clear the block's own bit alone
ClearNodeOnly(alloc, idx) == alloc \ {idx}

\* free_heap, steps 3 and 4: idx, then its parents for as long as they are
\* marked.
ClearAllocated(alloc, idx) ==
  alloc \ ({idx} \cup {a \in Ancestors(idx) :
                         \A d \in Ancestors(idx) : d >= a => d \in alloc})

\* A free that would coalesce nothing, or without looking at the buddies
CoalesceNothing(alloc, split, idx) == split
CoalesceAlways(alloc, split, idx) == split \ Ancestors(idx)

\* free_heap, step 5: the parents of idx lose their split mark for as long as
\* the sibling of the node below is neither allocated nor split.
Coalesce(alloc, split, idx) ==
  split \ {a \in Ancestors(idx) :
             \A d \in Path(idx) : d > a => Sibling(d) \notin alloc \cup split}

----------------------------------------------------------------------------
(* Sizes and addresses.                                                     *)

\* num_slots + HEADER_SLOTS in uint32_t: the largest request wraps to 0
TotalSlots(num_slots) == (num_slots + 1) % WORD_MOD

\* A level that would hold the words asked for, but not their header
IsLevelWithoutHeader(lvl, total) ==
  /\ total - 1 <= BlockSlots(lvl)
  /\ \A deeper \in (lvl + 1)..MaxLevel : BlockSlots(deeper) < total - 1

\* next_pow2 and the loop of step 2: the deepest level whose blocks hold total
IsTargetLevel(lvl, total) ==
  /\ total <= BlockSlots(lvl)
  /\ \A deeper \in (lvl + 1)..MaxLevel : BlockSlots(deeper) < total

\* An address that would be computed from the node's number in the whole tree
StartOfNode(node, lvl) == HEAP_RAM_START + node * BlockSlots(lvl)

StartSlot(node, lvl) ==
  HEAP_RAM_START + (node - get_index_level(lvl)) * BlockSlots(lvl)

\* The node's number within its level
RecoveredInLevel(slot, lvl) == (slot - HEAP_RAM_START) \div BlockSlots(lvl)

\* free_heap's way back from a header word and the level stored in it
RecoveredNode(slot, lvl) ==
  get_index_level(lvl) + (slot - HEAP_RAM_START) \div BlockSlots(lvl)

=============================================================================
