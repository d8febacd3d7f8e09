------------------------------ MODULE BuddySearch ------------------------------
(****************************************************************************)
(* The recursion and the loops of memory/heap_memory.c, one application of  *)
(* a recursive function per call or iteration, to be compared with the      *)
(* closed forms of BuddyTree in every state of the allocator.  A function's *)
(* argument is a record of the variables that its C code reads and changes. *)
(****************************************************************************)
EXTENDS BuddyHeap

\* The result of a search: the node, and the split mask it leaves behind.
NotFound == -1

\* The arguments of a call, and the split mask that it finds
Calls ==
  {call \in [idx : Nodes, curr_lvl : Levels, target_lvl : Levels, split : SUBSET Nodes] :
     call.curr_lvl <= call.target_lvl /\ call.idx \in NodesAt(call.curr_lvl)}

\* The call that a call makes for one of its children
ChildCall(call, idx, split) ==
  [idx |-> idx, curr_lvl |-> call.curr_lvl + 1, target_lvl |-> call.target_lvl,
   split |-> split]

\* One call, with find for the calls it makes itself
Visit(find, call) ==
  LET missed == [node |-> NotFound, split |-> call.split]
      left == find[ChildCall(call, get_left_node(call.idx), call.split)]
      right == find[ChildCall(call, get_right_node(call.idx), left.split)]
      marked(res) == [res EXCEPT !.split = @ \cup {call.idx}]
  IN  IF call.idx \in heap_alloc_mask THEN missed
      ELSE IF call.curr_lvl = call.target_lvl
        THEN IF call.idx \in call.split THEN missed ELSE [missed EXCEPT !.node = call.idx]
      ELSE IF left.node # NotFound THEN marked(left)
      ELSE IF right.node # NotFound THEN marked(right)
      ELSE right

buddy_find_free[call \in Calls] == Visit(buddy_find_free, call)

\* The loops, as functions of the variables they change or read
MarkStates == [alloc : SUBSET Nodes, idx : Nodes]
MarkLoop[s \in MarkStates] ==
  IF s.idx > 0 /\ Sibling(s.idx) \in s.alloc
  THEN MarkLoop[[alloc |-> s.alloc \cup {Parent(s.idx)}, idx |-> Parent(s.idx)]]
  ELSE s.alloc

buddy_mark_allocated(alloc, idx) == MarkLoop[[alloc |-> alloc \cup {idx}, idx |-> idx]]

ClearStates == [alloc : SUBSET Nodes, curr : Nodes]
ClearLoop[s \in ClearStates] ==
  IF s.curr > 0 /\ Parent(s.curr) \in s.alloc
  THEN ClearLoop[[alloc |-> s.alloc \ {Parent(s.curr)}, curr |-> Parent(s.curr)]]
  ELSE s.alloc

CoalesceStates == [alloc : SUBSET Nodes, split : SUBSET Nodes, idx : Nodes]
CoalesceLoop[s \in CoalesceStates] ==
  IF s.idx > 0 /\ Sibling(s.idx) \notin s.alloc /\ Sibling(s.idx) \notin s.split
  THEN CoalesceLoop[[s EXCEPT !.split = @ \ {Parent(s.idx)}, !.idx = Parent(s.idx)]]
  ELSE s.split

\* capacity is halved from the size of the arena.
LevelStates ==
  [capacity : {BlockSlots(lvl) : lvl \in Levels}, needed_pow2 : Nat \ {0}, target_level : Nat]
LevelLoop[s \in LevelStates] ==
  IF s.capacity > s.needed_pow2
  THEN LevelLoop[[capacity |-> s.capacity \div 2, needed_pow2 |-> s.needed_pow2,
                  target_level |-> s.target_level + 1]]
  ELSE s.target_level

\* 1U << (32 - clz(v - 1)): the first power of two above v - 1
PowersAbove(n) == {p \in {2^k : k \in Levels} : p > n}
next_pow2(v) ==
  IF v <= 1 THEN 1 ELSE CHOOSE p \in PowersAbove(v - 1) : \A q \in PowersAbove(v - 1) : p <= q

----------------------------------------------------------------------------
\* The left-first recursion of buddy_find_free returns the least candidate of
\* the level and marks exactly its ancestors; a search that fails marks none.
SearchAgrees ==
  \A lvl \in Levels :
    LET found == Candidates(heap_alloc_mask, heap_split_mask, lvl)
        res == buddy_find_free[[idx |-> 0, curr_lvl |-> 0, target_lvl |-> lvl,
                                split |-> heap_split_mask]]
    IN  IF found = {}
        THEN res = [node |-> NotFound, split |-> heap_split_mask]
        ELSE /\ FirstOf(found, res.node)
             /\ res.split = SplitPath(heap_split_mask, res.node)

\* The loops of buddy_mark_allocated and free_heap, each of which reads a mask
\* that it is changing, end in the sets of BuddyTree, for any node.
LoopsAgree ==
  \A i \in Nodes :
    LET cleared == ClearLoop[[alloc |-> heap_alloc_mask \ {i}, curr |-> i]]
    IN  /\ buddy_mark_allocated(heap_alloc_mask, i) = MarkAllocated(heap_alloc_mask, i)
        /\ cleared = ClearAllocated(heap_alloc_mask, i)
        /\ CoalesceLoop[[alloc |-> cleared, split |-> heap_split_mask, idx |-> i]]
             = Coalesce(cleared, heap_split_mask, i)

\* The level that malloc_heap has written for its last request is the one that
\* next_pow2 and the loop on the capacity reach: no request gets a block too
\* small for it or twice too large.
LevelsAgree ==
  ret.addr # FAIL =>
    header[ret.addr - 1] =
      LevelLoop[[capacity |-> BUDDY_ARENA_SIZE, needed_pow2 |-> next_pow2(TotalSlots(ret.slots)),
                 target_level |-> 0]]

=============================================================================
