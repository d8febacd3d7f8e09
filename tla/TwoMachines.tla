------------------------------ MODULE TwoMachines ------------------------------
(****************************************************************************)
(* Two VMs in one process.  Each has its own ram[], with its own headers,   *)
(* but heap_alloc_mask and heap_split_mask of memory/heap_memory.c are file *)
(* scope variables: both machines allocate from one tree.  buddy_heap_init, *)
(* which would clear the masks, is called by nobody.                        *)
(****************************************************************************)
EXTENDS BuddyTree

CONSTANT Sizes   \* the requests the programs make, as HALLOC's operand

ASSUME RequestsAssumption == Sizes \subseteq 0..(WORD_MOD - 1)

VARIABLES
  heap_alloc_mask, heap_split_mask,   \* the masks of the process
  header_a, live_a, ret_a,            \* the first machine
  header_b, live_b, ret_b             \* the second machine

A == INSTANCE BuddyHeap WITH header <- header_a, live <- live_a, ret <- ret_a
B == INSTANCE BuddyHeap WITH header <- header_b, live <- live_b, ret <- ret_b

a_vars == <<header_a, live_a, ret_a>>
b_vars == <<header_b, live_b, ret_b>>
twoVars == <<heap_alloc_mask, heap_split_mask, a_vars, b_vars>>

Init == A!Init /\ B!Init

\* An instruction of one machine: the other keeps its words, not its masks.
StepOfA == A!Next /\ UNCHANGED b_vars
StepOfB == B!Next /\ UNCHANGED a_vars

Next == StepOfA \/ StepOfB

Spec == Init /\ [][Next]_twoVars

----------------------------------------------------------------------------
\* Both machines keep their types.
TwoTypeOK == A!TypeOK /\ B!TypeOK

\* No block of one machine lies inside a block of the other: the tree keeps the
\* machines apart, though they share no word of ram[].
NoSharedNodes ==
  \A b \in live_a, c \in live_b : b.node \notin Path(c.node) /\ c.node \notin Path(b.node)

\* Each machine finds its own blocks from its own headers, and its marks are as
\* it left them, whatever the other allocates and frees in between.
EachFindsItsOwn ==
  /\ A!HeaderIntact /\ A!NoNesting
  /\ B!HeaderIntact /\ B!NoNesting

\* The masks are empty again when neither machine holds a block: what one
\* machine frees comes back to both.
NothingLost == live_a \cup live_b = {} => heap_alloc_mask \cup heap_split_mask = {}

\* What the two share, seen by one of them: the blocks of both, its own answer
Seen(b) == [addr |-> b.addr, slots |-> b.slots]

OfA == INSTANCE HeapSpec WITH
  Order <- MaxLevel, Start <- HEAP_RAM_START, WordMod <- WORD_MOD, Requests <- Sizes,
  blocks <- {Seen(b) : b \in live_a \cup live_b}, answer <- ret_a
OfB == INSTANCE HeapSpec WITH
  Order <- MaxLevel, Start <- HEAP_RAM_START, WordMod <- WORD_MOD, Requests <- Sizes,
  blocks <- {Seen(b) : b \in live_a \cup live_b}, answer <- ret_b

\* A request gets the lowest run that neither uses, and fails only when there is
\* none; a machine frees blocks of its own.
CallOfA ==
  /\ UNCHANGED ret_b
  /\ \/ \E b \in live_a : OfA!Free(Seen(b))
     \/ \E n \in Sizes : OfA!Refuse(n) \/ OfA!Alloc(n)
CallOfB ==
  /\ UNCHANGED ret_a
  /\ \/ \E b \in live_b : OfB!Free(Seen(b))
     \/ \E n \in Sizes : OfB!Refuse(n) \/ OfB!Alloc(n)

\* The two are two programs on one heap of HeapSpec, though each has headers of
\* its own: the marks of one keep its blocks from the other, and no word is lost
\* to both.
OneHeap ==
  /\ OfA!Init /\ OfB!Init
  /\ [][CallOfA \/ CallOfB]_<<live_a, live_b, ret_a, ret_b>>

\* README: no global state, machines are independent; so the first machine sees
\* the heap it would have if it were alone.
FirstMachineAlone == A!ImplementsHeapSpec

=============================================================================
