---------------------------- MODULE TwoMachinesProofs ----------------------------
(****************************************************************************)
(* Two machines on one tree: each keeps what it has alone, and the nodes of *)
(* the two stay apart, for every size of the arena and every set of         *)
(* requests.  What one machine does to the masks is a MaskStep of the tree, *)
(* for the other it is a step of somebody else.                             *)
(****************************************************************************)
EXTENDS TwoMachines, TLAPS

\* The theorems about one machine, for each of the two
AP == INSTANCE BuddyHeapProofs WITH header <- header_a, live <- live_a, ret <- ret_a
BP == INSTANCE BuddyHeapProofs WITH header <- header_b, live <- live_b, ret <- ret_b

UsedByA == {b.node : b \in live_a}
UsedByB == {b.node : b \in live_b}

\* Neither machine has a node inside one of the other's, and every mark of the
\* shared masks has its reason in a block of one of them.
TwoInv ==
  /\ AP!HeapInv /\ BP!HeapInv
  /\ \A n \in UsedByA, m \in UsedByB : n \notin AP!Path(m) /\ m \notin AP!Path(n)
  /\ AP!Explained(heap_alloc_mask, heap_split_mask, UsedByA \cup UsedByB)

----------------------------------------------------------------------------
(* The first machine.                                                     *)

\* A and AP are one machine.
LEMMA SameA ==
  /\ A!Init => AP!Init
  /\ A!Next => AP!Next
  /\ AP!TypeOK => A!TypeOK
  /\ AP!NoNesting => A!NoNesting
  /\ AP!HeaderIntact => A!HeaderIntact
BY DEF A!Levels, AP!Levels, A!Nodes, AP!Nodes, A!LastNode, AP!LastNode, A!BUDDY_ARENA_SIZE,
       AP!BUDDY_ARENA_SIZE, A!HeapSlots, AP!HeapSlots, A!FAIL, AP!FAIL, A!get_index_level,
       AP!get_index_level, A!Parent, AP!Parent, A!Sibling, AP!Sibling, A!NodesAt,
       AP!NodesAt, A!BlockSlots, AP!BlockSlots, A!Path, AP!Path, A!Ancestors, AP!Ancestors,
       A!Candidates, AP!Candidates, A!FirstOf, AP!FirstOf, A!SplitPath, AP!SplitPath,
       A!MarkAllocated, AP!MarkAllocated, A!ClearAllocated, AP!ClearAllocated, A!Coalesce,
       AP!Coalesce, A!TotalSlots, AP!TotalSlots, A!IsTargetLevel, AP!IsTargetLevel,
       A!StartSlot, AP!StartSlot, A!RecoveredNode, AP!RecoveredNode, A!Fails, AP!Fails,
       A!MallocRefused, AP!MallocRefused, A!Searches, AP!Searches, A!MallocFull,
       AP!MallocFull, A!MallocOk, AP!MallocOk, A!HeaderSlot, AP!HeaderSlot, A!Accepted,
       AP!Accepted, A!Release, AP!Release, A!FreeBlock, AP!FreeBlock, A!FreeRejected,
       AP!FreeRejected, A!Malloc, AP!Malloc, A!Next, AP!Next, A!vars, AP!vars, A!Init,
       AP!Init, A!NoHeader, AP!NoHeader, A!DataSlots, AP!DataSlots, A!Blocks, AP!Blocks,
       A!TypeOK, AP!TypeOK, A!NoNesting, AP!NoNesting, A!HeaderIntact, AP!HeaderIntact

\* The machine's own invariant says what the properties ask for, ...
LEMMA HoldsA ==
  ASSUME AP!HeapInv
  PROVE  /\ A!TypeOK /\ A!NoNesting /\ A!HeaderIntact
         /\ UsedByA \in SUBSET AP!Nodes /\ AP!Apart(UsedByA)
         /\ AP!Guarded(heap_alloc_mask, heap_split_mask, UsedByA)
<1>1. AP!TypeOK /\ AP!NoNesting /\ AP!HeaderIntact
  BY AP!PlacedHeaders, TreeAssumption, ArenaAssumption, PowersOfTwo, RequestsAssumption
     DEF AP!HeapInv
<1>2. /\ AP!UsedNodes \in SUBSET AP!Nodes /\ AP!Apart(AP!UsedNodes)
      /\ AP!Guarded(heap_alloc_mask, heap_split_mask, AP!UsedNodes)
  BY AP!NodesInUse, TreeAssumption, ArenaAssumption, PowersOfTwo, RequestsAssumption
<1>3. /\ UsedByA \in SUBSET AP!Nodes /\ AP!Apart(UsedByA)
      /\ AP!Guarded(heap_alloc_mask, heap_split_mask, UsedByA)
  BY <1>2 DEF UsedByA, AP!UsedNodes
<1> QED
  BY <1>1, <1>3, SameA

\* ... is kept by each of its steps, and these are steps of the tree.
LEMMA StepA ==
  ASSUME AP!HeapInv, A!Next
  PROVE  /\ AP!HeapInv'
         /\ AP!MaskStep(heap_alloc_mask, heap_split_mask, UsedByA,
                        heap_alloc_mask', heap_split_mask', UsedByA')
<1>1. AP!HeapInv'
  BY SameA, AP!HeapStep, TreeAssumption, ArenaAssumption, PowersOfTwo, RequestsAssumption
<1>2. AP!MaskStep(heap_alloc_mask, heap_split_mask, AP!UsedNodes,
                  heap_alloc_mask', heap_split_mask', AP!UsedNodes')
  BY SameA, AP!TreeStep, TreeAssumption, ArenaAssumption, PowersOfTwo, RequestsAssumption
<1>3. AP!MaskStep(heap_alloc_mask, heap_split_mask, UsedByA,
                  heap_alloc_mask', heap_split_mask', UsedByA')
  BY <1>2 DEF UsedByA, AP!UsedNodes
<1> QED
  BY <1>1, <1>3

----------------------------------------------------------------------------
(* The second machine.                                                    *)

\* B and BP are one machine.
LEMMA SameB ==
  /\ B!Init => BP!Init
  /\ B!Next => BP!Next
  /\ BP!TypeOK => B!TypeOK
  /\ BP!NoNesting => B!NoNesting
  /\ BP!HeaderIntact => B!HeaderIntact
BY DEF B!Levels, BP!Levels, B!Nodes, BP!Nodes, B!LastNode, BP!LastNode, B!BUDDY_ARENA_SIZE,
       BP!BUDDY_ARENA_SIZE, B!HeapSlots, BP!HeapSlots, B!FAIL, BP!FAIL, B!get_index_level,
       BP!get_index_level, B!Parent, BP!Parent, B!Sibling, BP!Sibling, B!NodesAt,
       BP!NodesAt, B!BlockSlots, BP!BlockSlots, B!Path, BP!Path, B!Ancestors, BP!Ancestors,
       B!Candidates, BP!Candidates, B!FirstOf, BP!FirstOf, B!SplitPath, BP!SplitPath,
       B!MarkAllocated, BP!MarkAllocated, B!ClearAllocated, BP!ClearAllocated, B!Coalesce,
       BP!Coalesce, B!TotalSlots, BP!TotalSlots, B!IsTargetLevel, BP!IsTargetLevel,
       B!StartSlot, BP!StartSlot, B!RecoveredNode, BP!RecoveredNode, B!Fails, BP!Fails,
       B!MallocRefused, BP!MallocRefused, B!Searches, BP!Searches, B!MallocFull,
       BP!MallocFull, B!MallocOk, BP!MallocOk, B!HeaderSlot, BP!HeaderSlot, B!Accepted,
       BP!Accepted, B!Release, BP!Release, B!FreeBlock, BP!FreeBlock, B!FreeRejected,
       BP!FreeRejected, B!Malloc, BP!Malloc, B!Next, BP!Next, B!vars, BP!vars, B!Init,
       BP!Init, B!NoHeader, BP!NoHeader, B!DataSlots, BP!DataSlots, B!Blocks, BP!Blocks,
       B!TypeOK, BP!TypeOK, B!NoNesting, BP!NoNesting, B!HeaderIntact, BP!HeaderIntact

\* The machine's own invariant says what the properties ask for, ...
LEMMA HoldsB ==
  ASSUME BP!HeapInv
  PROVE  /\ B!TypeOK /\ B!NoNesting /\ B!HeaderIntact
         /\ UsedByB \in SUBSET AP!Nodes /\ AP!Apart(UsedByB)
         /\ AP!Guarded(heap_alloc_mask, heap_split_mask, UsedByB)
<1>1. BP!TypeOK /\ BP!NoNesting /\ BP!HeaderIntact
  BY BP!PlacedHeaders, TreeAssumption, ArenaAssumption, PowersOfTwo, RequestsAssumption
     DEF BP!HeapInv
<1>2. /\ BP!UsedNodes \in SUBSET BP!Nodes /\ BP!Apart(BP!UsedNodes)
      /\ BP!Guarded(heap_alloc_mask, heap_split_mask, BP!UsedNodes)
  BY BP!NodesInUse, TreeAssumption, ArenaAssumption, PowersOfTwo, RequestsAssumption
<1>3. /\ UsedByB \in SUBSET AP!Nodes /\ AP!Apart(UsedByB)
      /\ AP!Guarded(heap_alloc_mask, heap_split_mask, UsedByB)
  BY <1>2
     DEF AP!Nodes, BP!Nodes, AP!LastNode, BP!LastNode, AP!Levels, BP!Levels, AP!Path,
         BP!Path, AP!Ancestors, BP!Ancestors, AP!Apart, BP!Apart, AP!Guarded, BP!Guarded,
         UsedByB, BP!UsedNodes
<1> QED
  BY <1>1, <1>3, SameB

\* ... is kept by each of its steps, and these are steps of the tree.
LEMMA StepB ==
  ASSUME BP!HeapInv, B!Next
  PROVE  /\ BP!HeapInv'
         /\ AP!MaskStep(heap_alloc_mask, heap_split_mask, UsedByB,
                        heap_alloc_mask', heap_split_mask', UsedByB')
<1>1. BP!HeapInv'
  BY SameB, BP!HeapStep, TreeAssumption, ArenaAssumption, PowersOfTwo, RequestsAssumption
<1>2. BP!MaskStep(heap_alloc_mask, heap_split_mask, BP!UsedNodes,
                  heap_alloc_mask', heap_split_mask', BP!UsedNodes')
  BY SameB, BP!TreeStep, TreeAssumption, ArenaAssumption, PowersOfTwo, RequestsAssumption
<1>3. AP!MaskStep(heap_alloc_mask, heap_split_mask, UsedByB,
                  heap_alloc_mask', heap_split_mask', UsedByB')
  BY <1>2
     DEF AP!MaskStep, BP!MaskStep, AP!Levels, BP!Levels, AP!Nodes, BP!Nodes, AP!LastNode,
         BP!LastNode, AP!NodesAt, BP!NodesAt, AP!get_index_level, BP!get_index_level,
         AP!Path, BP!Path, AP!Ancestors, BP!Ancestors, AP!Parent, BP!Parent, AP!Sibling,
         BP!Sibling, AP!FirstOf, BP!FirstOf, AP!Candidates, BP!Candidates, AP!MarkAllocated,
         BP!MarkAllocated, AP!SplitPath, BP!SplitPath, AP!ClearAllocated, BP!ClearAllocated,
         AP!Coalesce, BP!Coalesce, UsedByB, BP!UsedNodes
<1> QED
  BY <1>1, <1>3

----------------------------------------------------------------------------
(* The two together.                                                      *)

\* A step of the other machine leaves A its blocks, its headers and its marks.
LEMMA OthersA ==
  ASSUME TwoInv, B!Next, UNCHANGED a_vars
  PROVE  AP!HeapInv'
<1>1. AP!HeapInv /\ AP!TypeOK /\ AP!NoNesting /\ AP!Placed
  BY DEF TwoInv, AP!HeapInv
<1>2. BP!HeapInv' /\ AP!MaskStep(heap_alloc_mask, heap_split_mask, UsedByB,
                               heap_alloc_mask', heap_split_mask', UsedByB')
  BY StepB DEF TwoInv
<1>3. AP!Guarded(heap_alloc_mask', heap_split_mask', UsedByA)
  BY <1>1, <1>2, HoldsA, HoldsB, AP!OthersGuarded, TreeAssumption, ArenaAssumption,
     PowersOfTwo, RequestsAssumption
     DEF TwoInv
<1>4. AP!TypeOK'
  BY <1>1, <1>2
     DEF BP!HeapInv, AP!TypeOK, BP!TypeOK, AP!Nodes, BP!Nodes, AP!LastNode, BP!LastNode,
         a_vars
<1>5. AP!NoNesting'
  BY <1>1, <1>3
     DEF AP!NoNesting, AP!Guarded, UsedByA, AP!Ancestors, AP!Path, AP!Nodes, AP!LastNode,
         AP!Levels, a_vars
<1>6. AP!Placed'
  BY <1>1 DEF AP!Placed, a_vars
<1> QED
  BY <1>4, <1>5, <1>6 DEF AP!HeapInv

\* A step of the other machine leaves B its blocks, its headers and its marks.
LEMMA OthersB ==
  ASSUME TwoInv, A!Next, UNCHANGED b_vars
  PROVE  BP!HeapInv'
<1>1. BP!HeapInv /\ BP!TypeOK /\ BP!NoNesting /\ BP!Placed
  BY DEF TwoInv, BP!HeapInv
<1>2. AP!HeapInv' /\ AP!MaskStep(heap_alloc_mask, heap_split_mask, UsedByA,
                               heap_alloc_mask', heap_split_mask', UsedByA')
  BY StepA DEF TwoInv
<1>3. AP!Guarded(heap_alloc_mask', heap_split_mask', UsedByB)
  BY <1>1, <1>2, HoldsA, HoldsB, AP!OthersGuarded, TreeAssumption, ArenaAssumption,
     PowersOfTwo, RequestsAssumption
     DEF TwoInv
<1>4. BP!TypeOK'
  BY <1>1, <1>2
     DEF AP!HeapInv, BP!TypeOK, AP!TypeOK, BP!Nodes, AP!Nodes, BP!LastNode, AP!LastNode,
         b_vars
<1>5. BP!NoNesting'
  BY <1>1, <1>3
     DEF BP!NoNesting, AP!Guarded, UsedByB, BP!Ancestors, AP!Ancestors, BP!Path, AP!Path,
         BP!Nodes, AP!Nodes, BP!LastNode, AP!LastNode, BP!Levels, AP!Levels, b_vars
<1>6. BP!Placed'
  BY <1>1 DEF BP!Placed, b_vars
<1> QED
  BY <1>4, <1>5, <1>6 DEF BP!HeapInv

\* A step of A keeps all of it.
LEMMA TwoStepA == ASSUME TwoInv, StepOfA PROVE TwoInv'
<1>1. UsedByB' = UsedByB /\ AP!HeapInv /\ BP!HeapInv
  BY DEF StepOfA, b_vars, UsedByB, TwoInv
<1>2. BP!HeapInv'
  BY OthersB DEF StepOfA
<1>3. AP!HeapInv' /\ AP!MaskStep(heap_alloc_mask, heap_split_mask, UsedByA,
                               heap_alloc_mask', heap_split_mask', UsedByA')
  BY <1>1, StepA DEF StepOfA
<1>4. \A n \in UsedByA, m \in UsedByB : n \notin AP!Path(m) /\ m \notin AP!Path(n)
  BY DEF TwoInv
<1>5. \A n \in UsedByA', m \in UsedByB : n \notin AP!Path(m) /\ m \notin AP!Path(n)
  BY <1>1, <1>3, <1>4, HoldsA, HoldsB, AP!OthersGuarded, TreeAssumption, ArenaAssumption,
     PowersOfTwo, RequestsAssumption
<1>6. AP!Explained(heap_alloc_mask', heap_split_mask', UsedByA' \cup UsedByB)
  <2>1. UsedByA \in SUBSET AP!Nodes /\ UsedByB \in SUBSET AP!Nodes
    BY <1>1, HoldsA, HoldsB
  <2>2. UsedByA \cap UsedByB = {}
    BY <1>4, <2>1, AP!SelfOnPath, TreeAssumption, ArenaAssumption, PowersOfTwo,
       RequestsAssumption
  <2>3. AP!Apart(UsedByA \cup UsedByB)
    BY <1>1, <1>4, HoldsA, HoldsB DEF AP!Apart
  <2>4. AP!Explained(heap_alloc_mask, heap_split_mask, UsedByA \cup UsedByB)
    <3>1. UsedByA \cup UsedByB = UsedByA \cup UsedByB
      OBVIOUS
    <3> QED
      BY <3>1 DEF TwoInv
  <2> QED
    BY <1>3, <2>1, <2>2, <2>3, <2>4, AP!StillExplained, TreeAssumption, ArenaAssumption,
       PowersOfTwo, RequestsAssumption
<1>7. UsedByA' \cup UsedByB = (UsedByA \cup UsedByB)'
  BY <1>1
<1> QED
  BY <1>1, <1>2, <1>3, <1>5, <1>6, <1>7 DEF TwoInv

\* A step of B keeps all of it.
LEMMA TwoStepB == ASSUME TwoInv, StepOfB PROVE TwoInv'
<1>1. UsedByA' = UsedByA /\ BP!HeapInv /\ AP!HeapInv
  BY DEF StepOfB, a_vars, UsedByA, TwoInv
<1>2. AP!HeapInv'
  BY OthersA DEF StepOfB
<1>3. BP!HeapInv' /\ AP!MaskStep(heap_alloc_mask, heap_split_mask, UsedByB,
                               heap_alloc_mask', heap_split_mask', UsedByB')
  BY <1>1, StepB DEF StepOfB
<1>4. \A n \in UsedByB, m \in UsedByA : n \notin AP!Path(m) /\ m \notin AP!Path(n)
  BY DEF TwoInv
<1>5. \A n \in UsedByB', m \in UsedByA : n \notin AP!Path(m) /\ m \notin AP!Path(n)
  BY <1>1, <1>3, <1>4, HoldsA, HoldsB, AP!OthersGuarded, TreeAssumption, ArenaAssumption,
     PowersOfTwo, RequestsAssumption
<1>6. AP!Explained(heap_alloc_mask', heap_split_mask', UsedByB' \cup UsedByA)
  <2>1. UsedByB \in SUBSET AP!Nodes /\ UsedByA \in SUBSET AP!Nodes
    BY <1>1, HoldsA, HoldsB
  <2>2. UsedByB \cap UsedByA = {}
    BY <1>4, <2>1, AP!SelfOnPath, TreeAssumption, ArenaAssumption, PowersOfTwo,
       RequestsAssumption
  <2>3. AP!Apart(UsedByB \cup UsedByA)
    BY <1>1, <1>4, HoldsA, HoldsB DEF AP!Apart
  <2>4. AP!Explained(heap_alloc_mask, heap_split_mask, UsedByB \cup UsedByA)
    <3>1. UsedByB \cup UsedByA = UsedByA \cup UsedByB
      OBVIOUS
    <3> QED
      BY <3>1 DEF TwoInv
  <2> QED
    BY <1>3, <2>1, <2>2, <2>3, <2>4, AP!StillExplained, TreeAssumption, ArenaAssumption,
       PowersOfTwo, RequestsAssumption
<1>7. UsedByB' \cup UsedByA = (UsedByA \cup UsedByB)'
  BY <1>1
<1> QED
  BY <1>1, <1>2, <1>3, <1>5, <1>6, <1>7 DEF TwoInv

\* No machine has a block, no mark is set.
LEMMA TwoStart == Init => TwoInv
<1> SUFFICES ASSUME Init PROVE TwoInv
  OBVIOUS
<1>1. A!Init /\ B!Init /\ AP!Init /\ BP!Init
  BY SameA, SameB DEF Init
<1>2. AP!HeapInv /\ BP!HeapInv
  BY <1>1, AP!HeapInit, BP!HeapInit, TreeAssumption, ArenaAssumption, PowersOfTwo,
     RequestsAssumption
<1>3. UsedByA = {} /\ UsedByB = {} /\ heap_alloc_mask = {} /\ heap_split_mask = {}
  BY <1>1 DEF A!Init, B!Init, UsedByA, UsedByB
<1> QED
  BY <1>2, <1>3 DEF TwoInv, AP!Explained

\* The inductive invariant of the two.
LEMMA TwoInvariant == Spec => []TwoInv
<1>1. TwoInv /\ [Next]_twoVars => TwoInv'
  <2>1. ASSUME TwoInv, UNCHANGED twoVars PROVE TwoInv'
    <3>1. /\ heap_alloc_mask' = heap_alloc_mask /\ heap_split_mask' = heap_split_mask
          /\ UNCHANGED <<header_a, live_a, ret_a, header_b, live_b, ret_b>>
      BY <2>1 DEF twoVars, a_vars, b_vars
    <3>2. AP!HeapInv' /\ BP!HeapInv'
      BY <2>1, <3>1
         DEF TwoInv, AP!HeapInv, AP!TypeOK, AP!NoNesting, AP!Placed, BP!HeapInv, BP!TypeOK,
             BP!NoNesting, BP!Placed
    <3>3. UsedByA' = UsedByA /\ UsedByB' = UsedByB
      BY <3>1 DEF UsedByA, UsedByB
    <3> QED
      BY <2>1, <3>1, <3>2, <3>3 DEF TwoInv
  <2> QED
    BY <2>1, TwoStepA, TwoStepB DEF Next
<1> QED
  BY <1>1, TwoStart, PTL DEF Spec

\* Both machines keep their types: what one writes to the shared masks are nodes
\* of the tree for the other.
THEOREM BothTyped == Spec => []TwoTypeOK
<1>1. TwoInv => TwoTypeOK
  BY HoldsA, HoldsB DEF TwoInv, TwoTypeOK
<1> QED
  BY <1>1, TwoInvariant, PTL

\* No block of one machine lies inside a block of the other: buddy_find_free
\* keeps off the marks of both, and a free leaves the other's marks alone.
THEOREM MachinesApart == Spec => []NoSharedNodes
<1>1. TwoInv => NoSharedNodes
  BY DEF TwoInv, NoSharedNodes, UsedByA, UsedByB, Path, AP!Path, Nodes, AP!Nodes, LastNode,
         AP!LastNode,
         Levels, AP!Levels
<1> QED
  BY <1>1, TwoInvariant, PTL

\* Each machine finds its blocks again from its own headers, with their marks as
\* it left them, whatever the other allocates and frees in between.
THEOREM EachKeepsItsOwn == Spec => []EachFindsItsOwn
<1>1. TwoInv => EachFindsItsOwn
  BY HoldsA, HoldsB DEF TwoInv, EachFindsItsOwn
<1> QED
  BY <1>1, TwoInvariant, PTL

\* When neither machine holds a block, no mark is left: what one frees comes back
\* to both.
THEOREM MarksComeBack == Spec => []NothingLost
<1>1. TwoInv => NothingLost
  BY DEF TwoInv, NothingLost, AP!Explained, UsedByA, UsedByB
<1> QED
  BY <1>1, TwoInvariant, PTL

----------------------------------------------------------------------------
(* One heap for two.  With the blocks of both, and a header word read where *)
(* its owner wrote it, each machine is an instance of BuddyHeap, and what   *)
(* is proved of one machine answers for both.                               *)

\* The headers of both, as the first machine would read them: those of the
\* other's blocks are where the other wrote them.
HeadersA ==
  [s \in HeapSlots |-> IF \E b \in live_b : b.addr = s + 1 THEN header_b[s] ELSE header_a[s]]

\* One machine with the blocks of both, and the first machine's answers
UA == INSTANCE BuddyHeapProofs WITH
  header <- HeadersA, live <- live_a \cup live_b, ret <- ret_a

\* What TwoInv says of the two, in its words.
LEMMA OwnersA ==
  ASSUME TwoInv
  PROVE  /\ heap_alloc_mask \subseteq UA!Nodes /\ heap_split_mask \subseteq UA!Nodes
         /\ header_a \in [UA!HeapSlots -> UA!Levels \cup {UA!NoHeader}]
         /\ header_b \in [UA!HeapSlots -> UA!Levels \cup {UA!NoHeader}]
         /\ live_a \subseteq UA!Blocks /\ live_b \subseteq UA!Blocks
         /\ ret_a \in [slots : Sizes \cup {0}, addr : UA!DataSlots \cup {UA!FAIL}]
         /\ UA!NoNesting /\ UA!MarksInv
         /\ \A b \in live_a, c \in live_b : b.node \notin UA!Path(c.node) /\ b.node # c.node
         /\ \A b \in live_a, c \in live_b : c.node \notin UA!Path(b.node)
<1>1. AP!TypeOK /\ BP!TypeOK /\ AP!NoNesting /\ BP!NoNesting
  BY DEF TwoInv, AP!HeapInv, BP!HeapInv
<1>2. \A b \in live_a, c \in live_b :
        b.node \notin UA!Path(c.node) /\ c.node \notin UA!Path(b.node)
  BY DEF UA!Path, AP!Path, UA!Nodes, AP!Nodes, UA!LastNode, AP!LastNode, UA!Levels,
         AP!Levels,
    TwoInv, UsedByA, UsedByB
<1>3. /\ heap_alloc_mask \subseteq UA!Nodes /\ heap_split_mask \subseteq UA!Nodes
      /\ header_a \in [UA!HeapSlots -> UA!Levels \cup {UA!NoHeader}]
      /\ header_b \in [UA!HeapSlots -> UA!Levels \cup {UA!NoHeader}]
      /\ live_a \subseteq UA!Blocks /\ live_b \subseteq UA!Blocks
      /\ ret_a \in [slots : Sizes \cup {0}, addr : UA!DataSlots \cup {UA!FAIL}]
  BY <1>1
     DEF UA!TypeOK, AP!TypeOK, BP!TypeOK, UA!Nodes, AP!Nodes, BP!Nodes, UA!LastNode,
         AP!LastNode, BP!LastNode, UA!HeapSlots, AP!HeapSlots, BP!HeapSlots, UA!Levels,
         AP!Levels, BP!Levels, UA!NoHeader, AP!NoHeader, BP!NoHeader, UA!Blocks, AP!Blocks,
         BP!Blocks, UA!DataSlots, AP!DataSlots, BP!DataSlots, UA!FAIL, AP!FAIL, BP!FAIL,
         UA!BUDDY_ARENA_SIZE, AP!BUDDY_ARENA_SIZE, BP!BUDDY_ARENA_SIZE
<1>4. \A b \in live_a, c \in live_b : b.node # c.node
  BY <1>2, <1>3, UA!SelfOnPath, TreeAssumption, ArenaAssumption, PowersOfTwo,
     RequestsAssumption
     DEF UA!Blocks
<1>5. /\ \A b \in live_a : /\ b.node \in heap_alloc_mask
                           /\ UA!Ancestors(b.node) \subseteq heap_split_mask
      /\ \A b \in live_b : /\ b.node \in heap_alloc_mask
                           /\ UA!Ancestors(b.node) \subseteq heap_split_mask
      /\ \A b, c \in live_a : b # c => b.node \notin UA!Path(c.node)
      /\ \A b, c \in live_b : b # c => b.node \notin UA!Path(c.node)
  BY <1>1
     DEF UA!NoNesting, AP!NoNesting, BP!NoNesting, UA!Ancestors, AP!Ancestors, BP!Ancestors,
         UA!Path, AP!Path, BP!Path, UA!Nodes, AP!Nodes, BP!Nodes, UA!LastNode, AP!LastNode,
         BP!LastNode, UA!Levels, AP!Levels, BP!Levels
<1>6. UA!NoNesting
  BY <1>2, <1>5 DEF UA!NoNesting
<1>7. UA!MarksInv
  <2>1. UA!UsedNodes = UsedByA \cup UsedByB
    BY DEF UA!UsedNodes, UsedByA, UsedByB
  <2>2. AP!Explained(heap_alloc_mask, heap_split_mask, UsedByA \cup UsedByB)
    BY DEF TwoInv
  <2>3. UA!Explained(heap_alloc_mask, heap_split_mask, UsedByA \cup UsedByB)
    BY <2>2
       DEF UA!Explained, AP!Explained, UA!Nodes, AP!Nodes, UA!LastNode, AP!LastNode,
           UA!Levels, AP!Levels, UA!Path, AP!Path, UA!Ancestors, AP!Ancestors, UA!Parent,
           AP!Parent, UA!Sibling, AP!Sibling
  <2> QED
    BY <2>1, <2>3 DEF UA!MarksInv
<1> QED
  BY <1>2, <1>3, <1>4, <1>6, <1>7

\* Each block is where its machine has put it, ...
LEMMA PlacesA ==
  ASSUME TwoInv
  PROVE  /\ \A b \in live_a : \E lvl \in UA!Levels :
              /\ b.node \in UA!NodesAt(lvl) /\ b.addr = UA!StartSlot(b.node, lvl) + 1
              /\ header_a[b.addr - 1] = lvl /\ UA!Fits(b.slots, lvl)
         /\ \A b \in live_b : \E lvl \in UA!Levels :
              /\ b.node \in UA!NodesAt(lvl) /\ b.addr = UA!StartSlot(b.node, lvl) + 1
              /\ header_b[b.addr - 1] = lvl /\ UA!Fits(b.slots, lvl)
<1>1. AP!Placed /\ BP!Placed
  BY DEF TwoInv, AP!HeapInv, BP!HeapInv
<1> QED
  BY <1>1
     DEF UA!Placed, AP!Placed, BP!Placed, UA!Levels, AP!Levels, BP!Levels, UA!NodesAt,
         AP!NodesAt, BP!NodesAt, UA!get_index_level, AP!get_index_level, BP!get_index_level,
         UA!StartSlot, AP!StartSlot, BP!StartSlot, UA!BlockSlots, AP!BlockSlots,
         BP!BlockSlots, UA!BUDDY_ARENA_SIZE, AP!BUDDY_ARENA_SIZE, BP!BUDDY_ARENA_SIZE,
         UA!Fits, AP!Fits, BP!Fits

\* ... and no two start at one word.
LEMMA StartsApartA ==
  ASSUME NEW lx \in UA!Levels, NEW ly \in UA!Levels,
         NEW x \in UA!NodesAt(lx), NEW y \in UA!NodesAt(ly),
         x \notin UA!Path(y), y \notin UA!Path(x)
  PROVE  /\ UA!StartSlot(x, lx) # UA!StartSlot(y, ly)
         /\ UA!StartSlot(x, lx) \in UA!HeapSlots /\ UA!StartSlot(x, lx) \in Nat
         /\ UA!StartSlot(y, ly) \in Nat
<1>1. UA!Region(x, lx) \cap UA!Region(y, ly) = {}
  BY UA!NoCommonWord, TreeAssumption, ArenaAssumption, PowersOfTwo, RequestsAssumption
<1>2. /\ UA!BlockSlots(lx) \in Nat \ {0} /\ UA!StartSlot(x, lx) \in Nat
      /\ HEAP_RAM_START <= UA!StartSlot(x, lx)
      /\ UA!StartSlot(x, lx) + UA!BlockSlots(lx) <= HEAP_RAM_START + UA!BUDDY_ARENA_SIZE
      /\ UA!BlockSlots(ly) \in Nat \ {0} /\ UA!StartSlot(y, ly) \in Nat
  BY UA!BlocksInArena, TreeAssumption, ArenaAssumption, PowersOfTwo, RequestsAssumption
<1>3. UA!BUDDY_ARENA_SIZE \in Nat
  BY UA!TreeSizes, TreeAssumption, ArenaAssumption, PowersOfTwo, RequestsAssumption
<1>4. UA!StartSlot(x, lx) \in UA!Region(x, lx) /\ UA!StartSlot(y, ly) \in UA!Region(y, ly)
  BY <1>2 DEF UA!Region
<1>5. UA!StartSlot(x, lx) \in UA!HeapSlots
  BY <1>2, <1>3, TreeAssumption DEF UA!HeapSlots
<1> QED
  BY <1>1, <1>2, <1>4, <1>5

\* The two are one machine with the blocks of both.
LEMMA JointA ==
  ASSUME TwoInv
  PROVE  /\ UA!HeapInv /\ UA!MarksInv
         /\ \A b \in live_a, c \in live_b : b.addr # c.addr /\ b # c
         /\ \A b \in live_a : HeadersA[b.addr - 1] = header_a[b.addr - 1]
<1>1. \A b \in live_a, c \in live_b : b.addr # c.addr /\ b # c
  <2> SUFFICES ASSUME NEW b \in live_a, NEW c \in live_b PROVE b.addr # c.addr
    OBVIOUS
  <2>1. PICK lx \in UA!Levels :
          b.node \in UA!NodesAt(lx) /\ b.addr = UA!StartSlot(b.node, lx) + 1
    BY PlacesA
  <2>2. PICK ly \in UA!Levels :
          c.node \in UA!NodesAt(ly) /\ c.addr = UA!StartSlot(c.node, ly) + 1
    BY PlacesA
  <2>3. b.node \notin UA!Path(c.node) /\ c.node \notin UA!Path(b.node)
    BY OwnersA
  <2> QED
    BY <2>1, <2>2, <2>3, StartsApartA
<1>2. \A s \in UA!HeapSlots :
        HeadersA[s] = IF \E c \in live_b : c.addr = s + 1 THEN header_b[s] ELSE header_a[s]
  BY DEF HeadersA, HeapSlots, UA!HeapSlots, BUDDY_ARENA_SIZE, UA!BUDDY_ARENA_SIZE
<1>3. \A b \in live_a \cup live_b : b.addr - 1 \in UA!HeapSlots /\ (b.addr - 1) + 1 = b.addr
  <2> SUFFICES ASSUME NEW b \in live_a \cup live_b
               PROVE  b.addr - 1 \in UA!HeapSlots /\ (b.addr - 1) + 1 = b.addr
    OBVIOUS
  <2>1. b.addr \in UA!DataSlots
    BY OwnersA DEF UA!Blocks
  <2>2. UA!BUDDY_ARENA_SIZE \in Nat
    BY UA!TreeSizes, TreeAssumption, ArenaAssumption, PowersOfTwo, RequestsAssumption
  <2> QED
    BY <2>1, <2>2, TreeAssumption DEF UA!DataSlots, UA!HeapSlots
<1>4. \A b \in live_a : HeadersA[b.addr - 1] = header_a[b.addr - 1]
  BY <1>1, <1>2, <1>3
<1>5. \A b \in live_b : HeadersA[b.addr - 1] = header_b[b.addr - 1]
  BY <1>2, <1>3
<1>6. UA!Placed
  BY <1>4, <1>5, PlacesA DEF UA!Placed
<1>7. UA!TypeOK
  <2>1. HeadersA \in [UA!HeapSlots -> UA!Levels \cup {UA!NoHeader}]
    BY OwnersA
       DEF HeadersA, HeapSlots, UA!HeapSlots, BUDDY_ARENA_SIZE, UA!BUDDY_ARENA_SIZE
  <2> QED
    BY <2>1, OwnersA DEF UA!TypeOK
<1> QED
  BY <1>1, <1>4, <1>6, <1>7, OwnersA DEF UA!HeapInv

\* A call of the first machine is a call of the joint one.
LEMMA CallsA ==
  ASSUME TwoInv, UNCHANGED b_vars
  PROVE  /\ \A n \in Sizes : A!Malloc(n) => UA!Malloc(n)
         /\ \A block \in live_a : A!FreeBlock(block) => UA!FreeBlock(block)
<1>1. header_b' = header_b /\ live_b' = live_b /\ ret_b' = ret_b
  BY DEF b_vars
<1>2. ASSUME header_a' = header_a PROVE HeadersA' = HeadersA
  BY <1>1, <1>2 DEF HeadersA
<1>3. ASSUME NEW n \in Sizes, A!MallocRefused(n) PROVE UA!MallocRefused(n)
  BY <1>1, <1>2, <1>3
     DEF UA!MallocRefused, A!MallocRefused, UA!Fails, A!Fails, UA!TotalSlots, A!TotalSlots,
         UA!BUDDY_ARENA_SIZE, A!BUDDY_ARENA_SIZE, UA!FAIL, A!FAIL
<1>4. ASSUME NEW n \in Sizes, A!MallocFull(n) PROVE UA!MallocFull(n)
  <2>1. PICK lvl \in A!Levels :
          /\ A!Searches(n, lvl)
          /\ A!Candidates(heap_alloc_mask, heap_split_mask, lvl) = {}
          /\ A!Fails(n)
    BY <1>4 DEF A!MallocFull
  <2>2. lvl \in UA!Levels /\ UA!Searches(n, lvl) /\ UA!Fails(n)
    BY <1>1, <1>2, <2>1
       DEF UA!Levels, A!Levels, UA!Searches, A!Searches, UA!Fails, A!Fails, UA!TotalSlots,
           A!TotalSlots, UA!BUDDY_ARENA_SIZE, A!BUDDY_ARENA_SIZE, UA!IsTargetLevel,
           A!IsTargetLevel, UA!BlockSlots, A!BlockSlots, UA!FAIL, A!FAIL
  <2>3. UA!Candidates(heap_alloc_mask, heap_split_mask, lvl) = {}
    BY <2>1
       DEF UA!Candidates, A!Candidates, UA!NodesAt, A!NodesAt, UA!get_index_level,
           A!get_index_level, UA!Path, A!Path, UA!Nodes, A!Nodes, UA!LastNode, A!LastNode,
           UA!Levels, A!Levels
  <2> QED
    BY <2>2, <2>3 DEF UA!MallocFull
<1>5. ASSUME NEW n \in Sizes, A!MallocOk(n) PROVE UA!MallocOk(n)
  <2>1. PICK lvl \in UA!Levels, node \in UA!Nodes :
          /\ UA!Searches(n, lvl)
          /\ UA!FirstOf(UA!Candidates(heap_alloc_mask, heap_split_mask, lvl), node)
          /\ heap_split_mask' = UA!SplitPath(heap_split_mask, node)
          /\ heap_alloc_mask' = UA!MarkAllocated(heap_alloc_mask, node)
          /\ header_a' = [header_a EXCEPT ![UA!StartSlot(node, lvl)] = lvl]
          /\ live_a' = live_a \cup {[addr |-> UA!StartSlot(node, lvl) + 1,
                                     slots |-> n, node |-> node]}
          /\ ret_a' = [slots |-> n, addr |-> UA!StartSlot(node, lvl) + 1]
    BY <1>5
       DEF UA!MallocOk, A!MallocOk, UA!Levels, A!Levels, UA!Nodes, A!Nodes, UA!LastNode,
           A!LastNode, UA!Searches, A!Searches, UA!TotalSlots, A!TotalSlots,
           UA!BUDDY_ARENA_SIZE, A!BUDDY_ARENA_SIZE, UA!IsTargetLevel, A!IsTargetLevel,
           UA!BlockSlots, A!BlockSlots, UA!FirstOf, A!FirstOf, UA!Candidates, A!Candidates,
           UA!NodesAt, A!NodesAt, UA!get_index_level, A!get_index_level, UA!Path, A!Path,
           UA!Ancestors, A!Ancestors, UA!SplitPath, A!SplitPath, UA!MarkAllocated,
           A!MarkAllocated, UA!Sibling, A!Sibling, UA!StartSlot, A!StartSlot
  <2> DEFINE start == UA!StartSlot(node, lvl)
  <2>2. /\ node \in UA!NodesAt(lvl) /\ node \notin heap_split_mask
        /\ UA!Path(node) \cap heap_alloc_mask = {} /\ node \in UA!Path(node)
    BY <2>1, UA!SelfOnPath, TreeAssumption, ArenaAssumption, PowersOfTwo, RequestsAssumption
       DEF UA!FirstOf, UA!Candidates
  <2>3. \A c \in live_b : c.node \notin UA!Path(node) /\ node \notin UA!Path(c.node)
    BY <2>2, OwnersA DEF UA!NoNesting, UA!Ancestors
  <2>4. start \in UA!HeapSlots /\ start \in Nat /\ \A c \in live_b : c.addr # start + 1
    <3>1. start \in UA!HeapSlots /\ start \in Nat
      <4>1. UA!BUDDY_ARENA_SIZE \in Nat /\ UA!BlockSlots(lvl) \in Nat \ {0}
        BY <2>2, UA!TreeSizes, UA!BlocksInArena, TreeAssumption, ArenaAssumption,
           PowersOfTwo, RequestsAssumption
      <4>2. /\ start \in Nat /\ HEAP_RAM_START <= start
            /\ start + UA!BlockSlots(lvl) <= HEAP_RAM_START + UA!BUDDY_ARENA_SIZE
        BY <2>2, UA!BlocksInArena, TreeAssumption, ArenaAssumption, PowersOfTwo,
           RequestsAssumption
      <4> HIDE DEF start
      <4> QED
        BY <4>1, <4>2, TreeAssumption DEF UA!HeapSlots
    <3>2. ASSUME NEW c \in live_b PROVE c.addr # start + 1
      <4>1. PICK ly \in UA!Levels :
              c.node \in UA!NodesAt(ly) /\ c.addr = UA!StartSlot(c.node, ly) + 1
        BY PlacesA
      <4>2. start # UA!StartSlot(c.node, ly) /\ UA!StartSlot(c.node, ly) \in Nat
        BY <2>2, <2>3, <4>1, StartsApartA
      <4> HIDE DEF start
      <4> QED
        BY <3>1, <4>1, <4>2
    <3> QED
      BY <3>1, <3>2
  <2>5. HeadersA' = [HeadersA EXCEPT ![start] = lvl]
    <3>1. /\ HeadersA' = [s \in HeapSlots |-> IF \E b \in live_b : b.addr = s + 1
                                              THEN header_b[s] ELSE header_a'[s]]
          /\ start \in HeapSlots /\ header_a \in [HeapSlots -> UA!Levels \cup {UA!NoHeader}]
      BY <1>1, <2>4, OwnersA
         DEF HeadersA, HeapSlots, UA!HeapSlots, BUDDY_ARENA_SIZE, UA!BUDDY_ARENA_SIZE
    <3>2. header_a' = [header_a EXCEPT ![start] = lvl]
      BY <2>1
    <3> HIDE DEF start
    <3> QED
      BY <2>4, <3>1, <3>2 DEF HeadersA
  <2>6. (live_a \cup live_b)'
          = (live_a \cup live_b) \cup {[addr |-> start + 1, slots |-> n, node |-> node]}
    BY <1>1, <2>1
  <2> QED
    BY <2>1, <2>5, <2>6 DEF UA!MallocOk
<1>6. ASSUME NEW block \in live_a, A!FreeBlock(block) PROVE UA!FreeBlock(block)
  <2>1. block.addr - 1 \in UA!HeapSlots /\ A!HeaderSlot(block.addr) = block.addr - 1
    <3>1. block.addr \in UA!DataSlots
      BY OwnersA DEF UA!Blocks
    <3>2. UA!BUDDY_ARENA_SIZE \in Nat /\ UA!BUDDY_ARENA_SIZE <= HEAP_RAM_SIZE
      BY UA!TreeSizes, TreeAssumption, ArenaAssumption, PowersOfTwo, RequestsAssumption
         DEF UA!BUDDY_ARENA_SIZE
    <3>3. block.addr - 1 \in 0..(WORD_MOD - 1)
      BY <3>1, <3>2, TreeAssumption, ArenaAssumption DEF UA!DataSlots
    <3>4. (block.addr - 1) % WORD_MOD = block.addr - 1
      BY <3>3, TreeAssumption
    <3> QED
      BY <3>1, <3>2, <3>4, TreeAssumption DEF UA!DataSlots, UA!HeapSlots, A!HeaderSlot
  <2>2. UA!HeaderSlot(block.addr) = A!HeaderSlot(block.addr)
    BY DEF UA!HeaderSlot, A!HeaderSlot
  <2>3. HeadersA[A!HeaderSlot(block.addr)] = header_a[A!HeaderSlot(block.addr)]
    BY <2>1, JointA
  <2>4. live_a' = live_a \ {block} /\ A!Release(block.addr) /\ header_a' = header_a
        /\ ret_a' = ret_a
    BY <1>6 DEF A!FreeBlock, A!Release
  <2>5. UA!Release(block.addr)
    BY <1>2, <2>2, <2>3, <2>4
       DEF UA!Release, A!Release, UA!Accepted, A!Accepted, UA!HeapSlots, A!HeapSlots,
           UA!BUDDY_ARENA_SIZE, A!BUDDY_ARENA_SIZE, UA!Levels, A!Levels, UA!BlockSlots,
           A!BlockSlots, UA!RecoveredNode, A!RecoveredNode, UA!get_index_level,
           A!get_index_level, UA!ClearAllocated, A!ClearAllocated, UA!Coalesce, A!Coalesce,
           UA!Ancestors, A!Ancestors, UA!Path, A!Path, UA!Nodes, A!Nodes, UA!LastNode,
           A!LastNode, UA!Sibling, A!Sibling
  <2>6. (live_a \cup live_b)' = (live_a \cup live_b) \ {block}
    BY <1>1, <2>4, JointA
  <2> QED
    BY <2>5, <2>6 DEF UA!FreeBlock
<1> QED
  BY <1>3, <1>4, <1>5, <1>6 DEF A!Malloc, UA!Malloc

\* What the first machine asks for it gets as from the joint heap.
LEMMA AnswersA ==
  ASSUME TwoInv, StepOfA
  PROVE  \/ \E n \in Sizes : OfA!Alloc(n) \/ OfA!Refuse(n)
         \/ \E b \in live_a : OfA!Free(Seen(b))
         \/ UNCHANGED <<live_a, live_b, ret_a, ret_b>>
<1>1. ASSUME NEW n \in Sizes, A!Malloc(n) PROVE OfA!Alloc(n) \/ OfA!Refuse(n)
  <2>1. UA!HeapInv /\ UA!MarksInv /\ UA!Malloc(n)
    BY <1>1, JointA, CallsA DEF StepOfA
  <2>2. UA!Promise!Alloc(n) \/ UA!Promise!Refuse(n)
    BY <2>1, UA!AllocStep, UA!RefuseStep, TreeAssumption, ArenaAssumption, PowersOfTwo,
       RequestsAssumption
       DEF UA!Malloc
  <2> QED
    BY <2>2
       DEF UA!Promise!Alloc, OfA!Alloc, UA!Promise!Refuse, OfA!Refuse, UA!Promise!FreeRuns,
           OfA!FreeRuns, UA!Promise!Run, OfA!Run, UA!Promise!Rounded, OfA!Rounded,
           UA!Promise!RunSizes, OfA!RunSizes, UA!Promise!ArenaSize, OfA!ArenaSize,
           UA!Promise!Nowhere, OfA!Nowhere, Seen
<1>2. ASSUME NEW block \in live_a, A!FreeBlock(block) PROVE OfA!Free(Seen(block))
  <2>1. UA!HeapInv /\ UA!FreeBlock(block) /\ block \in live_a \cup live_b
    BY <1>2, JointA, CallsA DEF StepOfA
  <2>2. UA!Promise!Free([addr |-> block.addr, slots |-> block.slots])
    BY <2>1, UA!FreeStep, TreeAssumption, ArenaAssumption, PowersOfTwo, RequestsAssumption
  <2> QED
    BY <2>2 DEF UA!Promise!Free, OfA!Free, Seen
<1>3. ASSUME A!FreeRejected(A!FAIL) PROVE UNCHANGED <<live_a, live_b, ret_a, ret_b>>
  BY <1>3 DEF A!FreeRejected, A!vars, StepOfA, b_vars
<1> QED
  BY <1>1, <1>2, <1>3 DEF StepOfA, A!Next

\* The headers of both, as the second machine would read them: those of the
\* other's blocks are where the other wrote them.
HeadersB ==
  [s \in HeapSlots |-> IF \E b \in live_a : b.addr = s + 1 THEN header_a[s] ELSE header_b[s]]

\* One machine with the blocks of both, and the second machine's answers
UB == INSTANCE BuddyHeapProofs WITH
  header <- HeadersB, live <- live_a \cup live_b, ret <- ret_b

\* What TwoInv says of the two, in the words of the second.
LEMMA OwnersB ==
  ASSUME TwoInv
  PROVE  /\ heap_alloc_mask \subseteq UB!Nodes /\ heap_split_mask \subseteq UB!Nodes
         /\ header_b \in [UB!HeapSlots -> UB!Levels \cup {UB!NoHeader}]
         /\ header_a \in [UB!HeapSlots -> UB!Levels \cup {UB!NoHeader}]
         /\ live_b \subseteq UB!Blocks /\ live_a \subseteq UB!Blocks
         /\ ret_b \in [slots : Sizes \cup {0}, addr : UB!DataSlots \cup {UB!FAIL}]
         /\ UB!NoNesting /\ UB!MarksInv
         /\ \A b \in live_b, c \in live_a : b.node \notin UB!Path(c.node) /\ b.node # c.node
         /\ \A b \in live_b, c \in live_a : c.node \notin UB!Path(b.node)
<1>1. BP!TypeOK /\ AP!TypeOK /\ BP!NoNesting /\ AP!NoNesting
  BY DEF TwoInv, BP!HeapInv, AP!HeapInv
<1>2. \A b \in live_b, c \in live_a :
        b.node \notin UB!Path(c.node) /\ c.node \notin UB!Path(b.node)
  BY DEF UB!Path, AP!Path, UB!Nodes, AP!Nodes, UB!LastNode, AP!LastNode, UB!Levels,
         AP!Levels,
    TwoInv, UsedByA, UsedByB
<1>3. /\ heap_alloc_mask \subseteq UB!Nodes /\ heap_split_mask \subseteq UB!Nodes
      /\ header_b \in [UB!HeapSlots -> UB!Levels \cup {UB!NoHeader}]
      /\ header_a \in [UB!HeapSlots -> UB!Levels \cup {UB!NoHeader}]
      /\ live_b \subseteq UB!Blocks /\ live_a \subseteq UB!Blocks
      /\ ret_b \in [slots : Sizes \cup {0}, addr : UB!DataSlots \cup {UB!FAIL}]
  BY <1>1
     DEF UB!TypeOK, AP!TypeOK, BP!TypeOK, UB!Nodes, AP!Nodes, BP!Nodes, UB!LastNode,
         AP!LastNode, BP!LastNode, UB!HeapSlots, AP!HeapSlots, BP!HeapSlots, UB!Levels,
         AP!Levels, BP!Levels, UB!NoHeader, AP!NoHeader, BP!NoHeader, UB!Blocks, AP!Blocks,
         BP!Blocks, UB!DataSlots, AP!DataSlots, BP!DataSlots, UB!FAIL, AP!FAIL, BP!FAIL,
         UB!BUDDY_ARENA_SIZE, AP!BUDDY_ARENA_SIZE, BP!BUDDY_ARENA_SIZE
<1>4. \A b \in live_b, c \in live_a : b.node # c.node
  BY <1>2, <1>3, UB!SelfOnPath, TreeAssumption, ArenaAssumption, PowersOfTwo,
     RequestsAssumption
     DEF UB!Blocks
<1>5. /\ \A b \in live_b : /\ b.node \in heap_alloc_mask
                           /\ UB!Ancestors(b.node) \subseteq heap_split_mask
      /\ \A b \in live_a : /\ b.node \in heap_alloc_mask
                           /\ UB!Ancestors(b.node) \subseteq heap_split_mask
      /\ \A b, c \in live_b : b # c => b.node \notin UB!Path(c.node)
      /\ \A b, c \in live_a : b # c => b.node \notin UB!Path(c.node)
  BY <1>1
     DEF UB!NoNesting, AP!NoNesting, BP!NoNesting, UB!Ancestors, AP!Ancestors, BP!Ancestors,
         UB!Path, AP!Path, BP!Path, UB!Nodes, AP!Nodes, BP!Nodes, UB!LastNode, AP!LastNode,
         BP!LastNode, UB!Levels, AP!Levels, BP!Levels
<1>6. UB!NoNesting
  BY <1>2, <1>5 DEF UB!NoNesting
<1>7. UB!MarksInv
  <2>1. UB!UsedNodes = UsedByA \cup UsedByB
    BY DEF UB!UsedNodes, UsedByB, UsedByA
  <2>2. AP!Explained(heap_alloc_mask, heap_split_mask, UsedByA \cup UsedByB)
    BY DEF TwoInv
  <2>3. UB!Explained(heap_alloc_mask, heap_split_mask, UsedByA \cup UsedByB)
    BY <2>2
       DEF UB!Explained, AP!Explained, UB!Nodes, AP!Nodes, UB!LastNode, AP!LastNode,
           UB!Levels, AP!Levels, UB!Path, AP!Path, UB!Ancestors, AP!Ancestors, UB!Parent,
           AP!Parent, UB!Sibling, AP!Sibling
  <2> QED
    BY <2>1, <2>3 DEF UB!MarksInv
<1> QED
  BY <1>2, <1>3, <1>4, <1>6, <1>7

\* Each block is where its machine has put it, ...
LEMMA PlacesB ==
  ASSUME TwoInv
  PROVE  /\ \A b \in live_b : \E lvl \in UB!Levels :
              /\ b.node \in UB!NodesAt(lvl) /\ b.addr = UB!StartSlot(b.node, lvl) + 1
              /\ header_b[b.addr - 1] = lvl /\ UB!Fits(b.slots, lvl)
         /\ \A b \in live_a : \E lvl \in UB!Levels :
              /\ b.node \in UB!NodesAt(lvl) /\ b.addr = UB!StartSlot(b.node, lvl) + 1
              /\ header_a[b.addr - 1] = lvl /\ UB!Fits(b.slots, lvl)
<1>1. BP!Placed /\ AP!Placed
  BY DEF TwoInv, BP!HeapInv, AP!HeapInv
<1> QED
  BY <1>1
     DEF UB!Placed, AP!Placed, BP!Placed, UB!Levels, AP!Levels, BP!Levels, UB!NodesAt,
         AP!NodesAt, BP!NodesAt, UB!get_index_level, AP!get_index_level, BP!get_index_level,
         UB!StartSlot, AP!StartSlot, BP!StartSlot, UB!BlockSlots, AP!BlockSlots,
         BP!BlockSlots, UB!BUDDY_ARENA_SIZE, AP!BUDDY_ARENA_SIZE, BP!BUDDY_ARENA_SIZE,
         UB!Fits, AP!Fits, BP!Fits

\* ... and no two start at one word.
LEMMA StartsApartB ==
  ASSUME NEW lx \in UB!Levels, NEW ly \in UB!Levels,
         NEW x \in UB!NodesAt(lx), NEW y \in UB!NodesAt(ly),
         x \notin UB!Path(y), y \notin UB!Path(x)
  PROVE  /\ UB!StartSlot(x, lx) # UB!StartSlot(y, ly)
         /\ UB!StartSlot(x, lx) \in UB!HeapSlots /\ UB!StartSlot(x, lx) \in Nat
         /\ UB!StartSlot(y, ly) \in Nat
<1>1. UB!Region(x, lx) \cap UB!Region(y, ly) = {}
  BY UB!NoCommonWord, TreeAssumption, ArenaAssumption, PowersOfTwo, RequestsAssumption
<1>2. /\ UB!BlockSlots(lx) \in Nat \ {0} /\ UB!StartSlot(x, lx) \in Nat
      /\ HEAP_RAM_START <= UB!StartSlot(x, lx)
      /\ UB!StartSlot(x, lx) + UB!BlockSlots(lx) <= HEAP_RAM_START + UB!BUDDY_ARENA_SIZE
      /\ UB!BlockSlots(ly) \in Nat \ {0} /\ UB!StartSlot(y, ly) \in Nat
  BY UB!BlocksInArena, TreeAssumption, ArenaAssumption, PowersOfTwo, RequestsAssumption
<1>3. UB!BUDDY_ARENA_SIZE \in Nat
  BY UB!TreeSizes, TreeAssumption, ArenaAssumption, PowersOfTwo, RequestsAssumption
<1>4. UB!StartSlot(x, lx) \in UB!Region(x, lx) /\ UB!StartSlot(y, ly) \in UB!Region(y, ly)
  BY <1>2 DEF UB!Region
<1>5. UB!StartSlot(x, lx) \in UB!HeapSlots
  BY <1>2, <1>3, TreeAssumption DEF UB!HeapSlots
<1> QED
  BY <1>1, <1>2, <1>4, <1>5

\* The two are one machine with the blocks of both.
LEMMA JointB ==
  ASSUME TwoInv
  PROVE  /\ UB!HeapInv /\ UB!MarksInv
         /\ \A b \in live_b, c \in live_a : b.addr # c.addr /\ b # c
         /\ \A b \in live_b : HeadersB[b.addr - 1] = header_b[b.addr - 1]
<1>1. \A b \in live_b, c \in live_a : b.addr # c.addr /\ b # c
  <2> SUFFICES ASSUME NEW b \in live_b, NEW c \in live_a PROVE b.addr # c.addr
    OBVIOUS
  <2>1. PICK lx \in UB!Levels :
          b.node \in UB!NodesAt(lx) /\ b.addr = UB!StartSlot(b.node, lx) + 1
    BY PlacesB
  <2>2. PICK ly \in UB!Levels :
          c.node \in UB!NodesAt(ly) /\ c.addr = UB!StartSlot(c.node, ly) + 1
    BY PlacesB
  <2>3. b.node \notin UB!Path(c.node) /\ c.node \notin UB!Path(b.node)
    BY OwnersB
  <2> QED
    BY <2>1, <2>2, <2>3, StartsApartB
<1>2. \A s \in UB!HeapSlots :
        HeadersB[s] = IF \E c \in live_a : c.addr = s + 1 THEN header_a[s] ELSE header_b[s]
  BY DEF HeadersB, HeapSlots, UB!HeapSlots, BUDDY_ARENA_SIZE, UB!BUDDY_ARENA_SIZE
<1>3. \A b \in live_a \cup live_b : b.addr - 1 \in UB!HeapSlots /\ (b.addr - 1) + 1 = b.addr
  <2> SUFFICES ASSUME NEW b \in live_a \cup live_b
               PROVE  b.addr - 1 \in UB!HeapSlots /\ (b.addr - 1) + 1 = b.addr
    OBVIOUS
  <2>1. b.addr \in UB!DataSlots
    BY OwnersB DEF UB!Blocks
  <2>2. UB!BUDDY_ARENA_SIZE \in Nat
    BY UB!TreeSizes, TreeAssumption, ArenaAssumption, PowersOfTwo, RequestsAssumption
  <2> QED
    BY <2>1, <2>2, TreeAssumption DEF UB!DataSlots, UB!HeapSlots
<1>4. \A b \in live_b : HeadersB[b.addr - 1] = header_b[b.addr - 1]
  BY <1>1, <1>2, <1>3
<1>5. \A b \in live_a : HeadersB[b.addr - 1] = header_a[b.addr - 1]
  BY <1>2, <1>3
<1>6. UB!Placed
  BY <1>4, <1>5, PlacesB DEF UB!Placed
<1>7. UB!TypeOK
  <2>1. HeadersB \in [UB!HeapSlots -> UB!Levels \cup {UB!NoHeader}]
    BY OwnersB
       DEF HeadersB, HeapSlots, UB!HeapSlots, BUDDY_ARENA_SIZE, UB!BUDDY_ARENA_SIZE
  <2> QED
    BY <2>1, OwnersB DEF UB!TypeOK
<1> QED
  BY <1>1, <1>4, <1>6, <1>7, OwnersB DEF UB!HeapInv

\* B call of the second machine is a call of the joint one.
LEMMA CallsB ==
  ASSUME TwoInv, UNCHANGED a_vars
  PROVE  /\ \A n \in Sizes : B!Malloc(n) => UB!Malloc(n)
         /\ \A block \in live_b : B!FreeBlock(block) => UB!FreeBlock(block)
<1>1. header_a' = header_a /\ live_a' = live_a /\ ret_a' = ret_a
  BY DEF a_vars
<1>2. ASSUME header_b' = header_b PROVE HeadersB' = HeadersB
  BY <1>1, <1>2 DEF HeadersB
<1>3. ASSUME NEW n \in Sizes, B!MallocRefused(n) PROVE UB!MallocRefused(n)
  BY <1>1, <1>2, <1>3
     DEF UB!MallocRefused, B!MallocRefused, UB!Fails, B!Fails, UB!TotalSlots, B!TotalSlots,
         UB!BUDDY_ARENA_SIZE, B!BUDDY_ARENA_SIZE, UB!FAIL, B!FAIL
<1>4. ASSUME NEW n \in Sizes, B!MallocFull(n) PROVE UB!MallocFull(n)
  <2>1. PICK lvl \in B!Levels :
          /\ B!Searches(n, lvl)
          /\ B!Candidates(heap_alloc_mask, heap_split_mask, lvl) = {}
          /\ B!Fails(n)
    BY <1>4 DEF B!MallocFull
  <2>2. lvl \in UB!Levels /\ UB!Searches(n, lvl) /\ UB!Fails(n)
    BY <1>1, <1>2, <2>1
       DEF UB!Levels, B!Levels, UB!Searches, B!Searches, UB!Fails, B!Fails, UB!TotalSlots,
           B!TotalSlots, UB!BUDDY_ARENA_SIZE, B!BUDDY_ARENA_SIZE, UB!IsTargetLevel,
           B!IsTargetLevel, UB!BlockSlots, B!BlockSlots, UB!FAIL, B!FAIL
  <2>3. UB!Candidates(heap_alloc_mask, heap_split_mask, lvl) = {}
    BY <2>1
       DEF UB!Candidates, B!Candidates, UB!NodesAt, B!NodesAt, UB!get_index_level,
           B!get_index_level, UB!Path, B!Path, UB!Nodes, B!Nodes, UB!LastNode, B!LastNode,
           UB!Levels, B!Levels
  <2> QED
    BY <2>2, <2>3 DEF UB!MallocFull
<1>5. ASSUME NEW n \in Sizes, B!MallocOk(n) PROVE UB!MallocOk(n)
  <2>1. PICK lvl \in UB!Levels, node \in UB!Nodes :
          /\ UB!Searches(n, lvl)
          /\ UB!FirstOf(UB!Candidates(heap_alloc_mask, heap_split_mask, lvl), node)
          /\ heap_split_mask' = UB!SplitPath(heap_split_mask, node)
          /\ heap_alloc_mask' = UB!MarkAllocated(heap_alloc_mask, node)
          /\ header_b' = [header_b EXCEPT ![UB!StartSlot(node, lvl)] = lvl]
          /\ live_b' = live_b \cup {[addr |-> UB!StartSlot(node, lvl) + 1,
                                     slots |-> n, node |-> node]}
          /\ ret_b' = [slots |-> n, addr |-> UB!StartSlot(node, lvl) + 1]
    BY <1>5
       DEF UB!MallocOk, B!MallocOk, UB!Levels, B!Levels, UB!Nodes, B!Nodes, UB!LastNode,
           B!LastNode, UB!Searches, B!Searches, UB!TotalSlots, B!TotalSlots,
           UB!BUDDY_ARENA_SIZE, B!BUDDY_ARENA_SIZE, UB!IsTargetLevel, B!IsTargetLevel,
           UB!BlockSlots, B!BlockSlots, UB!FirstOf, B!FirstOf, UB!Candidates, B!Candidates,
           UB!NodesAt, B!NodesAt, UB!get_index_level, B!get_index_level, UB!Path, B!Path,
           UB!Ancestors, B!Ancestors, UB!SplitPath, B!SplitPath, UB!MarkAllocated,
           B!MarkAllocated, UB!Sibling, B!Sibling, UB!StartSlot, B!StartSlot
  <2> DEFINE start == UB!StartSlot(node, lvl)
  <2>2. /\ node \in UB!NodesAt(lvl) /\ node \notin heap_split_mask
        /\ UB!Path(node) \cap heap_alloc_mask = {} /\ node \in UB!Path(node)
    BY <2>1, UB!SelfOnPath, TreeAssumption, ArenaAssumption, PowersOfTwo, RequestsAssumption
       DEF UB!FirstOf, UB!Candidates
  <2>3. \A c \in live_a : c.node \notin UB!Path(node) /\ node \notin UB!Path(c.node)
    BY <2>2, OwnersB DEF UB!NoNesting, UB!Ancestors
  <2>4. start \in UB!HeapSlots /\ start \in Nat /\ \A c \in live_a : c.addr # start + 1
    <3>1. start \in UB!HeapSlots /\ start \in Nat
      <4>1. UB!BUDDY_ARENA_SIZE \in Nat /\ UB!BlockSlots(lvl) \in Nat \ {0}
        BY <2>2, UB!TreeSizes, UB!BlocksInArena, TreeAssumption, ArenaAssumption,
           PowersOfTwo, RequestsAssumption
      <4>2. /\ start \in Nat /\ HEAP_RAM_START <= start
            /\ start + UB!BlockSlots(lvl) <= HEAP_RAM_START + UB!BUDDY_ARENA_SIZE
        BY <2>2, UB!BlocksInArena, TreeAssumption, ArenaAssumption, PowersOfTwo,
           RequestsAssumption
      <4> HIDE DEF start
      <4> QED
        BY <4>1, <4>2, TreeAssumption DEF UB!HeapSlots
    <3>2. ASSUME NEW c \in live_a PROVE c.addr # start + 1
      <4>1. PICK ly \in UB!Levels :
              c.node \in UB!NodesAt(ly) /\ c.addr = UB!StartSlot(c.node, ly) + 1
        BY PlacesB
      <4>2. start # UB!StartSlot(c.node, ly) /\ UB!StartSlot(c.node, ly) \in Nat
        BY <2>2, <2>3, <4>1, StartsApartB
      <4> HIDE DEF start
      <4> QED
        BY <3>1, <4>1, <4>2
    <3> QED
      BY <3>1, <3>2
  <2>5. HeadersB' = [HeadersB EXCEPT ![start] = lvl]
    <3>1. /\ HeadersB' = [s \in HeapSlots |-> IF \E b \in live_a : b.addr = s + 1
                                              THEN header_a[s] ELSE header_b'[s]]
          /\ start \in HeapSlots /\ header_b \in [HeapSlots -> UB!Levels \cup {UB!NoHeader}]
      BY <1>1, <2>4, OwnersB
         DEF HeadersB, HeapSlots, UB!HeapSlots, BUDDY_ARENA_SIZE, UB!BUDDY_ARENA_SIZE
    <3>2. header_b' = [header_b EXCEPT ![start] = lvl]
      BY <2>1
    <3> HIDE DEF start
    <3> QED
      BY <2>4, <3>1, <3>2 DEF HeadersB
  <2>6. (live_a \cup live_b)'
          = (live_a \cup live_b) \cup {[addr |-> start + 1, slots |-> n, node |-> node]}
    BY <1>1, <2>1
  <2> QED
    BY <2>1, <2>5, <2>6 DEF UB!MallocOk
<1>6. ASSUME NEW block \in live_b, B!FreeBlock(block) PROVE UB!FreeBlock(block)
  <2>1. block.addr - 1 \in UB!HeapSlots /\ B!HeaderSlot(block.addr) = block.addr - 1
    <3>1. block.addr \in UB!DataSlots
      BY OwnersB DEF UB!Blocks
    <3>2. UB!BUDDY_ARENA_SIZE \in Nat /\ UB!BUDDY_ARENA_SIZE <= HEAP_RAM_SIZE
      BY UB!TreeSizes, TreeAssumption, ArenaAssumption, PowersOfTwo, RequestsAssumption
         DEF UB!BUDDY_ARENA_SIZE
    <3>3. block.addr - 1 \in 0..(WORD_MOD - 1)
      BY <3>1, <3>2, TreeAssumption, ArenaAssumption DEF UB!DataSlots
    <3>4. (block.addr - 1) % WORD_MOD = block.addr - 1
      BY <3>3, TreeAssumption
    <3> QED
      BY <3>1, <3>2, <3>4, TreeAssumption DEF UB!DataSlots, UB!HeapSlots, B!HeaderSlot
  <2>2. UB!HeaderSlot(block.addr) = B!HeaderSlot(block.addr)
    BY DEF UB!HeaderSlot, B!HeaderSlot
  <2>3. HeadersB[B!HeaderSlot(block.addr)] = header_b[B!HeaderSlot(block.addr)]
    BY <2>1, JointB
  <2>4. live_b' = live_b \ {block} /\ B!Release(block.addr) /\ header_b' = header_b
        /\ ret_b' = ret_b
    BY <1>6 DEF B!FreeBlock, B!Release
  <2>5. UB!Release(block.addr)
    BY <1>2, <2>2, <2>3, <2>4
       DEF UB!Release, B!Release, UB!Accepted, B!Accepted, UB!HeapSlots, B!HeapSlots,
           UB!BUDDY_ARENA_SIZE, B!BUDDY_ARENA_SIZE, UB!Levels, B!Levels, UB!BlockSlots,
           B!BlockSlots, UB!RecoveredNode, B!RecoveredNode, UB!get_index_level,
           B!get_index_level, UB!ClearAllocated, B!ClearAllocated, UB!Coalesce, B!Coalesce,
           UB!Ancestors, B!Ancestors, UB!Path, B!Path, UB!Nodes, B!Nodes, UB!LastNode,
           B!LastNode, UB!Sibling, B!Sibling
  <2>6. (live_a \cup live_b)' = (live_a \cup live_b) \ {block}
    BY <1>1, <2>4, JointB
  <2> QED
    BY <2>5, <2>6 DEF UB!FreeBlock
<1> QED
  BY <1>3, <1>4, <1>5, <1>6 DEF B!Malloc, UB!Malloc

\* What the second machine asks for it gets as from the joint heap.
LEMMA AnswersB ==
  ASSUME TwoInv, StepOfB
  PROVE  \/ \E n \in Sizes : OfB!Alloc(n) \/ OfB!Refuse(n)
         \/ \E b \in live_b : OfB!Free(Seen(b))
         \/ UNCHANGED <<live_b, live_a, ret_b, ret_a>>
<1>1. ASSUME NEW n \in Sizes, B!Malloc(n) PROVE OfB!Alloc(n) \/ OfB!Refuse(n)
  <2>1. UB!HeapInv /\ UB!MarksInv /\ UB!Malloc(n)
    BY <1>1, JointB, CallsB DEF StepOfB
  <2>2. UB!Promise!Alloc(n) \/ UB!Promise!Refuse(n)
    BY <2>1, UB!AllocStep, UB!RefuseStep, TreeAssumption, ArenaAssumption, PowersOfTwo,
       RequestsAssumption
       DEF UB!Malloc
  <2> QED
    BY <2>2
       DEF UB!Promise!Alloc, OfB!Alloc, UB!Promise!Refuse, OfB!Refuse, UB!Promise!FreeRuns,
           OfB!FreeRuns, UB!Promise!Run, OfB!Run, UB!Promise!Rounded, OfB!Rounded,
           UB!Promise!RunSizes, OfB!RunSizes, UB!Promise!ArenaSize, OfB!ArenaSize,
           UB!Promise!Nowhere, OfB!Nowhere, Seen
<1>2. ASSUME NEW block \in live_b, B!FreeBlock(block) PROVE OfB!Free(Seen(block))
  <2>1. UB!HeapInv /\ UB!FreeBlock(block) /\ block \in live_a \cup live_b
    BY <1>2, JointB, CallsB DEF StepOfB
  <2>2. UB!Promise!Free([addr |-> block.addr, slots |-> block.slots])
    BY <2>1, UB!FreeStep, TreeAssumption, ArenaAssumption, PowersOfTwo, RequestsAssumption
  <2> QED
    BY <2>2 DEF UB!Promise!Free, OfB!Free, Seen
<1>3. ASSUME B!FreeRejected(B!FAIL) PROVE UNCHANGED <<live_b, live_a, ret_b, ret_a>>
  BY <1>3 DEF B!FreeRejected, B!vars, StepOfB, a_vars
<1> QED
  BY <1>1, <1>2, <1>3 DEF StepOfB, B!Next

\* The two are two programs on one heap that neither sees the tree of: whoever
\* asks gets the lowest run of words that neither uses, and fails only when there
\* is none, for every size of the arena.
THEOREM MachinesShareHeap == Spec => OneHeap
<1>1. Init => OfA!Init /\ OfB!Init
  BY DEF Init, A!Init, B!Init, OfA!Init, OfB!Init, OfA!Nowhere, OfB!Nowhere, A!FAIL, B!FAIL
<1>2. TwoInv /\ [Next]_twoVars => [CallOfA \/ CallOfB]_<<live_a, live_b, ret_a, ret_b>>
  <2> SUFFICES ASSUME TwoInv, [Next]_twoVars
               PROVE  CallOfA \/ CallOfB \/ UNCHANGED <<live_a, live_b, ret_a, ret_b>>
    OBVIOUS
  <2>1. CASE StepOfA
    <3>1. ret_b' = ret_b
      BY <2>1 DEF StepOfA, b_vars
    <3> QED
      BY <2>1, <3>1, AnswersA DEF CallOfA
  <2>2. CASE StepOfB
    <3>1. ret_a' = ret_a
      BY <2>2 DEF StepOfB, a_vars
    <3> QED
      BY <2>2, <3>1, AnswersB DEF CallOfB
  <2>3. CASE UNCHANGED twoVars
    BY <2>3 DEF twoVars, a_vars, b_vars
  <2> QED
    BY <2>1, <2>2, <2>3 DEF Next
<1> QED
  BY <1>1, <1>2, TwoInvariant, PTL DEF Spec, OneHeap

=============================================================================
