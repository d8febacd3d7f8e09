------------------------------- MODULE HeapSpec --------------------------------
(****************************************************************************)
(* What the heap of the VM promises to the program that calls HALLOC and    *)
(* HFREE, without masks or trees: a request of n words gets the lowest      *)
(* aligned run of free words whose length is the least power of two that    *)
(* holds n words and a header, and fails only when there is none.           *)
(* BuddyHeap implements it.                                                 *)
(****************************************************************************)
EXTENDS Integers, FiniteSets

CONSTANTS
  Order,       \* the arena has 2^Order words
  Start,       \* address of its first word
  WordMod,     \* 2^w of the address arithmetic
  Requests     \* the sizes the program asks for

VARIABLES
  blocks,      \* the live blocks: address of the data, words asked for
  answer       \* the last request and what it got

vars == <<blocks, answer>>

Nowhere == WordMod - 1

ArenaSize == 2^Order
RunSizes == {2^k : k \in 0..Order}

\* The least power of two that holds n words and the header.
Rounded(n) ==
  CHOOSE size \in RunSizes :
    /\ n + 1 <= size
    /\ \A other \in RunSizes : n + 1 <= other => size <= other

Run(first, n) == first..(first + Rounded(n) - 1)

\* The first words of the aligned free runs that would hold n words.
FreeRuns(n) ==
  IF n + 1 > ArenaSize THEN {}
  ELSE {first \in {Start + k * Rounded(n) : k \in 0..(ArenaSize \div Rounded(n) - 1)} :
          \A b \in blocks : Run(first, n) \cap Run(b.addr - 1, b.slots) = {}}

Init == blocks = {} /\ answer = [slots |-> 0, addr |-> Nowhere]

Alloc(n) ==
  \E first \in FreeRuns(n) :
    /\ answer' = [slots |-> n, addr |-> first + 1]
    /\ blocks' = blocks \cup {[addr |-> first + 1, slots |-> n]}
    /\ \A other \in FreeRuns(n) : first <= other

Refuse(n) ==
  /\ answer' = [slots |-> n, addr |-> Nowhere]
  /\ FreeRuns(n) = {}
  /\ UNCHANGED blocks

Free(b) ==
  /\ blocks' = blocks \ {b}
  /\ UNCHANGED answer

Next ==
  \/ \E n \in Requests : Alloc(n) \/ Refuse(n)
  \/ \E b \in blocks : Free(b)

Spec == Init /\ [][Next]_vars

=============================================================================
