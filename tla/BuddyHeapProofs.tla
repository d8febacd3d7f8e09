---------------------------- MODULE BuddyHeapProofs ----------------------------
(****************************************************************************)
(* Theorems about the buddy allocator, for every size of the arena and      *)
(* every set of requests, and the facts about the tree they rest on; and    *)
(* that the recursion and the loops of the code compute what the model says.*)
(****************************************************************************)
EXTENDS BuddySearch, WellFoundedInduction, TLAPS

----------------------------------------------------------------------------
(* The tree.  The sequence idx + 1, (idx + 1) \div 2, (idx + 1) \div 4, ... is *)
(* the path to the root shifted by one.                                     *)

\* A set of natural numbers that is not empty has a least one.
LEMMA LeastNumber ==
  ASSUME NEW T \in SUBSET Nat, T # {}
  PROVE  \E n \in T : \A k \in T : n <= k
<1> DEFINE R == OpToRel(<, Nat)
<1>1. IsWellFoundedOn(R, Nat)
  BY NatLessThanWellFounded
<1>2. PICK n \in T : \A k \in T : ~ (<<k, n>> \in R)
  <2> HIDE DEF R
  <2> QED
    BY <1>1, WFMin
<1>3. \A k \in T : ~(k < n)
  BY <1>2 DEF OpToRel
<1> HIDE DEF R
<1> QED
  BY <1>3

\* Powers of two multiply, as far as the levels go.
LEMMA PowerSum ==
  \A j \in Nat, k \in Nat : j + k <= MaxLevel => 2^(j + k) = 2^j * 2^k
<1> SUFFICES ASSUME NEW j \in Nat PROVE \A k \in Nat : j + k <= MaxLevel => 2^(j + k) = 2^j * 2^k
  OBVIOUS
<1> DEFINE T == {k \in Nat : j + k <= MaxLevel /\ 2^(j + k) # 2^j * 2^k}
<1>1. SUFFICES ASSUME T # {} PROVE FALSE
  OBVIOUS
<1>2. PICK k \in T : \A m \in T : k <= m
  BY <1>1, LeastNumber
<1>3. k \in Nat /\ j + k <= MaxLevel /\ 2^(j + k) # 2^j * 2^k /\ MaxLevel \in Nat
  BY TreeAssumption
<1>4. j \in 0..MaxLevel /\ 2^j \in Nat
  BY <1>3, PowersOfTwo
<1>5. k # 0
  <2> SUFFICES ASSUME k = 0 PROVE FALSE
    OBVIOUS
  <2>1. j + k = j /\ 2^k = 1
    BY PowersOfTwo
  <2> QED
    BY <1>3, <1>4, <2>1
<1>6. PICK m \in Nat : k = m + 1
  BY <1>3, <1>5
<1>7. 2^(j + m) = 2^j * 2^m
  BY <1>2, <1>3, <1>6
<1>8. 2^((j + m) + 1) = 2 * 2^(j + m) /\ 2^(m + 1) = 2 * 2^m /\ 2^m \in Nat
  <2>1. j + m \in 0..MaxLevel /\ m \in 0..MaxLevel
    BY <1>3, <1>6
  <2> QED
    BY <2>1, PowersOfTwo
<1>9. j + k = (j + m) + 1
  BY <1>6
<1>10. 2^(j + k) = 2 * (2^j * 2^m)
  BY <1>7, <1>8, <1>9
<1>11. 2^k = 2 * 2^m
  BY <1>6, <1>8
<1>12. PICK a \in Nat, b \in Nat : a = 2^j /\ b = 2^m
  BY <1>4, <1>8
<1>13. 2 * (a * b) = a * (2 * b)
  OBVIOUS
<1> QED
  BY <1>3, <1>10, <1>11, <1>12, <1>13

\* Powers of two grow with the exponent.
LEMMA PowersGrow ==
  ASSUME NEW j \in Levels, NEW k \in Levels, j <= k
  PROVE  2^j <= 2^k
<1>1. PICK m \in Levels : k = j + m /\ j \in Nat /\ m \in Nat
  <2>1. k - j \in Levels /\ k = j + (k - j)
    BY TreeAssumption DEF Levels
  <2> QED
    BY <2>1, TreeAssumption DEF Levels
<1>2. PICK a \in Nat \ {0}, b \in Nat \ {0} : a = 2^j /\ b = 2^m
  BY <1>1, PowersOfTwo DEF Levels
<1>3. 2^k = a * b
  BY <1>1, <1>2, PowerSum DEF Levels
<1>4. a <= a * b
  OBVIOUS
<1> QED
  BY <1>2, <1>3, <1>4

\* Sizes of the tree are natural numbers.
LEMMA TreeSizes ==
  /\ LastNode \in Nat
  /\ BUDDY_ARENA_SIZE \in Nat \ {0}
  /\ \A k \in Levels : 2^k \in Nat \ {0} /\ 2^(k + 1) \in Nat
  /\ LastNode + 2 = 2 * 2^MaxLevel
<1>1. MaxLevel \in 0..MaxLevel
  BY TreeAssumption
<1> QED
  BY <1>1, TreeAssumption, PowersOfTwo DEF LastNode, BUDDY_ARENA_SIZE, Levels

\* A node lies on its own path.
LEMMA SelfOnPath == \A i \in Nodes : i \in Path(i)
<1> TAKE i \in Nodes
<1>1. 0 \in Levels /\ 2^0 = 1
  BY TreeAssumption, PowersOfTwo DEF Levels
<1>2. i + 1 = (i + 1) \div 2^0
  BY <1>1, TreeSizes DEF Nodes
<1> QED
  BY <1>1, <1>2 DEF Path

\* Paths go up: no node of a path is larger than its start.
LEMMA PathBelow == \A i \in Nodes : \A x \in Path(i) : x \in Nodes /\ x <= i
<1> TAKE i \in Nodes
<1> TAKE x \in Path(i)
<1>1. PICK k \in Levels : x + 1 = (i + 1) \div 2^k
  BY DEF Path
<1>2. 2^k \in Nat \ {0}
  BY TreeSizes
<1>3. \A n \in Nat, b \in Nat \ {0} : n \div b <= n
  OBVIOUS
<1> QED
  BY <1>1, <1>2, <1>3, TreeSizes DEF Path, Nodes

\* The two divisions of the walk to the root compose.
LEMMA DivTwice ==
  ASSUME NEW n \in Nat, NEW b \in Nat \ {0}
  PROVE  n \div (2 * b) = (n \div b) \div 2
OBVIOUS

\* A node above another on its path, with the power of two between them.
LEMMA PathStep ==
  ASSUME NEW i \in Nodes, NEW x \in Path(i)
  PROVE  \E k \in Levels : /\ 2^k \in Nat \ {0}
                           /\ 2^(k + 1) = 2 * 2^k
                           /\ x + 1 = (i + 1) \div 2^k
                           /\ Parent(x) + 1 = (i + 1) \div (2 * 2^k)
<1>1. PICK k \in Levels : x + 1 = (i + 1) \div 2^k
  BY DEF Path
<1>2. 2^k \in Nat \ {0} /\ 2^(k + 1) = 2 * 2^k
  BY PowersOfTwo DEF Levels
<1>3. x \in Nat /\ i \in Nat /\ i + 1 \in Nat
  BY TreeSizes DEF Path, Nodes
<1>4. (i + 1) \div (2 * 2^k) = ((i + 1) \div 2^k) \div 2
  BY <1>2, <1>3, DivTwice
<1>5. Parent(x) + 1 = (x + 1) \div 2
  BY <1>3 DEF Parent
<1> QED
  BY <1>1, <1>2, <1>4, <1>5

\* The parent of a node of a path is on the path.
LEMMA ParentOnPath ==
  \A i \in Nodes : \A x \in Path(i) :
    x # 0 => Parent(x) \in Path(i) /\ Parent(x) < x
<1> SUFFICES ASSUME NEW i \in Nodes, NEW x \in Path(i), x # 0
             PROVE  Parent(x) \in Path(i) /\ Parent(x) < x
  OBVIOUS
<1>1. PICK k \in Levels : /\ 2^k \in Nat \ {0}
                         /\ 2^(k + 1) = 2 * 2^k
                         /\ x + 1 = (i + 1) \div 2^k
                         /\ Parent(x) + 1 = (i + 1) \div (2 * 2^k)
  BY PathStep
<1>2. k \in Nat /\ k <= MaxLevel /\ MaxLevel \in Nat
  BY TreeAssumption DEF Levels
<1>3. x \in Nat /\ i \in Nat /\ x > 0 /\ i <= LastNode /\ LastNode \in Nat
  BY TreeSizes DEF Path, Nodes
<1>4. k # MaxLevel
  <2> SUFFICES ASSUME k = MaxLevel PROVE FALSE
    OBVIOUS
  <2>1. PICK b \in Nat \ {0} : b = 2^k
    BY <1>1
  <2>2. i + 1 < 2 * b /\ x + 1 = (i + 1) \div b
    BY <1>1, <1>3, <2>1, TreeSizes
  <2> QED
    BY <2>2, <1>3
<1>5. k + 1 \in Levels
  BY <1>2, <1>4 DEF Levels
<1>6. Parent(x) \in Nodes /\ Parent(x) < x
  BY <1>3, TreeSizes DEF Parent, Nodes, Path
<1> QED
  BY <1>1, <1>5, <1>6 DEF Path

\* Every node of a path but its start has a child on the path.
LEMMA ChildOnPath ==
  \A i \in Nodes : \A x \in Path(i) :
    x # i => \E c \in Path(i) : Parent(c) = x /\ c > x
<1> SUFFICES ASSUME NEW i \in Nodes, NEW x \in Path(i), x # i
             PROVE  \E c \in Path(i) : Parent(c) = x /\ c > x
  OBVIOUS
<1>1. PICK k \in Levels : x + 1 = (i + 1) \div 2^k
  BY DEF Path
<1>2. x \in Nat /\ i \in Nat /\ i <= LastNode /\ LastNode \in Nat
  BY TreeSizes DEF Path, Nodes
<1>3. k # 0
  <2> SUFFICES ASSUME k = 0 PROVE FALSE
    OBVIOUS
  <2>1. x + 1 = (i + 1) \div 1
    BY <1>1, PowersOfTwo
  <2> QED
    BY <2>1, <1>2
<1>4. k - 1 \in Levels /\ k = (k - 1) + 1
  BY <1>3, TreeAssumption DEF Levels
<1>5. PICK b \in Nat \ {0} : b = 2^(k - 1) /\ 2^k = 2 * b
  BY <1>4, PowersOfTwo DEF Levels
<1> DEFINE c == ((i + 1) \div b) - 1
<1>6. (i + 1) \div b \in Nat /\ (i + 1) \div b <= i + 1
  BY <1>2
<1>7. x + 1 = ((i + 1) \div b) \div 2
  BY <1>1, <1>2, <1>5, DivTwice
<1>8. c \in Nat /\ c <= i /\ c + 1 = (i + 1) \div b
  BY <1>2, <1>6, <1>7
<1>9. c \in Path(i)
  BY <1>2, <1>4, <1>5, <1>8 DEF Path, Nodes
<1>10. Parent(c) = x /\ c > x
  <2> HIDE DEF c
  <2> QED
    BY <1>2, <1>7, <1>8 DEF Parent
<1> QED
  BY <1>9, <1>10

\* Division is antitone in the divisor.
LEMMA DivAntitone ==
  ASSUME NEW n \in Nat, NEW b \in Nat \ {0}, NEW c \in Nat \ {0}, b <= c
  PROVE  n \div c <= n \div b
<1> DEFINE q == n \div c
<1>1. q \in Nat /\ q * c <= n
  OBVIOUS
<1>2. q * b <= q * c
  <2> HIDE DEF q
  <2> QED
    BY <1>1
<1>3. q * b \in Nat /\ q * b <= n
  <2> HIDE DEF q
  <2> QED
    BY <1>1, <1>2
<1>4. q <= n \div b
  <2> HIDE DEF q
  <2> QED
    BY <1>1, <1>3
<1> QED
  BY <1>4

\* Of two nodes of a path the upper one is at most the parent of the lower.
LEMMA PathOrder ==
  \A i \in Nodes : \A x, y \in Path(i) : x < y => x <= Parent(y)
<1> SUFFICES ASSUME NEW i \in Nodes, NEW x \in Path(i), NEW y \in Path(i), x < y
             PROVE  x <= Parent(y)
  OBVIOUS
<1>1. PICK k \in Levels : x + 1 = (i + 1) \div 2^k /\ 2^k \in Nat \ {0}
  BY TreeSizes DEF Path
<1>2. PICK j \in Levels : /\ 2^j \in Nat \ {0}
                         /\ 2^(j + 1) = 2 * 2^j
                         /\ y + 1 = (i + 1) \div 2^j
                         /\ Parent(y) + 1 = (i + 1) \div (2 * 2^j)
  BY PathStep
<1>3. i + 1 \in Nat /\ x \in Nat /\ y \in Nat
  BY TreeSizes DEF Path, Nodes
<1>4. j < k
  <2> SUFFICES ASSUME k <= j PROVE FALSE
    BY DEF Levels
  <2>1. 2^k <= 2^j
    BY PowersGrow
  <2>2. (i + 1) \div 2^j <= (i + 1) \div 2^k
    BY <1>1, <1>2, <1>3, <2>1, DivAntitone
  <2> QED
    BY <1>1, <1>2, <1>3, <2>2
<1>5. 2 * 2^j <= 2^k
  <2>1. j + 1 \in Levels /\ j + 1 <= k
    BY <1>4, TreeAssumption DEF Levels
  <2> QED
    BY <1>2, <2>1, PowersGrow
<1>6. (i + 1) \div 2^k <= (i + 1) \div (2 * 2^j)
  <2>1. 2 * 2^j \in Nat \ {0}
    BY <1>2
  <2> QED
    BY <1>1, <1>3, <1>5, <2>1, DivAntitone
<1> QED
  BY <1>1, <1>2, <1>3, <1>6 DEF Parent

\* Two children of one node are each other's sibling.
LEMMA SameParent ==
  ASSUME NEW c \in Nat \ {0}, NEW e \in Nat \ {0}, Parent(c) = Parent(e), c # e
  PROVE  Sibling(c) = e
BY DEF Parent, Sibling

\* The sibling of a node of a path is off the path.
LEMMA SiblingOffPath ==
  \A i \in Nodes : \A c \in Path(i) : c # 0 => Sibling(c) \notin Path(i)
<1> SUFFICES ASSUME NEW i \in Nodes, NEW c \in Path(i), c # 0, Sibling(c) \in Path(i)
             PROVE  FALSE
  OBVIOUS
<1>1. c \in Nat /\ c > 0
  BY TreeSizes DEF Path, Nodes
<1>2. /\ Sibling(c) # c /\ Sibling(c) \in Nat /\ Sibling(c) > 0
      /\ Parent(Sibling(c)) = Parent(c) /\ Parent(c) < c /\ Parent(c) < Sibling(c)
  BY <1>1 DEF Sibling, Parent
<1>3. CASE c < Sibling(c)
  BY <1>1, <1>2, <1>3, PathOrder DEF Parent
<1>4. CASE Sibling(c) < c
  BY <1>1, <1>2, <1>4, PathOrder DEF Parent
<1> QED
  BY <1>1, <1>2, <1>3, <1>4

\* A set of nodes that is not empty has a largest one.
LEMMA LargestNode ==
  ASSUME NEW S \in SUBSET Nodes, S # {}
  PROVE  \E m \in S : \A x \in S : x <= m
<1> DEFINE R == OpToRel(<, Nat)
           T == {n \in Nat : LastNode - n \in S}
<1>1. T # {}
  <2>1. PICK x \in S : TRUE
    OBVIOUS
  <2>2. LastNode - x \in Nat /\ LastNode - (LastNode - x) = x
    BY <2>1, TreeSizes DEF Nodes
  <2> QED
    BY <2>1, <2>2
<1>2. IsWellFoundedOn(R, Nat)
  BY NatLessThanWellFounded
<1>3. PICK n \in T : \A k \in T : ~ (<<k, n>> \in R)
  <2>1. T \subseteq Nat
    OBVIOUS
  <2> HIDE DEF R, T
  <2> QED
    BY <1>1, <1>2, <2>1, WFMin
<1>4. \A k \in T : ~(k < n)
  BY <1>3 DEF OpToRel
<1>5. \A x \in S : x <= LastNode - n
  <2> TAKE x \in S
  <2>1. LastNode - x \in Nat /\ LastNode - (LastNode - x) = x /\ x \in Nat
    BY TreeSizes DEF Nodes
  <2>2. LastNode - x \in T
    BY <2>1
  <2>3. ~(LastNode - x < n) /\ n \in Nat
    BY <1>4, <2>2
  <2> HIDE DEF R, T
  <2> QED
    BY <2>1, <2>3, TreeSizes
<1> QED
  BY <1>5

\* Two paths of which neither contains the start of the other part at a node
\* whose two children lie on one path each, below any node they share.
LEMMA PathsPart ==
  ASSUME NEW i \in Nodes, NEW b \in Nodes, i \notin Path(b), b \notin Path(i),
         NEW a \in Path(i), a \in Path(b)
  PROVE  \E c \in Path(i) : c > a /\ Sibling(c) \in Path(b)
<1> DEFINE S == Path(i) \cap Path(b)
<1>1. PICK m \in S : \A x \in S : x <= m
  <2>1. S \in SUBSET Nodes /\ S # {}
    BY DEF Path
  <2> QED
    BY <2>1, LargestNode
<1>2. m # i /\ m # b
  OBVIOUS
<1>3. PICK c \in Path(i) : Parent(c) = m /\ c > m
  BY <1>2, ChildOnPath
<1>4. PICK e \in Path(b) : Parent(e) = m /\ e > m
  BY <1>2, ChildOnPath
<1>5. a \in Nat /\ m \in Nat /\ c \in Nat \ {0} /\ e \in Nat \ {0} /\ a <= m
  BY <1>1, <1>3, <1>4, TreeSizes DEF Path, Nodes
<1>6. c # e
  BY <1>1, <1>3, <1>4, <1>5
<1>7. Sibling(c) = e
  BY <1>3, <1>4, <1>5, <1>6, SameParent
<1> QED
  BY <1>3, <1>4, <1>5, <1>7

\* Two paths that meet are one from there up to the root.
LEMMA PathsMeet ==
  ASSUME NEW i \in Nodes, NEW b \in Nodes, NEW m \in Path(i), m \in Path(b),
         NEW a \in Path(i), a <= m
  PROVE  a \in Path(b)
<1> DEFINE S == {x \in Path(i) : x <= m /\ x \notin Path(b)}
<1> SUFFICES ASSUME S # {} PROVE FALSE
  OBVIOUS
<1>1. PICK x \in S : \A y \in S : y <= x
  <2>1. S \in SUBSET Nodes
    BY DEF Path
  <2> QED
    BY <2>1, LargestNode
<1>2. x \in Nat /\ m \in Nat /\ i \in Nat /\ x < m /\ m <= i
  BY PathBelow, TreeSizes DEF Nodes
<1>3. PICK c \in Path(i) : Parent(c) = x /\ c > x
  BY <1>2, ChildOnPath
<1>4. c \in Nat /\ c # 0
  BY <1>2, <1>3, TreeSizes DEF Path, Nodes
<1>5. c <= m
  BY <1>2, <1>3, <1>4, PathOrder
<1>6. c \in Path(b)
  BY <1>1, <1>2, <1>3, <1>4, <1>5
<1> QED
  BY <1>3, <1>4, <1>6, ParentOnPath

\* The blocks of a level are not empty and lie inside the arena.
LEMMA BlocksInArena ==
  ASSUME NEW lvl \in Levels, NEW node \in NodesAt(lvl)
  PROVE  /\ BlockSlots(lvl) \in Nat \ {0}
         /\ StartSlot(node, lvl) \in Nat
         /\ HEAP_RAM_START <= StartSlot(node, lvl)
         /\ StartSlot(node, lvl) + BlockSlots(lvl)
              <= HEAP_RAM_START + BUDDY_ARENA_SIZE
<1>1. PICK b \in Nat \ {0} : b = 2^lvl /\ 2^(lvl + 1) = 2 * b
  BY PowersOfTwo DEF Levels
<1>2. PICK A \in Nat \ {0} : A = BUDDY_ARENA_SIZE
  BY TreeSizes
<1>3. b <= A
  <2>1. MaxLevel \in Levels /\ lvl <= MaxLevel
    BY TreeAssumption DEF Levels
  <2> QED
    BY <1>1, <1>2, <2>1, PowersGrow DEF BUDDY_ARENA_SIZE
<1>4. PICK q \in Nat : q = A \div b
  BY <1>1
<1>5. q * b <= A /\ q # 0
  BY <1>3, <1>4
<1>6. PICK off \in Nat : off = node - get_index_level(lvl) /\ off <= b - 1
  BY <1>1 DEF NodesAt, get_index_level
<1>7. off * q + q <= A /\ off * q \in Nat
  <2>1. (off + 1) * q <= b * q
    BY <1>6
  <2>2. (off + 1) * q = off * q + q /\ b * q = q * b
    OBVIOUS
  <2> QED
    BY <2>1, <2>2, <1>5
<1>8. BlockSlots(lvl) = q
  BY <1>1, <1>2, <1>4 DEF BlockSlots
<1>9. StartSlot(node, lvl) = HEAP_RAM_START + off * q
  BY <1>6, <1>8 DEF StartSlot
<1> QED
  BY <1>2, <1>5, <1>7, <1>8, <1>9, TreeAssumption

\* Two nodes of which neither contains the other, at levels lx <= ly, cover
\* disjoint words: the ancestor of y at level lx is another node than x.
LEMMA RegionsApart ==
  ASSUME NEW lx \in Levels, NEW ly \in Levels, lx <= ly,
         NEW x \in NodesAt(lx), NEW y \in NodesAt(ly), y \in Nodes, x \notin Path(y)
  PROVE  \/ StartSlot(x, lx) + BlockSlots(lx) <= StartSlot(y, ly)
         \/ StartSlot(y, ly) + BlockSlots(ly) <= StartSlot(x, lx)
<1>1. /\ lx \in Nat /\ ly \in Nat /\ MaxLevel \in Nat /\ ly <= MaxLevel
      /\ ly - lx \in Nat /\ MaxLevel - ly \in Nat
  BY TreeAssumption DEF Levels
<1>2. PICK p \in Nat \ {0}, d \in Nat \ {0}, q \in Nat \ {0} :
        p = 2^lx /\ d = 2^(ly - lx) /\ q = 2^(MaxLevel - ly)
  <2>1. lx \in Levels /\ ly - lx \in Levels /\ MaxLevel - ly \in Levels
    BY <1>1 DEF Levels
  <2> QED
    BY <2>1, TreeSizes
<1>3. 2^ly = p * d
  <2>1. ly = lx + (ly - lx)
    BY <1>1
  <2>2. 2^(lx + (ly - lx)) = 2^lx * 2^(ly - lx)
    BY <1>1, PowerSum
  <2> QED
    BY <1>2, <2>1, <2>2
<1>4. BUDDY_ARENA_SIZE = (p * d) * q
  <2>1. MaxLevel = ly + (MaxLevel - ly)
    BY <1>1
  <2>2. 2^(ly + (MaxLevel - ly)) = 2^ly * 2^(MaxLevel - ly)
    BY <1>1, PowerSum
  <2> QED
    BY <1>2, <1>3, <2>1, <2>2 DEF BUDDY_ARENA_SIZE
<1>5. BlockSlots(ly) = q
  <2>1. p * d \in Nat \ {0}
    OBVIOUS
  <2>2. ((p * d) * q) \div (p * d) = q
    <3>1. PICK c \in Nat \ {0} : c = p * d
      BY <2>1
    <3>2. (c * q) \div c = q
      OBVIOUS
    <3> QED
      BY <3>1, <3>2
  <2> QED
    BY <1>3, <1>4, <2>2 DEF BlockSlots
<1>6. PICK Q \in Nat \ {0} : Q = d * q
  OBVIOUS
<1>7. BlockSlots(lx) = Q
  <2>1. (p * d) * q = p * Q
    BY <1>6
  <2>2. (p * Q) \div p = Q
    OBVIOUS
  <2> QED
    BY <1>2, <1>4, <2>1, <2>2 DEF BlockSlots
<1>8. x \in Nat /\ y \in Nat /\ p <= x + 1 /\ x + 1 < 2 * p
  BY <1>2, PowersOfTwo, TreeSizes DEF NodesAt, get_index_level, Nodes, Levels
<1>9. p * d <= y + 1 /\ y + 1 < 2 * (p * d)
  <2>1. 2^(ly + 1) = 2 * 2^ly /\ 2^ly \in Nat
    BY PowersOfTwo DEF Levels
  <2>2. 2^ly - 1 <= y /\ y <= 2^(ly + 1) - 1 - 1
    BY <2>1 DEF NodesAt, get_index_level
  <2>3. PICK c \in Nat : c = p * d
    OBVIOUS
  <2> QED
    BY <1>3, <1>8, <2>1, <2>2, <2>3
<1>10. PICK w \in Nat : w = (y + 1) \div d
  BY <1>8
<1>11. w * d <= y + 1 /\ y + 2 <= (w + 1) * d
  BY <1>8, <1>10
<1>12. p <= w
  <2> SUFFICES ASSUME w + 1 <= p PROVE FALSE
    OBVIOUS
  <2>1. (w + 1) * d <= p * d
    OBVIOUS
  <2>2. (w + 1) * d \in Nat /\ p * d \in Nat
    OBVIOUS
  <2> QED
    BY <1>8, <1>9, <1>11, <2>1, <2>2
<1>13. w # x + 1
  <2> SUFFICES ASSUME w = x + 1 PROVE FALSE
    OBVIOUS
  <2>1. ly - lx \in Levels
    BY <1>1 DEF Levels
  <2>2. x + 1 = (y + 1) \div 2^(ly - lx)
    BY <1>2, <1>10
  <2>3. x <= y /\ y <= LastNode
    BY <1>8, <1>10, TreeSizes DEF Nodes
  <2>4. x \in Path(y)
    BY <1>8, <2>1, <2>2, <2>3, TreeSizes DEF Path, Nodes
  <2> QED
    BY <2>4
<1>14. PICK S \in Nat : S = HEAP_RAM_START
  BY TreeAssumption
<1>15. StartSlot(x, lx) = S + (x + 1 - p) * Q
  BY <1>2, <1>7, <1>8, <1>14 DEF StartSlot, get_index_level
<1>16. StartSlot(y, ly) = S + (y + 1 - p * d) * q
  BY <1>2, <1>3, <1>5, <1>8, <1>14 DEF StartSlot, get_index_level
<1>17. PICK e \in Int, f \in Nat, g \in Nat : e = x + 1 - p /\ f = w - p /\ g = y + 1 - p * d
  BY <1>8, <1>9, <1>12
<1>18. f * d <= g /\ g + 1 <= (f + 1) * d
  <2>1. f * d = w * d - p * d /\ (f + 1) * d = (w + 1) * d - p * d
    BY <1>17
  <2> QED
    BY <1>8, <1>11, <1>17, <2>1
<1>19. f * Q <= g * q /\ g * q + q <= (f + 1) * Q
  <2>1. (f * d) * q <= g * q /\ (g + 1) * q <= ((f + 1) * d) * q
    BY <1>18
  <2>2. (f * d) * q = f * Q /\ ((f + 1) * d) * q = (f + 1) * Q /\ (g + 1) * q = g * q + q
    BY <1>6
  <2> QED
    BY <2>1, <2>2
<1>20. CASE f + 1 <= e
  <2>1. (f + 1) * Q <= e * Q
    BY <1>20
  <2>2. (f + 1) * Q \in Int /\ e * Q \in Int /\ g * q \in Int
    OBVIOUS
  <2> QED
    BY <1>5, <1>15, <1>16, <1>17, <1>19, <2>1, <2>2
<1>21. CASE e + 1 <= f
  <2>1. (e + 1) * Q <= f * Q /\ (e + 1) * Q = e * Q + Q
    BY <1>21
  <2>2. f * Q \in Int /\ e * Q \in Int /\ g * q \in Int
    OBVIOUS
  <2> QED
    BY <1>7, <1>15, <1>16, <1>17, <1>19, <2>1, <2>2
<1> QED
  BY <1>8, <1>13, <1>17, <1>20, <1>21

\* The nodes of a level are nodes of the tree, and of no other level.
LEMMA LevelNodes ==
  ASSUME NEW lvl \in Levels, NEW node \in NodesAt(lvl)
  PROVE  /\ node \in Nodes /\ node \in Nat
         /\ 2^lvl \in Nat \ {0} /\ 2^lvl <= node + 1 /\ node + 1 < 2 * 2^lvl
         /\ \A m \in Levels : node \in NodesAt(m) => m = lvl
<1>1. ASSUME NEW m \in Levels, NEW x \in NodesAt(m)
      PROVE  x \in Nat /\ 2^m \in Nat \ {0} /\ 2^m <= x + 1 /\ x + 1 < 2 * 2^m
  <2>1. 2^m \in Nat \ {0} /\ 2^(m + 1) = 2 * 2^m
    BY PowersOfTwo DEF Levels
  <2> QED
    BY <2>1 DEF NodesAt, get_index_level
<1>2. ASSUME NEW j \in Levels, NEW k \in Levels, j < k PROVE 2 * 2^j <= 2^k
  <2>1. j + 1 \in Levels /\ j + 1 <= k /\ 2^(j + 1) = 2 * 2^j
    BY <1>2, TreeAssumption, PowersOfTwo DEF Levels
  <2> QED
    BY <2>1, PowersGrow
<1>3. node \in Nodes
  <2>1. MaxLevel \in Levels /\ lvl <= MaxLevel
    BY TreeAssumption DEF Levels
  <2>2. 2^lvl <= 2^MaxLevel /\ 2^MaxLevel \in Nat
    BY <2>1, PowersGrow, TreeSizes
  <2> QED
    BY <1>1, <2>2, TreeSizes DEF Nodes
<1>4. ASSUME NEW m \in Levels, node \in NodesAt(m) PROVE m = lvl
  <2>1. /\ node \in Nat /\ 2^m \in Nat /\ 2^m <= node + 1 /\ node + 1 < 2 * 2^m
        /\ 2^lvl \in Nat /\ 2^lvl <= node + 1 /\ node + 1 < 2 * 2^lvl
    BY <1>1, <1>4
  <2>2. ~(m < lvl)
    BY <1>2, <2>1
  <2>3. ~(lvl < m)
    BY <1>2, <2>1
  <2> QED
    BY <2>2, <2>3, TreeAssumption DEF Levels
<1> QED
  BY <1>1, <1>3, <1>4

\* A node has children on the next level, which halve its words, ...
LEMMA Halves ==
  ASSUME NEW lvl \in Levels, lvl # MaxLevel, NEW node \in NodesAt(lvl),
         NEW x \in Nodes \ {0}, Parent(x) = node
  PROVE  /\ lvl + 1 \in Levels /\ x \in NodesAt(lvl + 1) /\ x > node
         /\ BlockSlots(lvl + 1) \in Nat \ {0}
         /\ BlockSlots(lvl) = 2 * BlockSlots(lvl + 1)
         /\ StartSlot(node, lvl) \in Nat
         /\ StartSlot(x, lvl + 1)
              = StartSlot(node, lvl) + (IF x % 2 = 1 THEN 0 ELSE BlockSlots(lvl + 1))
<1>1. lvl + 1 \in Levels /\ lvl \in Nat /\ MaxLevel - (lvl + 1) \in Nat
  BY TreeAssumption DEF Levels
<1>2. PICK p \in Nat \ {0}, q \in Nat \ {0} :
        /\ p = 2^lvl /\ q = 2^(MaxLevel - (lvl + 1))
        /\ 2^(lvl + 1) = 2 * p /\ 2^(lvl + 2) = 2 * (2 * p)
  <2>1. MaxLevel - (lvl + 1) \in Levels
    BY <1>1, TreeAssumption DEF Levels
  <2>2. (lvl + 1) + 1 = lvl + 2
    BY <1>1
  <2> QED
    BY <1>1, <2>1, <2>2, PowersOfTwo DEF Levels
<1>3. BUDDY_ARENA_SIZE = (2 * p) * q
  <2>1. MaxLevel = (lvl + 1) + (MaxLevel - (lvl + 1))
    BY <1>1, TreeAssumption
  <2>2. 2^((lvl + 1) + (MaxLevel - (lvl + 1))) = 2^(lvl + 1) * 2^(MaxLevel - (lvl + 1))
    BY <1>1, <2>1, PowerSum, TreeAssumption
  <2> QED
    BY <1>2, <2>1, <2>2 DEF BUDDY_ARENA_SIZE
<1>4. BlockSlots(lvl + 1) = q
  <2>1. PICK r \in Nat \ {0} : r = 2 * p
    OBVIOUS
  <2>2. (r * q) \div r = q
    OBVIOUS
  <2> QED
    BY <1>2, <1>3, <2>1, <2>2 DEF BlockSlots
<1>5. BlockSlots(lvl) = 2 * q
  <2>1. PICK r \in Nat \ {0} : r = 2 * q
    OBVIOUS
  <2>2. (2 * p) * q = p * r
    BY <2>1
  <2>3. (p * r) \div p = r
    OBVIOUS
  <2> QED
    BY <1>2, <1>3, <2>1, <2>2, <2>3 DEF BlockSlots
<1>6. /\ node \in Nat /\ p <= node + 1 /\ node + 1 < 2 * p
      /\ x \in Nat /\ (x = 2 * node + 1 \/ x = 2 * node + 2)
  <2>1. x \in Nat /\ x # 0 /\ (x - 1) \div 2 = node
    BY TreeSizes DEF Parent, Nodes
  <2> QED
    BY <1>2, <2>1, LevelNodes
<1>7. x \in NodesAt(lvl + 1)
  <2>1. (lvl + 1) + 1 = lvl + 2
    BY <1>1
  <2> QED
    BY <1>2, <1>6, <2>1 DEF NodesAt, get_index_level
<1>8. PICK off \in Nat : off = node + 1 - p
  BY <1>6
<1>9. PICK S \in Nat : S = HEAP_RAM_START
  BY TreeAssumption
<1>10. StartSlot(node, lvl) = S + off * (2 * q)
  BY <1>2, <1>5, <1>6, <1>8, <1>9 DEF StartSlot, get_index_level
<1>11. StartSlot(x, lvl + 1) = S + (x + 1 - 2 * p) * q
  BY <1>2, <1>4, <1>6, <1>9 DEF StartSlot, get_index_level
<1>12. StartSlot(x, lvl + 1) = StartSlot(node, lvl) + (IF x % 2 = 1 THEN 0 ELSE q)
  <2>1. off * (2 * q) = (2 * off) * q /\ (2 * off + 1) * q = (2 * off) * q + q
    OBVIOUS
  <2>2. CASE x = 2 * node + 1
    <3>1. x + 1 - 2 * p = 2 * off /\ x % 2 = 1
      BY <1>6, <1>8, <2>2
    <3> QED
      BY <1>10, <1>11, <2>1, <3>1
  <2>3. CASE x = 2 * node + 2
    <3>1. x + 1 - 2 * p = 2 * off + 1 /\ x % 2 # 1
      BY <1>6, <1>8, <2>3
    <3>2. (2 * off) * q \in Nat
      OBVIOUS
    <3> QED
      BY <1>10, <1>11, <2>1, <3>1, <3>2
  <2> QED
    BY <1>6, <2>2, <2>3
<1>13. x > node
  BY <1>6
<1>14. StartSlot(node, lvl) \in Nat
  BY BlocksInArena
<1> QED
  BY <1>1, <1>4, <1>5, <1>7, <1>12, <1>13, <1>14

\* ... unless it is a leaf.
LEMMA LeafNodes ==
  ASSUME NEW node \in NodesAt(MaxLevel), NEW x \in Nodes \ {0}
  PROVE  Parent(x) # node
<1>1. MaxLevel \in Levels
  BY TreeAssumption DEF Levels
<1>2. node \in Nat /\ 2^MaxLevel \in Nat /\ 2^MaxLevel <= node + 1
  BY <1>1, LevelNodes
<1>3. x \in Nat /\ x # 0 /\ x <= LastNode /\ LastNode + 2 = 2 * 2^MaxLevel /\ LastNode \in Nat
  BY TreeSizes DEF Nodes
<1> QED
  BY <1>2, <1>3 DEF Parent

\* The child of an ancestor that does not lead down to a node has nothing to do
\* with that node.
LEMMA OtherChild ==
  ASSUME NEW p \in Nodes, NEW i \in Nodes, p \in Path(i),
         NEW x \in Nodes \ {0}, Parent(x) = p, x \notin Path(i), i # p
  PROVE  i \notin Path(x)
<1> SUFFICES ASSUME i \in Path(x) PROVE FALSE
  OBVIOUS
<1>1. i \in Nat /\ x \in Nat /\ p \in Nat
  BY TreeSizes DEF Nodes
<1>2. p <= i
  BY PathBelow
<1>3. i # x
  BY SelfOnPath
<1>4. i <= x
  BY PathBelow
<1>5. i <= p
  BY <1>1, <1>3, <1>4, PathOrder, SelfOnPath
<1> QED
  BY <1>1, <1>2, <1>5

\* Every node is on a level.
LEMMA NodeHasLevel == \A i \in Nodes : \E lvl \in Levels : i \in NodesAt(lvl)
<1> DEFINE T == {i \in Nodes : \A lvl \in Levels : i \notin NodesAt(lvl)}
<1> SUFFICES ASSUME T # {} PROVE FALSE
  OBVIOUS
<1>1. T \in SUBSET Nat
  BY TreeSizes DEF Nodes
<1>2. PICK i \in T : \A j \in T : i <= j
  <2> HIDE DEF T
  <2> QED
    BY <1>1, LeastNumber
<1>3. i \in Nodes /\ i \in Nat /\ \A lvl \in Levels : i \notin NodesAt(lvl)
  BY <1>1, <1>2
<1>4. i # 0
  <2>1. 0 \in Levels /\ 2^0 = 1 /\ 2^(0 + 1) = 2 * 2^0
    BY TreeAssumption, PowersOfTwo DEF Levels
  <2>2. 0 \in NodesAt(0)
    BY <2>1 DEF NodesAt, get_index_level
  <2> QED
    BY <1>3, <2>1, <2>2
<1>5. Parent(i) \in Nodes /\ Parent(i) < i /\ Parent(i) \in Nat
  BY <1>3, <1>4, TreeSizes DEF Parent, Nodes
<1>6. PICK l \in Levels : Parent(i) \in NodesAt(l)
  <2>1. Parent(i) \notin T
    BY <1>2, <1>3, <1>5
  <2> QED
    BY <1>5, <2>1
<1>7. l # MaxLevel
  BY <1>3, <1>4, <1>6, LeafNodes
<1> QED
  BY <1>3, <1>4, <1>6, <1>7, Halves

----------------------------------------------------------------------------
(* The walks over the masks, whoever has the nodes in use: a node in use is *)
(* marked allocated, and what contains it is marked split.                  *)

\* A node in use keeps buddy_find_free off: the one it returns lies neither
\* inside it nor around it.
LEMMA FoundApart ==
  ASSUME NEW alloc, NEW split, NEW lvl \in Levels, NEW node \in Nodes,
         FirstOf(Candidates(alloc, split, lvl), node),
         NEW n, n \in alloc, Ancestors(n) \subseteq split
  PROVE  n \notin Path(node) /\ node \notin Path(n)
<1>1. node \notin split /\ Path(node) \cap alloc = {}
  BY DEF FirstOf, Candidates
<1> QED
  BY <1>1, SelfOnPath DEF Ancestors

\* The node that is taken is marked, and nothing loses its marks.
LEMMA TakeGuards ==
  ASSUME NEW alloc, NEW split, NEW node \in Nodes
  PROVE  /\ node \in MarkAllocated(alloc, node)
         /\ Ancestors(node) \subseteq SplitPath(split, node)
         /\ alloc \subseteq MarkAllocated(alloc, node)
         /\ split \subseteq SplitPath(split, node)
<1>1. node \in MarkAllocated(alloc, node)
  BY PathBelow, SelfOnPath, TreeSizes DEF MarkAllocated, Nodes
<1> QED
  BY <1>1 DEF MarkAllocated, SplitPath

\* A free takes no mark off the path of another node in use: the walk up stops
\* at the first sibling in use, and where two paths part there is one.
LEMMA FreeGuards ==
  ASSUME NEW alloc, NEW split, NEW i \in Nodes, NEW n \in Nodes,
         n \in alloc, Ancestors(n) \subseteq split, n \notin Path(i), i \notin Path(n)
  PROVE  /\ n \in ClearAllocated(alloc, i)
         /\ Ancestors(n) \subseteq Coalesce(ClearAllocated(alloc, i), split, i)
<1> DEFINE cleared == ClearAllocated(alloc, i)
<1>1. n \in cleared
  BY SelfOnPath DEF ClearAllocated, Ancestors
<1>2. ASSUME NEW a \in Ancestors(n), a \notin Coalesce(cleared, split, i)
      PROVE  FALSE
  <2>1. a \in Path(i) /\ \A d \in Path(i) : d > a => Sibling(d) \notin cleared \cup split
    BY <1>2 DEF Coalesce, Ancestors
  <2>2. a \in Path(n)
    BY DEF Ancestors
  <2>3. PICK c \in Path(i) : c > a /\ Sibling(c) \in Path(n)
    BY <2>1, <2>2, PathsPart
  <2>4. Sibling(c) \in cleared \cup split
    BY <1>1, <2>3 DEF Ancestors
  <2> QED
    BY <2>1, <2>3, <2>4
<1> QED
  BY <1>1, <1>2

\* Of two nodes in use neither lies inside the other.
Apart(used) == \A n, m \in used : n # m => n \notin Path(m)

\* Every mark has its reason in a node in use: a marked node that is none
\* itself has marked children, every marked node is on the path of one, every
\* split node strictly above one, and two marked siblings have a marked parent.
Explained(alloc, split, used) ==
  /\ \A p \in alloc : p \in used \/ \A x \in Nodes \ {0} : Parent(x) = p => x \in alloc
  /\ \A p \in alloc : \E n \in used : p \in Path(n)
  /\ \A p \in split : \E n \in used : p \in Ancestors(n)
  /\ \A x \in Nodes \ {0} : x \in alloc /\ Sibling(x) \in alloc => Parent(x) \in alloc

\* buddy_mark_allocated marks a parent when both of its children are marked.
LEMMA TakeExplained ==
  ASSUME NEW alloc, NEW split, NEW used, NEW node \in Nodes, Explained(alloc, split, used)
  PROVE  Explained(MarkAllocated(alloc, node), SplitPath(split, node), used \cup {node})
<1> DEFINE marked == MarkAllocated(alloc, node)
           inUse == used \cup {node}
<1>1. ASSUME NEW p \in marked
      PROVE  /\ p \in inUse \/ \A x \in Nodes \ {0} : Parent(x) = p => x \in marked
             /\ \E n \in inUse : p \in Path(n)
  <2>1. CASE p \in alloc
    BY <2>1 DEF Explained, MarkAllocated
  <2>2. CASE p = node
    BY <2>2, SelfOnPath
  <2>3. CASE p \notin alloc /\ p # node
    <3>1. p \in Path(node) /\ \A d \in Path(node) : d > p => Sibling(d) \in alloc
      BY <1>1, <2>3 DEF MarkAllocated
    <3>2. PICK c \in Path(node) : Parent(c) = p /\ c > p
      BY <2>3, <3>1, ChildOnPath
    <3>3. p \in Nat /\ c \in Nat \ {0} /\ \A d \in Path(node) : d \in Nat
      BY <3>1, <3>2, TreeSizes DEF Path, Nodes
    <3>4. c \in marked /\ Sibling(c) \in marked
      BY <3>1, <3>2, <3>3 DEF MarkAllocated
    <3>5. \A x \in Nodes \ {0} : Parent(x) = p => x = c \/ x = Sibling(c)
      BY <3>2, <3>3, SameParent, TreeSizes DEF Nodes
    <3> QED
      BY <3>1, <3>4, <3>5
  <2> QED
    BY <2>1, <2>2, <2>3
<1>2. \A p \in SplitPath(split, node) : \E n \in inUse : p \in Ancestors(n)
  BY DEF Explained, SplitPath
<1>3. ASSUME NEW x \in Nodes \ {0}, x \in marked, Sibling(x) \in marked, Parent(x) \notin alloc
      PROVE  Parent(x) \in marked
  <2>1. /\ x \in Nat \ {0} /\ Sibling(x) \in Nat \ {0}
        /\ Parent(Sibling(x)) = Parent(x) /\ Sibling(Sibling(x)) = x
    BY TreeSizes DEF Nodes, Sibling, Parent
  <2>2. PICK y \in {x, Sibling(x)} : y \notin alloc
    BY <1>3 DEF Explained
  <2>3. /\ y \in Path(node) /\ \A d \in Path(node) : d > y => Sibling(d) \in alloc
        /\ y \in Nat \ {0} /\ Parent(y) = Parent(x) /\ Sibling(y) \in marked
    BY <1>3, <2>1, <2>2 DEF MarkAllocated
  <2>4. Sibling(y) \in alloc
    BY <2>3, SiblingOffPath DEF MarkAllocated
  <2>5. Parent(y) \in Path(node)
    BY <2>3, ParentOnPath
  <2>6. ASSUME NEW d \in Path(node), d > Parent(y) PROVE Sibling(d) \in alloc
    <3>1. d \in Nat /\ Parent(y) \in Nat
      BY <2>5, TreeSizes DEF Path, Nodes
    <3>2. ~(d < y)
      BY <2>3, <2>6, <3>1, PathOrder
    <3> QED
      BY <2>3, <2>4, <3>1, <3>2
  <2> QED
    BY <2>3, <2>5, <2>6 DEF MarkAllocated
<1>4. alloc \subseteq marked
  BY DEF MarkAllocated
<1> HIDE DEF marked, inUse
<1>5. \A x \in Nodes \ {0} : x \in marked /\ Sibling(x) \in marked => Parent(x) \in marked
  BY <1>3, <1>4
<1>6. Explained(marked, SplitPath(split, node), inUse)
  BY <1>1, <1>2, <1>5 DEF Explained
<1> QED
  BY <1>6 DEF marked, inUse

\* A free leaves no allocated mark on the path of its node, ...
LEMMA ClearsPath ==
  ASSUME NEW alloc, NEW split, NEW used \in SUBSET Nodes, NEW i \in used,
         Apart(used), Explained(alloc, split, used)
  PROVE  ClearAllocated(alloc, i) \cap Path(i) = {}
<1> SUFFICES ASSUME NEW p \in Ancestors(i), p \in alloc,
                    NEW d \in Ancestors(i), d >= p, d \notin alloc
             PROVE  FALSE
  BY DEF ClearAllocated, Ancestors
<1>1. i \in Nodes
  OBVIOUS
<1> DEFINE S == {x \in Ancestors(i) : x >= p /\ x \notin alloc}
<1>2. S \subseteq Nat /\ S # {} /\ p \in Nat
  BY TreeSizes DEF Ancestors, Path, Nodes
<1>3. PICK x \in S : \A y \in S : x <= y
  BY <1>2, LeastNumber
<1>4. x \in Path(i) /\ p \in Path(i) /\ x \in Nodes /\ x \in Nat /\ p < x
  BY <1>2, <1>3 DEF Ancestors, Path
<1>5. /\ Parent(x) \in Path(i) /\ Parent(x) < x
      /\ p <= Parent(x) /\ Parent(x) \in Nat
  BY <1>1, <1>2, <1>4, ParentOnPath, PathOrder, TreeSizes DEF Path, Nodes
<1>6. Parent(x) \in Ancestors(i)
  BY <1>1, <1>4, <1>5, PathBelow, TreeSizes DEF Ancestors, Nodes
<1>7. Parent(x) \in alloc
  BY <1>3, <1>4, <1>5, <1>6
<1>8. Parent(x) \notin used
  BY <1>6 DEF Apart, Ancestors
<1>9. x \in alloc
  <2>1. x \in Nodes \ {0}
    BY <1>2, <1>4
  <2>2. \A y \in Nodes \ {0} : Parent(y) = Parent(x) => y \in alloc
    BY <1>7, <1>8 DEF Explained
  <2> QED
    BY <2>1, <2>2
<1> QED
  BY <1>3, <1>9

\* ... so that whatever stops the coalescing below a node is marked because of
\* another node in use, which lies below that node, too.
LEMMA FreeExplained ==
  ASSUME NEW alloc, NEW split, NEW used \in SUBSET Nodes, NEW i \in used,
         Apart(used), Explained(alloc, split, used)
  PROVE  Explained(ClearAllocated(alloc, i),
                   Coalesce(ClearAllocated(alloc, i), split, i), used \ {i})
<1> DEFINE cleared == ClearAllocated(alloc, i)
           merged == Coalesce(cleared, split, i)
           inUse == used \ {i}
<1>1. i \in Nodes /\ \A n \in inUse : n \in Nodes /\ n \in used /\ n # i
  OBVIOUS
<1>2. cleared \cap Path(i) = {}
  BY ClearsPath
<1>3. cleared \subseteq alloc /\ alloc \ cleared \subseteq Path(i)
  BY SelfOnPath DEF ClearAllocated, Ancestors
<1>4. \A p : p \in merged => p \in split
  BY DEF Coalesce
<1>5. \A p \in merged : p \in Ancestors(i) =>
        \E d \in Path(i) : d > p /\ Sibling(d) \in cleared \cup split
  BY DEF Coalesce
<1> HIDE DEF cleared, merged
<1>6. ASSUME NEW p \in cleared
      PROVE  /\ p \in inUse \/ \A x \in Nodes \ {0} : Parent(x) = p => x \in cleared
             /\ \E n \in inUse : p \in Path(n)
  <2>1. p \in alloc /\ p \notin Path(i) /\ p # i
    BY <1>2, <1>3, SelfOnPath
  <2>2. \E n \in inUse : p \in Path(n)
    BY <2>1 DEF Explained
  <2>3. CASE p \in used
    BY <2>1, <2>2, <2>3
  <2>4. CASE \A x \in Nodes \ {0} : Parent(x) = p => x \in alloc
    <3>1. ASSUME NEW x \in Nodes \ {0}, Parent(x) = p PROVE x \notin Path(i)
      BY <2>1, <3>1, ParentOnPath
    <3> QED
      BY <1>3, <2>2, <2>4, <3>1
  <2> QED
    BY <2>1, <2>3, <2>4 DEF Explained
<1>7. ASSUME NEW p \in merged PROVE \E n \in inUse : p \in Ancestors(n)
  <2>1. PICK m \in used : p \in Ancestors(m)
    BY <1>4 DEF Explained
  <2>2. CASE m # i
    BY <2>1, <2>2
  <2>3. CASE m = i
    <3>1. PICK d \in Path(i) : d > p /\ Sibling(d) \in cleared \cup split
      BY <1>5, <2>1, <2>3
    <3>2. p \in Path(i) /\ p \in Nat /\ d \in Nat \ {0}
      BY <2>1, <2>3, <3>1, TreeSizes DEF Ancestors, Path, Nodes
    <3>3. PICK c \in inUse : Sibling(d) \in Path(c)
      <4>1. Sibling(d) \notin Path(i)
        BY <3>2, SiblingOffPath
      <4>2. CASE Sibling(d) \in cleared
        BY <1>6, <4>2
      <4>3. CASE Sibling(d) \in split
        BY <4>1, <4>3 DEF Explained, Ancestors
      <4> QED
        BY <3>1, <4>2, <4>3
    <3>4. /\ Sibling(d) \in Nat \ {0} /\ Parent(Sibling(d)) = Parent(d)
          /\ Parent(d) < Sibling(d) /\ Parent(d) \in Nat
      BY <3>2 DEF Sibling, Parent
    <3>5. c \in Nodes /\ c \in Nat
      BY <1>1, TreeSizes DEF Nodes
    <3>6. Parent(d) \in Path(i) /\ Parent(d) \in Path(c)
      BY <1>1, <3>2, <3>3, <3>4, <3>5, ParentOnPath
    <3>7. p <= Parent(d)
      BY <1>1, <3>1, <3>2, PathOrder
    <3>8. p \in Path(c)
      BY <1>1, <3>2, <3>5, <3>6, <3>7, PathsMeet
    <3>9. Sibling(d) <= c
      BY <3>3, <3>5, PathBelow
    <3>10. p # c
      BY <3>2, <3>4, <3>5, <3>7, <3>9
    <3> QED
      BY <3>3, <3>8, <3>10 DEF Ancestors
  <2> QED
    BY <2>2, <2>3
<1>8. ASSUME NEW x \in Nodes \ {0}, x \in cleared, Sibling(x) \in cleared
      PROVE  Parent(x) \in cleared
  <2> SUFFICES ASSUME Parent(x) \notin cleared PROVE FALSE
    OBVIOUS
  <2>1. Parent(x) \in Path(i)
    BY <1>3, <1>8 DEF Explained
  <2>2. x \in Nat \ {0} /\ Parent(x) < x /\ i \in Nat
    BY TreeSizes DEF Nodes, Parent
  <2>3. x \notin Path(i) /\ Sibling(x) \notin Path(i)
    BY <1>2, <1>8
  <2>4. CASE Parent(x) = i
    <3>1. PICK n \in inUse : x \in Path(n)
      BY <1>6, <1>8
    <3>2. i \in Path(n)
      BY <1>1, <2>2, <2>4, <3>1, ParentOnPath
    <3> QED
      BY <1>1, <3>2 DEF Apart
  <2>5. CASE Parent(x) # i
    <3>1. PICK c \in Path(i) : Parent(c) = Parent(x) /\ c > Parent(x)
      BY <1>1, <2>1, <2>5, ChildOnPath
    <3>2. c \in Nat \ {0}
      BY <2>1, <3>1, TreeSizes DEF Path, Nodes
    <3> QED
      BY <2>2, <2>3, <3>1, <3>2, SameParent
  <2> QED
    BY <2>4, <2>5
<1> HIDE DEF inUse
<1>9. Explained(cleared, merged, inUse)
  BY <1>6, <1>7, <1>8 DEF Explained
<1> QED
  BY <1>9 DEF cleared, merged, inUse

\* What a call can do to the masks and to the nodes in use: nothing, take the
\* first node that is free, or give one back.
Guarded(alloc, split, used) == \A n \in used : n \in alloc /\ Ancestors(n) \subseteq split

MaskStep(alloc, split, used, alloc2, split2, used2) ==
  \/ alloc2 = alloc /\ split2 = split /\ used2 = used
  \/ \E lvl \in Levels, node \in Nodes :
       /\ FirstOf(Candidates(alloc, split, lvl), node)
       /\ alloc2 = MarkAllocated(alloc, node)
       /\ split2 = SplitPath(split, node)
       /\ used2 = used \cup {node}
  \/ \E i \in used :
       /\ alloc2 = ClearAllocated(alloc, i)
       /\ split2 = Coalesce(ClearAllocated(alloc, i), split, i)
       /\ used2 = used \ {i}

\* Nodes that are in use by somebody else keep their marks, and stay apart from
\* the nodes of the one who calls.
LEMMA OthersGuarded ==
  ASSUME NEW alloc, NEW split, NEW used, NEW alloc2, NEW split2, NEW used2,
         MaskStep(alloc, split, used, alloc2, split2, used2),
         NEW other \in SUBSET Nodes, used \in SUBSET Nodes, Guarded(alloc, split, other),
         \A n \in used, m \in other : n \notin Path(m) /\ m \notin Path(n)
  PROVE  /\ Guarded(alloc2, split2, other)
         /\ \A n \in used2, m \in other : n \notin Path(m) /\ m \notin Path(n)
<1>1. CASE alloc2 = alloc /\ split2 = split /\ used2 = used
  BY <1>1
<1>2. ASSUME NEW lvl \in Levels, NEW node \in Nodes,
             FirstOf(Candidates(alloc, split, lvl), node),
             alloc2 = MarkAllocated(alloc, node), split2 = SplitPath(split, node),
             used2 = used \cup {node}
      PROVE  /\ Guarded(alloc2, split2, other)
             /\ \A n \in used2, m \in other : n \notin Path(m) /\ m \notin Path(n)
  <2>1. Guarded(alloc2, split2, other)
    BY <1>2, TakeGuards DEF Guarded
  <2>2. \A m \in other : node \notin Path(m) /\ m \notin Path(node)
    BY <1>2, FoundApart DEF Guarded
  <2> QED
    BY <1>2, <2>1, <2>2
<1>3. ASSUME NEW i \in used, alloc2 = ClearAllocated(alloc, i),
             split2 = Coalesce(ClearAllocated(alloc, i), split, i), used2 = used \ {i}
      PROVE  /\ Guarded(alloc2, split2, other)
             /\ \A n \in used2, m \in other : n \notin Path(m) /\ m \notin Path(n)
  <2>1. ASSUME NEW m \in other PROVE m \in alloc2 /\ Ancestors(m) \subseteq split2
    BY <1>3, FreeGuards DEF Guarded
  <2> QED
    BY <1>3, <2>1 DEF Guarded
<1> QED
  BY <1>1, <1>2, <1>3 DEF MaskStep

\* Whoever else has nodes in use, no mark loses its reason.
LEMMA StillExplained ==
  ASSUME NEW alloc, NEW split, NEW used, NEW alloc2, NEW split2, NEW used2,
         MaskStep(alloc, split, used, alloc2, split2, used2),
         NEW other \in SUBSET Nodes, used \in SUBSET Nodes,
         Apart(used \cup other), used \cap other = {}, Explained(alloc, split, used \cup other)
  PROVE  Explained(alloc2, split2, used2 \cup other)
<1>1. CASE alloc2 = alloc /\ split2 = split /\ used2 = used
  BY <1>1
<1>2. ASSUME NEW lvl \in Levels, NEW node \in Nodes,
             alloc2 = MarkAllocated(alloc, node), split2 = SplitPath(split, node),
             used2 = used \cup {node}
      PROVE  Explained(alloc2, split2, used2 \cup other)
  <2>1. used2 \cup other = (used \cup other) \cup {node}
    BY <1>2
  <2> QED
    BY <1>2, <2>1, TakeExplained
<1>3. ASSUME NEW i \in used, alloc2 = ClearAllocated(alloc, i),
             split2 = Coalesce(ClearAllocated(alloc, i), split, i), used2 = used \ {i}
      PROVE  Explained(alloc2, split2, used2 \cup other)
  <2>1. used2 \cup other = (used \cup other) \ {i} /\ used \cup other \in SUBSET Nodes
    BY <1>3
  <2> QED
    BY <1>3, <2>1, FreeExplained
<1> QED
  BY <1>1, <1>2, <1>3 DEF MaskStep

----------------------------------------------------------------------------
(* The allocator.                                                           *)

USE DEF vars

\* What one step does to the variables of a successful malloc_heap.
LEMMA MallocOkStep ==
  ASSUME NEW n \in Sizes, MallocOk(n)
  PROVE  \E lvl \in Levels, node \in Nodes :
           /\ node \in NodesAt(lvl)
           /\ IsTargetLevel(lvl, TotalSlots(n))
           /\ FirstOf(Candidates(heap_alloc_mask, heap_split_mask, lvl), node)
           /\ heap_split_mask' = SplitPath(heap_split_mask, node)
           /\ heap_alloc_mask' = MarkAllocated(heap_alloc_mask, node)
           /\ header' = [header EXCEPT ![StartSlot(node, lvl)] = lvl]
           /\ live' = live \cup {[addr |-> StartSlot(node, lvl) + 1,
                                  slots |-> n, node |-> node]}
           /\ ret' = [slots |-> n, addr |-> StartSlot(node, lvl) + 1]
BY DEF MallocOk, Searches, FirstOf, Candidates

\* Every call of malloc_heap and free_heap keeps the types.
LEMMA TypeStep == TypeOK /\ [StaleNext]_vars => TypeOK'
<1> SUFFICES ASSUME TypeOK, [StaleNext]_vars PROVE TypeOK'
  OBVIOUS
<1>1. ASSUME NEW n \in Sizes, MallocRefused(n) PROVE TypeOK'
  BY <1>1 DEF TypeOK, MallocRefused, Fails
<1>2. ASSUME NEW n \in Sizes, MallocFull(n) PROVE TypeOK'
  BY <1>2 DEF TypeOK, MallocFull, Fails
<1>3. ASSUME NEW n \in Sizes, MallocOk(n) PROVE TypeOK'
  <2>1. PICK lvl \in Levels, node \in Nodes :
          /\ node \in NodesAt(lvl)
          /\ heap_split_mask' = SplitPath(heap_split_mask, node)
          /\ heap_alloc_mask' = MarkAllocated(heap_alloc_mask, node)
          /\ header' = [header EXCEPT ![StartSlot(node, lvl)] = lvl]
          /\ live' = live \cup {[addr |-> StartSlot(node, lvl) + 1,
                                 slots |-> n, node |-> node]}
          /\ ret' = [slots |-> n, addr |-> StartSlot(node, lvl) + 1]
    BY <1>3, MallocOkStep
  <2>2. StartSlot(node, lvl) + 1 \in DataSlots
    BY <2>1, BlocksInArena, TreeAssumption, TreeSizes DEF DataSlots
  <2>3. n \in Nat
    BY SizesAssumption, TreeAssumption
  <2>4. heap_alloc_mask' \subseteq Nodes /\ heap_split_mask' \subseteq Nodes
    BY <2>1 DEF TypeOK, SplitPath, MarkAllocated, Ancestors, Path
  <2>5. header' \in [HeapSlots -> Levels \cup {NoHeader}]
    BY <2>1 DEF TypeOK
  <2>6. live' \subseteq Blocks
    BY <2>1, <2>2, <2>3 DEF TypeOK, Blocks
  <2>7. ret' \in [slots : Sizes \cup {0}, addr : DataSlots \cup {FAIL}]
    BY <2>1, <2>2
  <2> QED
    BY <2>4, <2>5, <2>6, <2>7 DEF TypeOK
<1>4. ASSUME NEW block \in live, FreeBlock(block) PROVE TypeOK'
  BY <1>4 DEF TypeOK, FreeBlock, Release, ClearAllocated, Coalesce
<1>5. ASSUME FreeRejected(FAIL) PROVE TypeOK'
  BY <1>5 DEF TypeOK, FreeRejected
<1>6. ASSUME NEW data_slot \in Issued, StaleFree(data_slot) PROVE TypeOK'
  BY <1>6 DEF TypeOK, StaleFree, Release, ClearAllocated, Coalesce
<1>7. ASSUME UNCHANGED vars PROVE TypeOK'
  BY <1>7 DEF TypeOK
<1> QED
  BY <1>1, <1>2, <1>3, <1>4, <1>5, <1>6, <1>7 DEF StaleNext, Next, Malloc

\* The masks stay sets of nodes, headers hold levels and every address handed
\* out is one of the arena: no malloc_heap or free_heap leaves the tree or the
\* heap words of ram[], even if blocks are freed that are free already.
THEOREM TypeCorrect == StaleSpec => []TypeOK
<1>1. Init => TypeOK
  BY DEF Init, TypeOK
<1> QED
  BY <1>1, TypeStep, PTL DEF StaleSpec

----------------------------------------------------------------------------
(* Exclusivity.  The marks on the path of a live block are what keeps       *)
(* buddy_find_free away from it: an allocated node stops the descent, and a *)
(* split one cannot be returned.                                            *)

\* The node malloc_heap finds lies neither inside a live block nor around one.
LEMMA NestingMalloc ==
  ASSUME TypeOK, NoNesting, NEW n \in Sizes, MallocOk(n)
  PROVE  NoNesting'
<1>1. PICK lvl \in Levels, node \in Nodes :
        /\ FirstOf(Candidates(heap_alloc_mask, heap_split_mask, lvl), node)
        /\ heap_split_mask' = SplitPath(heap_split_mask, node)
        /\ heap_alloc_mask' = MarkAllocated(heap_alloc_mask, node)
        /\ live' = live \cup {[addr |-> StartSlot(node, lvl) + 1,
                               slots |-> n, node |-> node]}
  BY MallocOkStep
<1> DEFINE new == [addr |-> StartSlot(node, lvl) + 1, slots |-> n, node |-> node]
<1>2. \A b \in live : b.node \notin Path(node) /\ node \notin Path(b.node)
  BY <1>1, FoundApart DEF NoNesting
<1>3. \A b \in live' : b.node \in heap_alloc_mask' /\ Ancestors(b.node) \subseteq heap_split_mask'
  BY <1>1, TakeGuards DEF NoNesting
<1>4. \A b, c \in live' : b # c => b.node \notin Path(c.node)
  <2> SUFFICES ASSUME NEW b \in live', NEW c \in live', b # c
               PROVE  b.node \notin Path(c.node)
    OBVIOUS
  <2>1. CASE b = new
    BY <2>1, <1>1, <1>2
  <2>2. CASE c = new
    BY <2>2, <1>1, <1>2
  <2>3. CASE b \in live /\ c \in live
    BY <2>3 DEF NoNesting
  <2> QED
    BY <2>1, <2>2, <2>3, <1>1
<1> QED
  BY <1>3, <1>4 DEF NoNesting

\* Freeing one block takes no mark off the path of another.
LEMMA NestingFree ==
  ASSUME TypeOK, NoNesting, HeaderIntact, NEW block \in live, FreeBlock(block)
  PROVE  NoNesting'
<1> DEFINE i == block.node
           cleared == ClearAllocated(heap_alloc_mask, i)
<1>1. /\ heap_alloc_mask' = cleared
      /\ heap_split_mask' = Coalesce(cleared, heap_split_mask, i)
      /\ live' = live \ {block}
  BY DEF FreeBlock, Release, HeaderIntact
<1>2. i \in Nodes
  BY DEF TypeOK, Blocks
<1>3. ASSUME NEW b \in live'
      PROVE  b.node \in heap_alloc_mask' /\ Ancestors(b.node) \subseteq heap_split_mask'
  <2>1. /\ b \in live /\ b # block /\ b.node \in Nodes
        /\ b.node \notin Path(i) /\ i \notin Path(b.node)
        /\ b.node \in heap_alloc_mask /\ Ancestors(b.node) \subseteq heap_split_mask
    BY <1>1, <1>3 DEF NoNesting, TypeOK, Blocks
  <2> QED
    BY <1>1, <1>2, <2>1, FreeGuards
<1>4. \A b, c \in live' : b # c => b.node \notin Path(c.node)
  BY <1>1 DEF NoNesting
<1> QED
  BY <1>3, <1>4 DEF NoNesting

----------------------------------------------------------------------------
(* From the tree to the words of ram[].                                     *)

\* Blocks of which neither contains the other have regions apart.
LEMMA BlocksApart ==
  ASSUME NEW lx \in Levels, NEW ly \in Levels,
         NEW x \in NodesAt(lx), NEW y \in NodesAt(ly), x \in Nodes, y \in Nodes,
         x \notin Path(y), y \notin Path(x)
  PROVE  \/ StartSlot(x, lx) + BlockSlots(lx) <= StartSlot(y, ly)
         \/ StartSlot(y, ly) + BlockSlots(ly) <= StartSlot(x, lx)
<1>1. CASE lx <= ly
  BY <1>1, RegionsApart
<1>2. CASE ly <= lx
  BY <1>2, RegionsApart
<1> QED
  BY <1>1, <1>2, TreeAssumption DEF Levels

\* The header of a live block passes the checks of free_heap, which computes
\* from it the node that malloc_heap marked.
LEMMA PlacedHeaders ==
  ASSUME TypeOK, Placed
  PROVE  HeaderIntact
<1> SUFFICES ASSUME NEW b \in live
             PROVE  /\ Accepted(b.addr)
                    /\ RecoveredNode(HeaderSlot(b.addr), header[HeaderSlot(b.addr)]) = b.node
  BY DEF HeaderIntact
<1>1. PICK lvl \in Levels : /\ b.node \in NodesAt(lvl)
                           /\ b.addr = StartSlot(b.node, lvl) + 1
                           /\ header[b.addr - 1] = lvl
  BY DEF Placed
<1>2. /\ BlockSlots(lvl) \in Nat \ {0}
      /\ StartSlot(b.node, lvl) \in Nat
      /\ HEAP_RAM_START <= StartSlot(b.node, lvl)
      /\ StartSlot(b.node, lvl) + BlockSlots(lvl) <= HEAP_RAM_START + BUDDY_ARENA_SIZE
  BY <1>1, BlocksInArena
<1>3. HeaderSlot(b.addr) = StartSlot(b.node, lvl)
  <2>1. StartSlot(b.node, lvl) < WORD_MOD /\ b.addr - 1 = StartSlot(b.node, lvl)
    BY <1>1, <1>2, TreeAssumption, ArenaAssumption, TreeSizes DEF BUDDY_ARENA_SIZE
  <2>2. \A n \in Nat, m \in Nat : n < m => n % m = n
    OBVIOUS
  <2> QED
    BY <1>2, <2>1, <2>2, TreeAssumption DEF HeaderSlot
<1>4. header[HeaderSlot(b.addr)] = lvl
  BY <1>1, <1>2, <1>3
<1>5. StartSlot(b.node, lvl) \in HeapSlots
  BY <1>2, TreeAssumption, TreeSizes DEF HeapSlots
<1>6. PICK off \in Nat : off = b.node - get_index_level(lvl)
  BY <1>1, TreeSizes DEF NodesAt, get_index_level
<1>7. PICK q \in Nat \ {0} : q = BlockSlots(lvl)
  BY <1>2
<1>8. StartSlot(b.node, lvl) - HEAP_RAM_START = off * q
  BY <1>6, <1>7, TreeAssumption DEF StartSlot
<1>9. (off * q) % q = 0 /\ (off * q) \div q = off
  OBVIOUS
<1>10. Accepted(b.addr)
  BY <1>3, <1>4, <1>5, <1>7, <1>8, <1>9 DEF Accepted
<1>11. RecoveredNode(StartSlot(b.node, lvl), lvl) = b.node
  <2>1. get_index_level(lvl) \in Int /\ b.node \in Nat
    BY <1>1, TreeSizes DEF get_index_level, TypeOK, Blocks, Nodes
  <2> QED
    BY <1>6, <1>7, <1>8, <1>9, <2>1 DEF RecoveredNode
<1> QED
  BY <1>3, <1>4, <1>10, <1>11

\* malloc_heap writes the header of the new block where no other block has its own.
LEMMA PlacedMalloc ==
  ASSUME TypeOK, NoNesting, Placed, NEW n \in Sizes, MallocOk(n)
  PROVE  Placed'
<1>1. PICK lvl \in Levels, node \in Nodes :
        /\ node \in NodesAt(lvl)
        /\ IsTargetLevel(lvl, TotalSlots(n))
        /\ FirstOf(Candidates(heap_alloc_mask, heap_split_mask, lvl), node)
        /\ header' = [header EXCEPT ![StartSlot(node, lvl)] = lvl]
        /\ live' = live \cup {[addr |-> StartSlot(node, lvl) + 1,
                               slots |-> n, node |-> node]}
  BY MallocOkStep
<1> DEFINE new == [addr |-> StartSlot(node, lvl) + 1, slots |-> n, node |-> node]
<1>2. /\ BlockSlots(lvl) \in Nat \ {0} /\ StartSlot(node, lvl) \in Nat
      /\ StartSlot(node, lvl) \in HeapSlots
  BY <1>1, BlocksInArena, TreeAssumption, TreeSizes DEF HeapSlots
<1>3. header'[StartSlot(node, lvl)] = lvl
  BY <1>1, <1>2 DEF TypeOK
<1>4. Fits(n, lvl)
  <2>1. n \in Nat /\ n <= WORD_MOD - 1 /\ WORD_MOD \in Nat
    BY SizesAssumption, TreeAssumption
  <2>2. TotalSlots(n) # 0
    BY MallocOk(n) DEF MallocOk, Searches
  <2>3. TotalSlots(n) = n + 1
    BY <2>1, <2>2 DEF TotalSlots
  <2> QED
    BY <1>1, <2>3 DEF IsTargetLevel, Fits
<1>5. ASSUME NEW b \in live
      PROVE  \E l \in Levels : /\ b.node \in NodesAt(l)
                              /\ b.addr = StartSlot(b.node, l) + 1
                              /\ header'[b.addr - 1] = l
                              /\ Fits(b.slots, l)
  <2>1. PICK l \in Levels : /\ b.node \in NodesAt(l)
                           /\ b.addr = StartSlot(b.node, l) + 1
                           /\ header[b.addr - 1] = l
                           /\ Fits(b.slots, l)
    BY DEF Placed
  <2>2. b.node \in Nodes
    BY DEF TypeOK, Blocks
  <2>4. b.node \notin Path(node) /\ node \notin Path(b.node)
    BY <1>1, FoundApart DEF NoNesting
  <2>5. /\ BlockSlots(l) \in Nat \ {0} /\ StartSlot(b.node, l) \in Nat
        /\ StartSlot(b.node, l) \in HeapSlots
    BY <2>1, BlocksInArena, TreeAssumption, TreeSizes DEF HeapSlots
  <2>6. StartSlot(b.node, l) # StartSlot(node, lvl)
    BY <1>1, <1>2, <2>1, <2>2, <2>4, <2>5, BlocksApart
  <2>7. header'[b.addr - 1] = l
    BY <1>1, <1>2, <2>1, <2>5, <2>6 DEF TypeOK
  <2> QED
    BY <2>1, <2>7
<1>6. ASSUME NEW b \in live'
      PROVE  \E l \in Levels : /\ b.node \in NodesAt(l)
                              /\ b.addr = StartSlot(b.node, l) + 1
                              /\ header'[b.addr - 1] = l
                              /\ Fits(b.slots, l)
  <2>1. CASE b = new
    <3>1. b.addr - 1 = StartSlot(node, lvl)
      BY <2>1, <1>2
    <3> QED
      BY <2>1, <3>1, <1>1, <1>3, <1>4
  <2>2. CASE b \in live
    BY <2>2, <1>5
  <2> QED
    BY <2>1, <2>2, <1>1
<1> QED
  BY <1>6 DEF Placed

----------------------------------------------------------------------------
\* What a step has to find: the types, the marks, and the headers in place.
HeapInv == TypeOK /\ NoNesting /\ Placed

\* An empty heap satisfies the invariant.
LEMMA HeapInit == Init => HeapInv
BY DEF Init, HeapInv, TypeOK, NoNesting, Placed

\* Every call of an orderly program keeps it.
LEMMA HeapStep == HeapInv /\ [Next]_vars => HeapInv'
<1> SUFFICES ASSUME HeapInv, [Next]_vars PROVE HeapInv'
  OBVIOUS
<1>1. TypeOK /\ NoNesting /\ Placed /\ HeaderIntact
  BY PlacedHeaders DEF HeapInv
<1>2. TypeOK'
  BY <1>1, TypeStep DEF StaleNext
<1>3. ASSUME NEW n \in Sizes, MallocOk(n) PROVE NoNesting' /\ Placed'
  BY <1>1, <1>3, NestingMalloc, PlacedMalloc
<1>4. ASSUME NEW n \in Sizes, MallocRefused(n) \/ MallocFull(n)
      PROVE  NoNesting' /\ Placed'
  BY <1>1, <1>4 DEF MallocRefused, MallocFull, Fails, NoNesting, Placed
<1>5. ASSUME NEW block \in live, FreeBlock(block) PROVE NoNesting' /\ Placed'
  <2>1. NoNesting'
    BY <1>1, <1>5, NestingFree
  <2>2. Placed'
    BY <1>1, <1>5 DEF FreeBlock, Release, Placed
  <2> QED
    BY <2>1, <2>2
<1>6. ASSUME FreeRejected(FAIL) \/ UNCHANGED vars PROVE NoNesting' /\ Placed'
  BY <1>1, <1>6 DEF FreeRejected, NoNesting, Placed
<1> QED
  BY <1>2, <1>3, <1>4, <1>5, <1>6 DEF Next, Malloc, HeapInv

\* The inductive invariant of a program that frees each block at most once.
THEOREM HeapInvariant == Spec => []HeapInv
BY HeapInit, HeapStep, PTL DEF Spec

\* No two live blocks of the heap share a word of ram[], data or header, and
\* none leaves the arena, over any history of malloc_heap and free_heap.
THEOREM Exclusive == Spec => []NoOverlap
<1>1. HeapInv => NoOverlap
  <2> SUFFICES ASSUME HeapInv PROVE NoOverlap
    OBVIOUS
  <2>1. ASSUME NEW b \in live
        PROVE  \E l \in Levels :
                 /\ b.node \in NodesAt(l) /\ b.node \in Nodes
                 /\ BlockSlots(l) \in Nat /\ StartSlot(b.node, l) \in Nat
                 /\ StartSlot(b.node, l) >= HEAP_RAM_START
                 /\ StartSlot(b.node, l) + BlockSlots(l) <= HEAP_RAM_START + BUDDY_ARENA_SIZE
                 /\ \A s \in Words(b) : /\ s \in Nat /\ StartSlot(b.node, l) <= s
                                        /\ s < StartSlot(b.node, l) + BlockSlots(l)
    <3>1. PICK l \in Levels : /\ b.node \in NodesAt(l)
                             /\ b.addr = StartSlot(b.node, l) + 1
                             /\ b.slots + 1 <= BlockSlots(l)
      BY DEF HeapInv, Placed, Fits
    <3>2. b.node \in Nodes /\ b.slots \in Nat
      BY DEF HeapInv, TypeOK, Blocks
    <3>3. /\ BlockSlots(l) \in Nat /\ StartSlot(b.node, l) \in Nat
          /\ StartSlot(b.node, l) >= HEAP_RAM_START
          /\ StartSlot(b.node, l) + BlockSlots(l) <= HEAP_RAM_START + BUDDY_ARENA_SIZE
      BY <3>1, BlocksInArena, TreeAssumption
    <3>4. \A s \in Words(b) : /\ s \in Nat /\ StartSlot(b.node, l) <= s
                             /\ s < StartSlot(b.node, l) + BlockSlots(l)
      BY <3>1, <3>2, <3>3 DEF Words
    <3> QED
      BY <3>1, <3>2, <3>3, <3>4
  <2>2. Taken \subseteq HeapSlots
    BY <2>1, TreeAssumption, TreeSizes DEF Taken, HeapSlots
  <2>3. ASSUME NEW b \in live, NEW c \in live, b # c, NEW s \in Words(b), s \in Words(c)
        PROVE  FALSE
    <3>1. b.node \notin Path(c.node) /\ c.node \notin Path(b.node)
      BY <2>3 DEF HeapInv, NoNesting
    <3>2. PICK l \in Levels :
            /\ b.node \in NodesAt(l) /\ b.node \in Nodes
            /\ BlockSlots(l) \in Nat /\ StartSlot(b.node, l) \in Nat
            /\ s \in Nat /\ StartSlot(b.node, l) <= s
            /\ s < StartSlot(b.node, l) + BlockSlots(l)
      BY <2>1, <2>3
    <3>3. PICK m \in Levels :
            /\ c.node \in NodesAt(m) /\ c.node \in Nodes
            /\ BlockSlots(m) \in Nat /\ StartSlot(c.node, m) \in Nat
            /\ StartSlot(c.node, m) <= s
            /\ s < StartSlot(c.node, m) + BlockSlots(m)
      BY <2>1, <2>3
    <3> QED
      BY <3>1, <3>2, <3>3, BlocksApart
  <2> QED
    BY <2>2, <2>3 DEF NoOverlap
<1> QED
  BY <1>1, HeapInvariant, PTL

\* free_heap finds every live block again from its header.
THEOREM HeadersFound == Spec => []HeaderIntact
<1>1. HeapInv => HeaderIntact
  BY PlacedHeaders DEF HeapInv
<1> QED
  BY <1>1, HeapInvariant, PTL

\* Of two live blocks neither lies inside the other, and the marks that keep
\* buddy_find_free away from them are set.
THEOREM NeverNested == Spec => []NoNesting
<1>1. HeapInv => NoNesting
  BY DEF HeapInv
<1> QED
  BY <1>1, HeapInvariant, PTL

\* Every live block has its header in the first word of its node, which has room
\* for what was asked for.
THEOREM BlocksPlaced == Spec => []Placed
<1>1. HeapInv => Placed
  BY DEF HeapInv
<1> QED
  BY <1>1, HeapInvariant, PTL

----------------------------------------------------------------------------
(* Nothing is lost.  A split mark could stay for ever on a node without live *)
(* blocks, if coalescing met an allocated mark nobody owns any more.  That   *)
(* no such mark stays is why the clearing of free_heap goes up as far as the *)
(* marking of buddy_mark_allocated has gone: a marked node that is no block  *)
(* has marked children.                                                      *)

UsedNodes == {b.node : b \in live}

MarksInv == Explained(heap_alloc_mask, heap_split_mask, UsedNodes)

\* What a step does to the tree.
LEMMA TreeStep ==
  ASSUME HeapInv, [Next]_vars
  PROVE  MaskStep(heap_alloc_mask, heap_split_mask, UsedNodes,
                  heap_alloc_mask', heap_split_mask', UsedNodes')
<1> DEFINE Step == MaskStep(heap_alloc_mask, heap_split_mask, UsedNodes,
                            heap_alloc_mask', heap_split_mask', UsedNodes')
<1>1. ASSUME NEW n \in Sizes, MallocOk(n) PROVE Step
  <2>1. PICK lvl \in Levels, node \in Nodes :
          /\ FirstOf(Candidates(heap_alloc_mask, heap_split_mask, lvl), node)
          /\ heap_split_mask' = SplitPath(heap_split_mask, node)
          /\ heap_alloc_mask' = MarkAllocated(heap_alloc_mask, node)
          /\ live' = live \cup {[addr |-> StartSlot(node, lvl) + 1,
                                 slots |-> n, node |-> node]}
    BY <1>1, MallocOkStep
  <2> DEFINE new == [addr |-> StartSlot(node, lvl) + 1, slots |-> n, node |-> node]
  <2>2. live' = live \cup {new} /\ new.node = node
    BY <2>1
  <2> HIDE DEF new
  <2>3. UsedNodes' = UsedNodes \cup {node}
    BY <2>2 DEF UsedNodes
  <2> QED
    BY <2>1, <2>3 DEF MaskStep
<1>2. ASSUME NEW n \in Sizes, MallocRefused(n) \/ MallocFull(n) PROVE Step
  BY <1>2 DEF MallocRefused, MallocFull, Fails, UsedNodes, MaskStep
<1>3. ASSUME NEW block \in live, FreeBlock(block) PROVE Step
  <2> DEFINE i == block.node
             cleared == ClearAllocated(heap_alloc_mask, i)
  <2>1. HeaderIntact /\ TypeOK /\ NoNesting
    BY PlacedHeaders DEF HeapInv
  <2>2. /\ heap_alloc_mask' = cleared
        /\ heap_split_mask' = Coalesce(cleared, heap_split_mask, i)
        /\ live' = live \ {block}
    BY <1>3, <2>1 DEF FreeBlock, Release, HeaderIntact
  <2>3. \A b \in live : b # block => b.node # i
    BY <2>1, SelfOnPath DEF NoNesting, TypeOK, Blocks
  <2>4. UsedNodes' = UsedNodes \ {i} /\ i \in UsedNodes
    BY <2>2, <2>3 DEF UsedNodes
  <2> QED
    BY <2>2, <2>4 DEF MaskStep
<1>4. ASSUME FreeRejected(FAIL) \/ UNCHANGED vars PROVE Step
  BY <1>4 DEF FreeRejected, UsedNodes, MaskStep
<1> QED
  BY <1>1, <1>2, <1>3, <1>4 DEF Next, Malloc

\* The nodes of the live blocks.
LEMMA NodesInUse ==
  ASSUME HeapInv
  PROVE  /\ UsedNodes \in SUBSET Nodes
         /\ Apart(UsedNodes)
         /\ Guarded(heap_alloc_mask, heap_split_mask, UsedNodes)
BY DEF HeapInv, TypeOK, Blocks, NoNesting, Apart, Guarded, UsedNodes

\* Nobody else has a node: the marks are those of the live blocks, over every
\* history of calls.
LEMMA MarksInvariant == Spec => []MarksInv
<1>1. Init => MarksInv
  BY DEF Init, MarksInv, Explained, UsedNodes
<1>2. HeapInv /\ MarksInv /\ [Next]_vars => MarksInv'
  <2> SUFFICES ASSUME HeapInv, MarksInv, [Next]_vars PROVE MarksInv'
    OBVIOUS
  <2> DEFINE nobody == {}
  <2>1. UsedNodes \cup nobody = UsedNodes /\ UsedNodes' \cup nobody = UsedNodes'
    OBVIOUS
  <2>2. nobody \in SUBSET Nodes /\ UsedNodes \cap nobody = {}
    OBVIOUS
  <2> HIDE DEF nobody
  <2>3. /\ Apart(UsedNodes \cup nobody)
        /\ Explained(heap_alloc_mask, heap_split_mask, UsedNodes \cup nobody)
    BY <2>1, NodesInUse DEF MarksInv
  <2>4. Explained(heap_alloc_mask', heap_split_mask', UsedNodes' \cup nobody)
    BY <2>2, <2>3, TreeStep, NodesInUse, StillExplained
  <2> QED
    BY <2>1, <2>4 DEF MarksInv
<1> QED
  BY <1>1, <1>2, HeapInvariant, PTL DEF Spec

\* A node is marked split exactly when a live block lies below it: after any
\* history of calls a freed block has been coalesced as far as it could be.
THEOREM NothingStaysSplit == Spec => []SplitMeansInUse
<1>1. HeapInv /\ MarksInv => SplitMeansInUse
  BY DEF HeapInv, MarksInv, Explained, UsedNodes, NoNesting, SplitMeansInUse
<1> QED
  BY <1>1, HeapInvariant, MarksInvariant, PTL

\* That a word of a node's region is in use by a live block at or below the node
Covered(p, s) == \E b \in live : p \in Path(b.node) /\ s \in Region(b.node, header[b.addr - 1])

\* The words of a node are those of its children.
LEMMA RegionHalves ==
  ASSUME NEW lvl \in Levels, lvl # MaxLevel, NEW p \in NodesAt(lvl), NEW c \in Nodes \ {0},
         Parent(c) = p, Sibling(c) \in Nodes \ {0}
  PROVE  \A s : s \in Region(p, lvl)
                 <=> s \in Region(c, lvl + 1) \/ s \in Region(Sibling(c), lvl + 1)
<1>1. c \in Nat \ {0} /\ Parent(Sibling(c)) = p /\ (c % 2 = 1 <=> Sibling(c) % 2 # 1)
  BY TreeSizes DEF Nodes, Parent, Sibling
<1>2. PICK q \in Nat \ {0}, S \in Nat :
        /\ q = BlockSlots(lvl + 1) /\ S = StartSlot(p, lvl) /\ BlockSlots(lvl) = 2 * q
  BY <1>1, Halves
<1>3. \/ StartSlot(c, lvl + 1) = S /\ StartSlot(Sibling(c), lvl + 1) = S + q
      \/ StartSlot(c, lvl + 1) = S + q /\ StartSlot(Sibling(c), lvl + 1) = S
  <2>1. ASSUME NEW x \in Nodes \ {0}, Parent(x) = p
        PROVE  StartSlot(x, lvl + 1) = S + (IF x % 2 = 1 THEN 0 ELSE q)
    BY <1>2, <2>1, Halves
  <2>2. /\ StartSlot(c, lvl + 1) = S + (IF c % 2 = 1 THEN 0 ELSE q)
        /\ StartSlot(Sibling(c), lvl + 1) = S + (IF Sibling(c) % 2 = 1 THEN 0 ELSE q)
    BY <1>1, <2>1
  <2>3. CASE c % 2 = 1
    BY <1>1, <1>2, <2>2, <2>3
  <2>4. CASE c % 2 # 1
    BY <1>1, <1>2, <2>2, <2>4
  <2> QED
    BY <2>3, <2>4
<1> QED
  BY <1>2, <1>3 DEF Region

\* A node that is not a leaf has both of its children.
LEMMA BothChildren ==
  ASSUME NEW lvl \in Levels, lvl # MaxLevel, NEW p \in NodesAt(lvl)
  PROVE  \E c \in Nodes \ {0} : /\ Parent(c) = p /\ Sibling(c) \in Nodes \ {0}
                                /\ Parent(Sibling(c)) = p
<1> DEFINE c == 2 * p + 1
<1>1. lvl + 1 \in Levels /\ lvl + 1 <= MaxLevel /\ MaxLevel \in Levels
  BY TreeAssumption DEF Levels
<1>2. 2^(lvl + 1) <= 2^MaxLevel /\ 2^(lvl + 1) = 2 * 2^lvl
  BY <1>1, PowersGrow, PowersOfTwo DEF Levels
<1>3. p \in Nat /\ p + 1 < 2 * 2^lvl /\ 2^lvl \in Nat /\ 2^MaxLevel \in Nat
  BY <1>1, LevelNodes, TreeSizes
<1>4. c \in Nodes \ {0} /\ c + 1 \in Nodes \ {0}
  BY <1>2, <1>3, TreeSizes DEF Nodes
<1>5. Sibling(c) = c + 1 /\ Parent(c) = p /\ Parent(c + 1) = p
  BY <1>3 DEF Sibling, Parent
<1> QED
  BY <1>4, <1>5

\* A marked node is full: were it the largest that is not, its children would be
\* marked and full.
LEMMA MarkedIsFull ==
  ASSUME HeapInv, MarksInv, NEW lvl \in Levels, NEW p \in NodesAt(lvl), p \in heap_alloc_mask,
         NEW s \in Region(p, lvl)
  PROVE  Covered(p, s)
<1> DEFINE T == {n \in heap_alloc_mask :
                   \E l \in Levels : n \in NodesAt(l) /\ \E w \in Region(n, l) : ~Covered(n, w)}
<1> SUFFICES ASSUME T # {} PROVE FALSE
  OBVIOUS
<1>1. PICK n \in T : \A m \in T : m <= n
  <2>1. T \in SUBSET Nodes
    BY DEF HeapInv, TypeOK
  <2> HIDE DEF T
  <2> QED
    BY <2>1, LargestNode
<1>2. PICK l \in Levels : n \in NodesAt(l) /\ \E w \in Region(n, l) : ~Covered(n, w)
  BY <1>1
<1> PICK w \in Region(n, l) : ~Covered(n, w)
  BY <1>2
<1>3. n \in heap_alloc_mask /\ n \in Nodes /\ \A b \in live : b.node \in Nodes
  BY <1>1 DEF HeapInv, TypeOK, Blocks
<1>4. ~ \E b \in live : b.node = n
  <2> SUFFICES ASSUME NEW b \in live, b.node = n PROVE FALSE
    OBVIOUS
  <2>1. header[b.addr - 1] = l
    BY <1>2, LevelNodes DEF HeapInv, Placed
  <2> QED
    BY <1>2, <1>3, <2>1, SelfOnPath DEF Covered
<1>5. \A x \in Nodes \ {0} : Parent(x) = n => x \in heap_alloc_mask
  BY <1>3, <1>4 DEF MarksInv, Explained, UsedNodes
<1>6. l # MaxLevel
  <2>1. PICK b \in live : n \in Path(b.node)
    BY <1>3 DEF MarksInv, Explained, UsedNodes
  <2>2. PICK c \in Path(b.node) : Parent(c) = n /\ c > n
    BY <1>3, <1>4, <2>1, ChildOnPath
  <2>3. c \in Nodes \ {0}
    BY <1>3, <2>2, TreeSizes DEF Path, Nodes
  <2> QED
    BY <1>2, <2>2, <2>3, LeafNodes
<1>7. PICK c \in Nodes \ {0} : /\ Parent(c) = n /\ w \in Region(c, l + 1)
  BY <1>2, <1>6, BothChildren, RegionHalves
<1>8. l + 1 \in Levels /\ c \in NodesAt(l + 1) /\ c > n
  BY <1>2, <1>6, <1>7, Halves
<1>9. Covered(c, w)
  <2>1. c \notin T
    BY <1>1, <1>3, <1>8, TreeSizes DEF Nodes
  <2> QED
    BY <1>5, <1>7, <1>8, <2>1
<1> QED
  BY <1>2, <1>3, <1>7, <1>9, ParentOnPath DEF Covered

\* A full node is marked: were it the largest that is not, its children would be
\* full, hence marked, and buddy_mark_allocated would have marked it, too.
LEMMA FullIsMarked ==
  ASSUME HeapInv, MarksInv, NEW lvl \in Levels, NEW p \in NodesAt(lvl),
         \A s \in Region(p, lvl) : Covered(p, s)
  PROVE  p \in heap_alloc_mask
<1> DEFINE T == {n \in Nodes : /\ n \notin heap_alloc_mask
                              /\ \E l \in Levels : /\ n \in NodesAt(l)
                                                   /\ \A w \in Region(n, l) : Covered(n, w)}
<1> SUFFICES ASSUME T # {} PROVE FALSE
  BY LevelNodes
<1>1. PICK n \in T : \A m \in T : m <= n
  <2>1. T \in SUBSET Nodes
    OBVIOUS
  <2> HIDE DEF T
  <2> QED
    BY <2>1, LargestNode
<1>2. PICK l \in Levels : n \in NodesAt(l) /\ \A w \in Region(n, l) : Covered(n, w)
  BY <1>1
<1>3. /\ n \notin heap_alloc_mask /\ n \in Nodes
      /\ \A b \in live : b.node \in Nodes /\ b.node \in heap_alloc_mask /\ b.node # n
  BY <1>1 DEF HeapInv, TypeOK, Blocks, NoNesting
<1>4. ASSUME NEW b \in live, n \in Path(b.node)
      PROVE  \E c \in Path(b.node) : c \in Nodes \ {0} /\ Parent(c) = n
  <2>1. PICK c \in Path(b.node) : Parent(c) = n /\ c > n
    BY <1>3, <1>4, ChildOnPath
  <2> QED
    BY <1>3, <2>1, TreeSizes DEF Path, Nodes
<1>5. l # MaxLevel
  <2>1. StartSlot(n, l) \in Region(n, l)
    BY <1>2, BlocksInArena DEF Region
  <2>2. PICK b \in live : n \in Path(b.node)
    BY <1>2, <2>1 DEF Covered
  <2> QED
    BY <1>2, <1>4, <2>2, LeafNodes
<1>6. PICK c \in Nodes \ {0} : /\ Parent(c) = n /\ Sibling(c) \in Nodes \ {0}
                               /\ Parent(Sibling(c)) = n
  BY <1>2, <1>5, BothChildren
<1>7. ASSUME NEW x \in {c, Sibling(c)} PROVE x \in heap_alloc_mask
  <2>1. x \in Nodes \ {0} /\ Parent(x) = n
    BY <1>6
  <2>2. l + 1 \in Levels /\ x \in NodesAt(l + 1) /\ x > n
    BY <1>2, <1>5, <2>1, Halves
  <2>3. ASSUME NEW w \in Region(x, l + 1) PROVE Covered(x, w)
    <3>1. w \in Region(n, l)
      BY <1>2, <1>5, <1>6, <2>3, RegionHalves
    <3>2. PICK b \in live : n \in Path(b.node) /\ w \in Region(b.node, header[b.addr - 1])
      BY <1>2, <3>1 DEF Covered
    <3>3. SUFFICES ASSUME x \notin Path(b.node) PROVE FALSE
      BY <3>2 DEF Covered
    <3>4. b.node \notin Path(x)
      BY <1>3, <2>1, <3>2, <3>3, OtherChild
    <3>5. PICK k \in Levels : b.node \in NodesAt(k) /\ header[b.addr - 1] = k
      BY DEF HeapInv, Placed
    <3>6. \/ StartSlot(x, l + 1) + BlockSlots(l + 1) <= StartSlot(b.node, k)
          \/ StartSlot(b.node, k) + BlockSlots(k) <= StartSlot(x, l + 1)
      BY <1>3, <2>1, <2>2, <3>3, <3>4, <3>5, BlocksApart
    <3> QED
      BY <2>2, <2>3, <3>2, <3>5, <3>6, BlocksInArena DEF Region
  <2> QED
    BY <1>1, <1>3, <2>1, <2>2, <2>3, TreeSizes DEF Nodes
<1> QED
  BY <1>3, <1>6, <1>7 DEF MarksInv, Explained, UsedNodes

\* An allocated mark says that every word of the node is in use: the upward
\* marking of an allocation and the upward clearing of a free undo each other.
THEOREM MarksExact == Spec => []AllocMeansFilled
<1>1. HeapInv /\ MarksInv => AllocMeansFilled
  <2> SUFFICES ASSUME HeapInv, MarksInv, NEW lvl \in Levels, NEW p \in NodesAt(lvl)
               PROVE  p \in heap_alloc_mask <=> \A s \in Region(p, lvl) : Covered(p, s)
    BY DEF AllocMeansFilled, Covered
  <2> QED
    BY MarkedIsFull, FullIsMarked
<1> QED
  BY <1>1, HeapInvariant, MarksInvariant, PTL

----------------------------------------------------------------------------
(* BuddyHeap implements HeapSpec: what the search can return are the nodes  *)
(* whose words no live block uses, the leftmost of them is the lowest run,  *)
(* and a level's nodes are the aligned runs of the size that is asked for.  *)

\* The words of a node are among those of its ancestors.
LEMMA RegionInside ==
  ASSUME NEW ly \in Levels, NEW y \in NodesAt(ly), NEW la \in Levels, NEW a \in NodesAt(la),
         a \in Path(y)
  PROVE  Region(y, ly) \subseteq Region(a, la)
<1> DEFINE T == {x \in Path(y) :
                   \E l \in Levels : x \in NodesAt(l) /\ ~(Region(y, ly) \subseteq Region(x, l))}
<1> SUFFICES ASSUME T # {} PROVE FALSE
  OBVIOUS
<1>1. y \in Nodes
  BY LevelNodes
<1>2. PICK x \in T : \A z \in T : z <= x
  <2>1. T \in SUBSET Nodes
    BY DEF Path
  <2> HIDE DEF T
  <2> QED
    BY <2>1, LargestNode
<1>3. PICK l \in Levels : x \in NodesAt(l) /\ ~(Region(y, ly) \subseteq Region(x, l))
  BY <1>2
<1>4. x # y
  BY <1>3, LevelNodes
<1>5. PICK c \in Path(y) : Parent(c) = x /\ c > x
  BY <1>1, <1>2, <1>4, ChildOnPath
<1>6. c \in Nodes \ {0} /\ x \in Nat /\ c \in Nat
  BY <1>2, <1>5, TreeSizes DEF Path, Nodes
<1>7. l # MaxLevel
  BY <1>3, <1>5, <1>6, LeafNodes
<1>8. /\ l + 1 \in Levels /\ c \in NodesAt(l + 1)
      /\ BlockSlots(l + 1) \in Nat \ {0} /\ BlockSlots(l) = 2 * BlockSlots(l + 1)
      /\ StartSlot(x, l) \in Nat
      /\ StartSlot(c, l + 1) = StartSlot(x, l) + (IF c % 2 = 1 THEN 0 ELSE BlockSlots(l + 1))
  BY <1>3, <1>5, <1>6, <1>7, Halves
<1>9. Region(c, l + 1) \subseteq Region(x, l)
  <2>1. CASE c % 2 = 1
    BY <1>8, <2>1 DEF Region
  <2>2. CASE c % 2 # 1
    BY <1>8, <2>2 DEF Region
  <2> QED
    BY <2>1, <2>2
<1>10. Region(y, ly) \subseteq Region(c, l + 1)
  <2>1. c \notin T
    BY <1>2, <1>5, <1>6
  <2> QED
    BY <1>5, <1>8, <2>1
<1> QED
  BY <1>3, <1>9, <1>10

\* The sizes of blocks are the powers of two up to that of the arena.
LEMMA BlockPower ==
  ASSUME NEW lvl \in Levels
  PROVE  /\ MaxLevel - lvl \in Levels
         /\ BlockSlots(lvl) = 2^(MaxLevel - lvl)
         /\ BlockSlots(lvl) \in Nat \ {0}
         /\ BUDDY_ARENA_SIZE \div BlockSlots(lvl) = 2^lvl
<1>1. MaxLevel - lvl \in Levels /\ lvl \in Nat /\ MaxLevel = lvl + (MaxLevel - lvl)
  BY TreeAssumption DEF Levels
<1>2. PICK p \in Nat \ {0}, q \in Nat \ {0} : p = 2^lvl /\ q = 2^(MaxLevel - lvl)
  BY <1>1, TreeSizes
<1>3. BUDDY_ARENA_SIZE = p * q
  <2>1. 2^(lvl + (MaxLevel - lvl)) = 2^lvl * 2^(MaxLevel - lvl)
    BY <1>1, PowerSum, TreeAssumption DEF Levels
  <2> QED
    BY <1>1, <1>2, <2>1 DEF BUDDY_ARENA_SIZE
<1>4. (p * q) \div p = q /\ (p * q) \div q = p
  OBVIOUS
<1> QED
  BY <1>1, <1>2, <1>3, <1>4 DEF BlockSlots

\* The deepest level with room has the blocks of the rounded size.
LEMMA RoundedSize ==
  ASSUME NEW n \in Nat, NEW lvl \in Levels, Fits(n, lvl)
  PROVE  Promise!Rounded(n) = BlockSlots(lvl)
<1> DEFINE R == {2^k : k \in 0..MaxLevel}
           Least(size) == /\ n + 1 <= size
                          /\ \A other \in R : n + 1 <= other => size <= other
<1>1. \A size \in R : size \in Nat /\ \E l \in Levels : size = BlockSlots(l)
  <2> SUFFICES ASSUME NEW k \in 0..MaxLevel
               PROVE  2^k \in Nat /\ \E l \in Levels : 2^k = BlockSlots(l)
    OBVIOUS
  <2>1. MaxLevel - k \in Levels /\ MaxLevel - (MaxLevel - k) = k
    BY TreeAssumption DEF Levels
  <2>2. BlockSlots(MaxLevel - k) = 2^(MaxLevel - (MaxLevel - k)) /\ BlockSlots(MaxLevel - k) \in Nat
    BY <2>1, BlockPower
  <2> QED
    BY <2>1, <2>2
<1>2. BlockSlots(lvl) \in R
  <2>1. MaxLevel - lvl \in 0..MaxLevel
    BY BlockPower DEF Levels
  <2> QED
    BY <2>1, BlockPower
<1>3. \A l \in Levels : l < lvl => BlockSlots(lvl) <= BlockSlots(l)
  <2> SUFFICES ASSUME NEW l \in Levels, l < lvl PROVE BlockSlots(lvl) <= BlockSlots(l)
    OBVIOUS
  <2>1. /\ MaxLevel - lvl \in Levels /\ MaxLevel - l \in Levels
        /\ MaxLevel - lvl <= MaxLevel - l
    BY BlockPower, TreeAssumption DEF Levels
  <2> QED
    BY <2>1, BlockPower, PowersGrow
<1>4. \A l \in Levels : n + 1 <= BlockSlots(l) => BlockSlots(lvl) <= BlockSlots(l)
  <2> SUFFICES ASSUME NEW l \in Levels, n + 1 <= BlockSlots(l) PROVE BlockSlots(lvl) <= BlockSlots(l)
    OBVIOUS
  <2>1. l <= lvl
    <3> SUFFICES ASSUME l > lvl PROVE FALSE
      BY TreeAssumption DEF Levels
    <3>1. l \in (lvl + 1)..MaxLevel
      BY TreeAssumption DEF Levels
    <3>2. BlockSlots(l) < n + 1 /\ BlockSlots(l) \in Nat
      BY <3>1, BlockPower DEF Fits
    <3> QED
      BY <3>2
  <2>2. l = lvl \/ l < lvl
    BY <2>1, TreeAssumption DEF Levels
  <2> QED
    BY <1>3, <2>2, BlockPower
<1>5. Least(BlockSlots(lvl))
  BY <1>1, <1>4 DEF Fits
<1>6. \A size \in R : Least(size) => size = BlockSlots(lvl)
  <2> SUFFICES ASSUME NEW size \in R, Least(size) PROVE size = BlockSlots(lvl)
    OBVIOUS
  <2>1. size <= BlockSlots(lvl) /\ BlockSlots(lvl) <= size
    BY <1>2, <1>5
  <2> QED
    BY <1>1, <1>2, <2>1
<1>7. Promise!Rounded(n) = CHOOSE size \in R : Least(size)
  BY DEF Promise!Rounded, Promise!RunSizes
<1> HIDE DEF R, Least
<1> QED
  BY <1>2, <1>5, <1>6, <1>7

----------------------------------------------------------------------------
(* The masks and the free runs.                                             *)

\* Live blocks that are not each other's ancestors have no word in common.
LEMMA NoCommonWord ==
  ASSUME NEW lx \in Levels, NEW ly \in Levels, NEW x \in NodesAt(lx), NEW y \in NodesAt(ly),
         x \notin Path(y), y \notin Path(x)
  PROVE  Region(x, lx) \cap Region(y, ly) = {}
<1>1. x \in Nodes /\ y \in Nodes
  BY LevelNodes
<1>2. \/ StartSlot(x, lx) + BlockSlots(lx) <= StartSlot(y, ly)
      \/ StartSlot(y, ly) + BlockSlots(ly) <= StartSlot(x, lx)
  BY <1>1, BlocksApart
<1>3. /\ StartSlot(x, lx) \in Nat /\ BlockSlots(lx) \in Nat
      /\ StartSlot(y, ly) \in Nat /\ BlockSlots(ly) \in Nat
  BY BlocksInArena
<1> QED
  BY <1>2, <1>3 DEF Region

\* What buddy_find_free can return is what no live block has a word of.
LEMMA FreeIsCandidate ==
  ASSUME HeapInv, MarksInv, NEW lvl \in Levels, NEW node \in NodesAt(lvl)
  PROVE  node \in Candidates(heap_alloc_mask, heap_split_mask, lvl)
           <=> \A b \in live : Region(node, lvl) \cap Region(b.node, header[b.addr - 1]) = {}
<1>1. node \in Nodes /\ \A b \in live : b.node \in Nodes
  BY LevelNodes DEF HeapInv, TypeOK, Blocks
<1>2. \A b \in live : \E l \in Levels : b.node \in NodesAt(l) /\ header[b.addr - 1] = l
  BY DEF HeapInv, Placed
<1>3. \A l \in Levels : \A x \in NodesAt(l) : StartSlot(x, l) \in Region(x, l)
  BY BlocksInArena DEF Region
<1>4. ASSUME node \in Candidates(heap_alloc_mask, heap_split_mask, lvl), NEW b \in live
      PROVE  Region(node, lvl) \cap Region(b.node, header[b.addr - 1]) = {}
  <2>1. node \notin heap_split_mask /\ Path(node) \cap heap_alloc_mask = {}
    BY <1>4 DEF Candidates
  <2>2. b.node \notin Path(node)
    BY <2>1 DEF HeapInv, NoNesting
  <2>3. node \notin Path(b.node)
    BY <1>1, <2>1, <2>2, SelfOnPath DEF HeapInv, NoNesting, Ancestors
  <2> QED
    BY <1>2, <2>2, <2>3, NoCommonWord
<1>5. ASSUME \A b \in live : Region(node, lvl) \cap Region(b.node, header[b.addr - 1]) = {}
      PROVE  node \in Candidates(heap_alloc_mask, heap_split_mask, lvl)
  <2>1. ASSUME node \in heap_split_mask PROVE FALSE
    <3>1. PICK b \in live : node \in Ancestors(b.node)
      BY <2>1 DEF MarksInv, Explained, UsedNodes
    <3>2. PICK l \in Levels : b.node \in NodesAt(l) /\ header[b.addr - 1] = l
      BY <1>2
    <3>3. Region(b.node, l) \subseteq Region(node, lvl)
      BY <3>1, <3>2, RegionInside DEF Ancestors
    <3> QED
      BY <1>3, <1>5, <3>2, <3>3
  <2>2. ASSUME NEW a \in Path(node), a \in heap_alloc_mask PROVE FALSE
    <3>1. PICK l \in Levels : a \in NodesAt(l)
      BY NodeHasLevel DEF Path
    <3>2. StartSlot(node, lvl) \in Region(a, l)
      BY <1>3, <3>1, RegionInside
    <3>3. Covered(a, StartSlot(node, lvl))
      BY <2>2, <3>1, <3>2, MarkedIsFull
    <3> QED
      BY <1>3, <1>5, <3>3 DEF Covered
  <2> QED
    BY <2>1, <2>2 DEF Candidates
<1> QED
  BY <1>4, <1>5

\* The words of a live block are the run it got.
LEMMA BlockRun ==
  ASSUME HeapInv, NEW b \in live
  PROVE  Promise!Run(b.addr - 1, b.slots) = Region(b.node, header[b.addr - 1])
<1>1. PICK l \in Levels : /\ b.node \in NodesAt(l) /\ b.addr = StartSlot(b.node, l) + 1
                         /\ header[b.addr - 1] = l /\ Fits(b.slots, l)
  BY DEF HeapInv, Placed
<1>2. b.slots \in Nat
  BY DEF HeapInv, TypeOK, Blocks
<1>3. Promise!Rounded(b.slots) = BlockSlots(l)
  BY <1>1, <1>2, RoundedSize
<1>4. StartSlot(b.node, l) \in Nat
  BY <1>1, BlocksInArena
<1>5. b.addr - 1 = StartSlot(b.node, l)
  BY <1>1, <1>4
<1> QED
  BY <1>1, <1>3, <1>5 DEF Promise!Run, Region

\* The free runs of a size are the words of the nodes the search can return.
LEMMA FreeRunsFound ==
  ASSUME HeapInv, MarksInv, NEW n \in Nat, NEW lvl \in Levels, Fits(n, lvl)
  PROVE  Promise!FreeRuns(n)
           = {StartSlot(node, lvl) : node \in Candidates(heap_alloc_mask, heap_split_mask, lvl)}
<1> DEFINE q == BlockSlots(lvl)
           Starts == {HEAP_RAM_START + k * q : k \in 0..(BUDDY_ARENA_SIZE \div q - 1)}
           IsFree(first) == \A b \in live : first..(first + q - 1)
                                           \cap Region(b.node, header[b.addr - 1]) = {}
<1>1. Promise!Rounded(n) = q
  BY RoundedSize
<1>2. n + 1 <= BUDDY_ARENA_SIZE
  <2>1. 0 \in Nat /\ q \in Nat \ {0} /\ BUDDY_ARENA_SIZE \in Nat \ {0}
    BY BlockPower, TreeSizes
  <2>2. q <= BUDDY_ARENA_SIZE
    <3>1. MaxLevel \in Levels /\ MaxLevel - lvl \in Levels /\ MaxLevel - lvl <= MaxLevel
      BY BlockPower, TreeAssumption DEF Levels
    <3> QED
      BY <3>1, BlockPower, PowersGrow DEF BUDDY_ARENA_SIZE
  <2> QED
    BY <2>1, <2>2 DEF Fits
<1>3. Promise!FreeRuns(n) = {first \in Starts : IsFree(first)}
  <2>1. \A first : (\A c \in {[addr |-> b.addr, slots |-> b.slots] : b \in live} :
                      Promise!Run(first, n) \cap Promise!Run(c.addr - 1, c.slots) = {})
                   <=> IsFree(first)
    <3> TAKE first
    <3> DEFINE Seen(b) == [addr |-> b.addr, slots |-> b.slots]
               Clear(c) == Promise!Run(first, n) \cap Promise!Run(c.addr - 1, c.slots) = {}
    <3>1. Promise!Run(first, n) = first..(first + q - 1)
      BY <1>1 DEF Promise!Run
    <3>2. \A b \in live :
            Clear(Seen(b)) <=> first..(first + q - 1) \cap Region(b.node, header[b.addr - 1]) = {}
      <4> TAKE b \in live
      <4>1. Seen(b).addr = b.addr /\ Seen(b).slots = b.slots
        OBVIOUS
      <4> HIDE DEF Seen, q
      <4> QED
        BY <3>1, <4>1, BlockRun
    <3>3. (\A c \in {Seen(b) : b \in live} : Clear(c)) <=> \A b \in live : Clear(Seen(b))
      <4> HIDE DEF Seen, Clear
      <4> QED
        OBVIOUS
    <3> HIDE DEF q
    <3> QED
      BY <3>2, <3>3
  <2>2. ~(n + 1 > BUDDY_ARENA_SIZE)
    BY <1>2, TreeSizes
  <2>3. Promise!ArenaSize = BUDDY_ARENA_SIZE
    BY DEF Promise!ArenaSize, BUDDY_ARENA_SIZE
  <2> HIDE DEF IsFree, q
  <2> QED
    BY <1>1, <2>1, <2>2, <2>3 DEF Promise!FreeRuns
<1>4. Starts = {StartSlot(node, lvl) : node \in NodesAt(lvl)}
  <2>1. PICK p \in Nat \ {0} : p = 2^lvl /\ BUDDY_ARENA_SIZE \div q = p /\ 2^(lvl + 1) = 2 * p
    BY BlockPower, PowersOfTwo DEF Levels
  <2>2. q \in Nat
    BY BlockPower
  <2> HIDE DEF q
  <2>3. \A k \in 0..(p - 1) : /\ k + p - 1 \in NodesAt(lvl)
                             /\ StartSlot(k + p - 1, lvl) = HEAP_RAM_START + k * q
    <3> SUFFICES ASSUME NEW k \in 0..(p - 1)
                 PROVE  /\ k + p - 1 \in NodesAt(lvl)
                        /\ StartSlot(k + p - 1, lvl) = HEAP_RAM_START + k * q
      OBVIOUS
    <3>1. k + p - 1 \in NodesAt(lvl)
      BY <2>1 DEF NodesAt, get_index_level
    <3>2. (k + p - 1) - (p - 1) = k
      OBVIOUS
    <3> QED
      BY <2>1, <3>1, <3>2 DEF StartSlot, get_index_level, q
  <2>4. \A node \in NodesAt(lvl) : node - (p - 1) \in 0..(p - 1) /\ node = (node - (p - 1)) + p - 1
    BY <2>1 DEF NodesAt, get_index_level
  <2>5. \A k \in 0..(p - 1) : HEAP_RAM_START + k * q \in {StartSlot(node, lvl) : node \in NodesAt(lvl)}
    BY <2>3
  <2>6. \A node \in NodesAt(lvl) :
          \E k \in 0..(p - 1) : StartSlot(node, lvl) = HEAP_RAM_START + k * q
    BY <2>3, <2>4
  <2> QED
    BY <2>1, <2>5, <2>6
<1>5. \A node \in NodesAt(lvl) :
        IsFree(StartSlot(node, lvl)) <=> node \in Candidates(heap_alloc_mask, heap_split_mask, lvl)
  BY FreeIsCandidate DEF Region
<1>6. Candidates(heap_alloc_mask, heap_split_mask, lvl) \subseteq NodesAt(lvl)
  BY DEF Candidates
<1> HIDE DEF IsFree, Starts
<1> QED
  BY <1>3, <1>4, <1>5, <1>6

----------------------------------------------------------------------------
(* The steps.                                                               *)

\* The words and the header fit, or the sum has wrapped around.
LEMMA RequestSize ==
  ASSUME NEW n \in Sizes
  PROVE  /\ n \in Nat /\ TotalSlots(n) \in Nat
         /\ n + 1 <= BUDDY_ARENA_SIZE
              <=> TotalSlots(n) # 0 /\ TotalSlots(n) <= BUDDY_ARENA_SIZE
         /\ TotalSlots(n) # 0 => TotalSlots(n) = n + 1
<1>1. n \in Nat /\ n <= WORD_MOD - 1 /\ WORD_MOD \in Nat
  BY SizesAssumption, TreeAssumption
<1>2. BUDDY_ARENA_SIZE < WORD_MOD /\ BUDDY_ARENA_SIZE \in Nat
  BY ArenaAssumption, TreeAssumption, TreeSizes DEF BUDDY_ARENA_SIZE
<1>3. CASE n = WORD_MOD - 1
  <2>1. n + 1 = WORD_MOD /\ WORD_MOD % WORD_MOD = 0
    BY <1>1, <1>2, <1>3
  <2> QED
    BY <1>1, <1>2, <2>1 DEF TotalSlots
<1>4. CASE n # WORD_MOD - 1
  <2>1. (n + 1) % WORD_MOD = n + 1
    BY <1>1, <1>4
  <2> QED
    BY <1>1, <1>2, <2>1 DEF TotalSlots
<1> QED
  BY <1>3, <1>4

\* The least node has the lowest run.
LEMMA AllocStep ==
  ASSUME HeapInv, MarksInv, NEW n \in Sizes, MallocOk(n)
  PROVE  Promise!Alloc(n)
<1>1. PICK lvl \in Levels, node \in Nodes :
        /\ node \in NodesAt(lvl)
        /\ IsTargetLevel(lvl, TotalSlots(n))
        /\ FirstOf(Candidates(heap_alloc_mask, heap_split_mask, lvl), node)
        /\ live' = live \cup {[addr |-> StartSlot(node, lvl) + 1, slots |-> n, node |-> node]}
        /\ ret' = [slots |-> n, addr |-> StartSlot(node, lvl) + 1]
  BY MallocOkStep
<1> DEFINE found == Candidates(heap_alloc_mask, heap_split_mask, lvl)
<1>2. n \in Nat /\ Fits(n, lvl)
  <2>1. TotalSlots(n) # 0
    BY DEF MallocOk, Searches
  <2> QED
    BY <1>1, <2>1, RequestSize DEF IsTargetLevel, Fits
<1>3. Promise!FreeRuns(n) = {StartSlot(j, lvl) : j \in found}
  BY <1>2, FreeRunsFound
<1>4. node \in found /\ found \subseteq NodesAt(lvl) /\ \A j \in found : node <= j
  BY <1>1 DEF FirstOf, Candidates
<1>5. \A j \in found : StartSlot(node, lvl) <= StartSlot(j, lvl)
  <2> SUFFICES ASSUME NEW j \in found PROVE StartSlot(node, lvl) <= StartSlot(j, lvl)
    OBVIOUS
  <2>1. PICK q \in Nat, S \in Nat, p \in Nat :
          q = BlockSlots(lvl) /\ S = HEAP_RAM_START /\ p = get_index_level(lvl)
    BY BlockPower, TreeAssumption, TreeSizes DEF get_index_level
  <2>2. /\ j \in Nat /\ node \in Nat /\ node <= j /\ p <= node
    BY <1>1, <1>4, <2>1, LevelNodes DEF NodesAt
  <2>3. PICK a \in Nat, b \in Nat : a = node - p /\ b = j - p /\ a <= b
    BY <2>1, <2>2
  <2>4. a * q <= b * q /\ a * q \in Nat /\ b * q \in Nat
    BY <2>3
  <2> QED
    BY <2>1, <2>3, <2>4 DEF StartSlot
<1> HIDE DEF found
<1>6. /\ StartSlot(node, lvl) \in Promise!FreeRuns(n)
      /\ \A other \in Promise!FreeRuns(n) : StartSlot(node, lvl) <= other
  BY <1>3, <1>4, <1>5
<1>7. {[addr |-> b.addr, slots |-> b.slots] : b \in live'}
        = {[addr |-> b.addr, slots |-> b.slots] : b \in live}
            \cup {[addr |-> StartSlot(node, lvl) + 1, slots |-> n]}
  <2> DEFINE Seen(b) == [addr |-> b.addr, slots |-> b.slots]
             new == [addr |-> StartSlot(node, lvl) + 1, slots |-> n, node |-> node]
  <2>1. Seen(new) = [addr |-> StartSlot(node, lvl) + 1, slots |-> n] /\ live' = live \cup {new}
    BY <1>1
  <2>2. {Seen(b) : b \in live'} = {Seen(b) : b \in live} \cup {Seen(new)}
    <3> HIDE DEF Seen, new
    <3> QED
      BY <2>1
  <2> QED
    BY <2>1, <2>2
<1> QED
  BY <1>1, <1>6, <1>7 DEF Promise!Alloc

\* Without a candidate there is no free run.
LEMMA RefuseStep ==
  ASSUME HeapInv, MarksInv, NEW n \in Sizes, MallocRefused(n) \/ MallocFull(n)
  PROVE  Promise!Refuse(n)
<1>1. ret' = [slots |-> n, addr |-> WORD_MOD - 1] /\ live' = live
  BY DEF MallocRefused, MallocFull, Fails, FAIL
<1>2. Promise!FreeRuns(n) = {}
  <2>1. CASE MallocRefused(n)
    <3>1. ~(n + 1 <= BUDDY_ARENA_SIZE) /\ n \in Nat
      BY <2>1, RequestSize, TreeSizes DEF MallocRefused
    <3>2. n + 1 > Promise!ArenaSize
      BY <3>1, TreeSizes DEF Promise!ArenaSize, BUDDY_ARENA_SIZE
    <3> QED
      BY <3>2 DEF Promise!FreeRuns
  <2>2. CASE MallocFull(n)
    <3>1. PICK lvl \in Levels :
            /\ TotalSlots(n) # 0 /\ IsTargetLevel(lvl, TotalSlots(n))
            /\ Candidates(heap_alloc_mask, heap_split_mask, lvl) = {}
      BY <2>2 DEF MallocFull, Searches
    <3>2. n \in Nat /\ Fits(n, lvl)
      BY <3>1, RequestSize DEF IsTargetLevel, Fits
    <3> QED
      BY <3>1, <3>2, FreeRunsFound
  <2> QED
    BY <2>1, <2>2
<1> QED
  BY <1>1, <1>2 DEF Promise!Refuse, Promise!Nowhere

\* No other block has the address of the one that is freed.
LEMMA FreeStep ==
  ASSUME HeapInv, NEW block \in live, FreeBlock(block)
  PROVE  /\ Promise!Free([addr |-> block.addr, slots |-> block.slots])
         /\ [addr |-> block.addr, slots |-> block.slots]
              \in {[addr |-> c.addr, slots |-> c.slots] : c \in live}
<1>1. live' = live \ {block} /\ ret' = ret
  BY DEF FreeBlock, Release
<1>2. \A c \in live : c # block => c.addr # block.addr
  <2> SUFFICES ASSUME NEW c \in live, c # block, c.addr = block.addr PROVE FALSE
    OBVIOUS
  <2>1. PICK l \in Levels : /\ c.node \in NodesAt(l) /\ c.addr = StartSlot(c.node, l) + 1
                           /\ header[c.addr - 1] = l
    BY DEF HeapInv, Placed
  <2>2. PICK m \in Levels : /\ block.node \in NodesAt(m) /\ block.addr = StartSlot(block.node, m) + 1
                           /\ header[block.addr - 1] = m
    BY DEF HeapInv, Placed
  <2>3. Region(c.node, l) \cap Region(block.node, m) = {}
    BY <2>1, <2>2, NoCommonWord DEF HeapInv, NoNesting
  <2>4. /\ StartSlot(c.node, l) \in Nat /\ StartSlot(block.node, m) \in Nat
        /\ StartSlot(c.node, l) \in Region(c.node, l)
        /\ StartSlot(block.node, m) \in Region(block.node, m)
    BY <2>1, <2>2, BlocksInArena DEF Region
  <2>5. StartSlot(c.node, l) = StartSlot(block.node, m)
    <3> DEFINE x == StartSlot(c.node, l)
               y == StartSlot(block.node, m)
    <3>1. x \in Nat /\ y \in Nat
      BY <2>4
    <3>2. x + 1 = y + 1
      BY <2>1, <2>2
    <3> HIDE DEF x, y
    <3>3. x = y
      BY <3>1, <3>2
    <3> QED
      BY <3>3 DEF x, y
  <2> QED
    BY <2>3, <2>4, <2>5
<1> DEFINE Seen(c) == [addr |-> c.addr, slots |-> c.slots]
<1>3. {Seen(c) : c \in live'} = {Seen(c) : c \in live} \ {Seen(block)}
  <2>1. \A c \in live : c # block => Seen(c) # Seen(block)
    BY <1>2
  <2> HIDE DEF Seen
  <2> QED
    BY <1>1, <2>1
<1>4. Promise!Free(Seen(block))
  BY <1>1, <1>3 DEF Promise!Free
<1>5. Seen(block) \in {Seen(c) : c \in live}
  OBVIOUS
<1> QED
  BY <1>4, <1>5

\* The program cannot tell the allocator with its tree and its masks from one
\* that gives out the lowest aligned free run, and fails only when there is none.
THEOREM BuddyImplementsHeap == Spec => ImplementsHeapSpec
<1>1. Init => Promise!Init
  BY DEF Init, Promise!Init, Promise!Nowhere, FAIL
<1>2. HeapInv /\ MarksInv /\ [Next]_vars => [Promise!Next]_(Promise!vars)
  <2> SUFFICES ASSUME HeapInv, MarksInv, [Next]_vars
               PROVE  Promise!Next \/ UNCHANGED Promise!vars
    OBVIOUS
  <2>1. ASSUME NEW n \in Sizes, Malloc(n) PROVE Promise!Next
    BY <2>1, AllocStep, RefuseStep DEF Malloc, Promise!Next
  <2>2. ASSUME NEW block \in live, FreeBlock(block) PROVE Promise!Next
    BY <2>2, FreeStep DEF Promise!Next
  <2>3. CASE FreeRejected(FAIL) \/ UNCHANGED vars
    <3>1. live' = live /\ ret' = ret
      BY <2>3 DEF FreeRejected, vars
    <3> QED
      BY <3>1 DEF Promise!vars
  <2> QED
    BY <2>1, <2>2, <2>3 DEF Next
<1> QED
  BY <1>1, <1>2, HeapInvariant, MarksInvariant, PTL DEF Spec, ImplementsHeapSpec, Promise!Spec

----------------------------------------------------------------------------
(* The recursion and the loops.  Each is a recursive function, known only   *)
(* as some solution of its equation.  A closed form that solves the         *)
(* equation shows that there is one, and by descent on the argument there   *)
(* is no other: the function is the closed form.                            *)

\* The path of a node is the node and the path of its parent.
LEMMA PathUp ==
  ASSUME NEW i \in Nodes, i # 0
  PROVE  /\ Parent(i) \in Nodes /\ Parent(i) < i
         /\ Path(i) = Path(Parent(i)) \cup {i} /\ Ancestors(i) = Path(Parent(i))
<1>1. i \in Path(i) /\ Parent(i) \in Path(i) /\ Parent(i) < i
  BY SelfOnPath, ParentOnPath
<1>2. Parent(i) \in Nodes /\ i \in Nat /\ Parent(i) \in Nat
  BY <1>1, PathBelow, TreeSizes DEF Nodes
<1>3. \A x \in Path(i) : x # i => x \in Path(Parent(i))
  <2> SUFFICES ASSUME NEW x \in Path(i), x # i PROVE x \in Path(Parent(i))
    OBVIOUS
  <2>1. x \in Nat /\ x < i
    BY <1>2, PathBelow, TreeSizes DEF Nodes
  <2>2. x <= Parent(i)
    BY <1>1, <2>1, PathOrder
  <2> QED
    BY <1>1, <1>2, <2>2, SelfOnPath, PathsMeet
<1>4. \A x \in Path(Parent(i)) : x \in Path(i) /\ x # i
  <2> SUFFICES ASSUME NEW x \in Path(Parent(i)) PROVE x \in Path(i) /\ x # i
    OBVIOUS
  <2>1. x \in Nat /\ x <= Parent(i)
    BY <1>2, PathBelow, TreeSizes DEF Nodes
  <2>2. x \in Path(i)
    BY <1>1, <1>2, <2>1, SelfOnPath, PathsMeet
  <2> QED
    BY <1>1, <1>2, <2>1, <2>2
<1> QED
  BY <1>1, <1>2, <1>3, <1>4 DEF Ancestors

\* The root has no ancestors.
LEMMA RootAlone == 0 \in Nodes /\ Path(0) = {0} /\ Ancestors(0) = {}
<1>1. 0 \in Nodes
  BY TreeSizes DEF Nodes
<1>2. \A x \in Path(0) : x = 0
  BY <1>1, PathBelow, TreeSizes DEF Nodes
<1> QED
  BY <1>1, <1>2, SelfOnPath DEF Ancestors

\* The root lies on every path.
LEMMA RootOnPath == \A i \in Nodes : 0 \in Path(i)
<1> TAKE i \in Nodes
<1>1. PICK m \in Path(i) : \A x \in Path(i) : m <= x
  <2>1. Path(i) \in SUBSET Nat /\ Path(i) # {}
    BY SelfOnPath, PathBelow, TreeSizes DEF Nodes
  <2> QED
    BY <2>1, LeastNumber
<1>2. m # 0 => Parent(m) \in Path(i) /\ Parent(m) < m
  BY ParentOnPath
<1>3. m \in Nat /\ (m # 0 => Parent(m) \in Nat)
  BY <1>2, PathBelow, TreeSizes DEF Nodes
<1> QED
  BY <1>1, <1>2, <1>3

\* A set from each element of which another of lower rank is reached is empty.
LEMMA NoDescent ==
  ASSUME NEW D, NEW rank \in [D -> Nat], NEW T \in SUBSET D,
         \A s \in T : \E r \in T : rank[r] < rank[s]
  PROVE  T = {}
<1> DEFINE R == {rank[s] : s \in T}
<1> SUFFICES ASSUME T # {} PROVE FALSE
  OBVIOUS
<1>1. R \in SUBSET Nat /\ R # {}
  OBVIOUS
<1>2. PICK n \in R : \A k \in R : n <= k
  <2> HIDE DEF R
  <2> QED
    BY <1>1, LeastNumber
<1>3. PICK s \in T, r \in T : n = rank[s] /\ rank[r] < rank[s]
  BY <1>2
<1> QED
  BY <1>1, <1>2, <1>3

----------------------------------------------------------------------------
MarkBody(f, s) ==
  IF s.idx > 0 /\ Sibling(s.idx) \in s.alloc
  THEN f[[alloc |-> s.alloc \cup {Parent(s.idx)}, idx |-> Parent(s.idx)]]
  ELSE s.alloc
Marked(s) ==
  s.alloc \cup {a \in Ancestors(s.idx) :
                  \A d \in Path(s.idx) : d > a => Sibling(d) \in s.alloc}

\* The marks of a walk up are those of one iteration and of the walk from there.
LEMMA MarkedOnce ==
  ASSUME NEW s \in MarkStates
  PROVE  Marked(s) = MarkBody([x \in MarkStates |-> Marked(x)], s)
<1> DEFINE p == Parent(s.idx)
           up == [alloc |-> s.alloc \cup {p}, idx |-> p]
<1>1. s.alloc \in SUBSET Nodes /\ s.idx \in Nodes /\ s.idx \in Nat
  BY TreeSizes DEF MarkStates, Nodes
<1>2. CASE s.idx = 0
  BY <1>2, RootAlone DEF Marked, MarkBody
<1>3. CASE s.idx # 0 /\ Sibling(s.idx) \notin s.alloc
  <2>1. \A a \in Ancestors(s.idx) : s.idx > a
    BY <1>1, PathBelow, TreeSizes DEF Ancestors, Nodes
  <2>2. Marked(s) = s.alloc
    BY <1>1, <1>3, <2>1, SelfOnPath DEF Marked
  <2> QED
    BY <1>3, <2>2 DEF MarkBody
<1>4. CASE s.idx # 0 /\ Sibling(s.idx) \in s.alloc
  <2>1. /\ p \in Nodes /\ p \in Nat /\ p < s.idx
        /\ Path(s.idx) = Path(p) \cup {s.idx} /\ Ancestors(s.idx) = Path(p)
    BY <1>1, <1>4, PathUp, TreeSizes DEF Nodes
  <2>2. \A d \in Path(p) : d \in Nat /\ d <= p /\ (d # 0 => Sibling(d) # p)
    BY <2>1, PathBelow, SelfOnPath, SiblingOffPath, TreeSizes DEF Nodes
  <2>3. up \in MarkStates /\ up.idx = p /\ up.alloc = s.alloc \cup {p}
    BY <1>1, <2>1 DEF MarkStates
  <2> DEFINE Full(a, marks) == \A d \in Path(p) : d > a => Sibling(d) \in marks
  <2>4. Marked(up) = s.alloc \cup {p} \cup {a \in Path(p) \ {p} : Full(a, s.alloc \cup {p})}
    BY <2>3 DEF Marked, Ancestors
  <2>5. \A a \in Path(p) : Full(a, s.alloc \cup {p}) <=> Full(a, s.alloc)
    <3> SUFFICES ASSUME NEW a \in Path(p), NEW d \in Path(p), d > a
                 PROVE  Sibling(d) \in s.alloc \cup {p} <=> Sibling(d) \in s.alloc
      OBVIOUS
    <3>1. d # 0
      BY <2>2
    <3> QED
      BY <2>2, <3>1
  <2>6. Marked(s) = s.alloc \cup {a \in Path(p) : Full(a, s.alloc)}
    BY <1>4, <2>1 DEF Marked
  <2>7. p \in Path(p) /\ Full(p, s.alloc)
    BY <2>1, <2>2, SelfOnPath
  <2> HIDE DEF Full, up
  <2>8. Marked(s) = Marked(up)
    BY <2>4, <2>5, <2>6, <2>7
  <2>9. s.idx > 0
    BY <1>1, <1>4
  <2> QED
    BY <1>4, <2>3, <2>8, <2>9 DEF MarkBody, up
<1> QED
  BY <1>2, <1>3, <1>4

\* The loop of buddy_mark_allocated marks what Marked says.
LEMMA MarkLoopMarks == \A s \in MarkStates : MarkLoop[s] = Marked(s)
<1> DEFINE g == [x \in MarkStates |-> Marked(x)]
           rank == [x \in MarkStates |-> x.idx]
           T == {x \in MarkStates : MarkLoop[x] # g[x]}
<1>1. g = [s \in MarkStates |-> MarkBody(g, s)]
  BY MarkedOnce
<1>2. MarkLoop = [s \in MarkStates |-> MarkBody(MarkLoop, s)]
  <2> HIDE DEF g
  <2> QED
    BY <1>1 DEF MarkLoop, MarkBody, MarkStates
<1>3. ASSUME NEW s \in T PROVE \E r \in T : rank[r] < rank[s]
  <2> DEFINE up == [alloc |-> s.alloc \cup {Parent(s.idx)}, idx |-> Parent(s.idx)]
  <2>1. s \in MarkStates /\ s.idx \in Nodes /\ s.alloc \in SUBSET Nodes
    BY DEF MarkStates
  <2>2. MarkLoop[s] = MarkBody(MarkLoop, s) /\ g[s] = MarkBody(g, s)
    <3> HIDE DEF g
    <3> QED
      BY <1>1, <1>2, <2>1
  <2>3. s.idx > 0 /\ MarkLoop[up] # g[up]
    <3>1. MarkLoop[s] # g[s]
      OBVIOUS
    <3> HIDE DEF g
    <3> QED
      BY <2>2, <3>1 DEF MarkBody
  <2>4. Parent(s.idx) \in Nodes /\ Parent(s.idx) < s.idx
    BY <2>1, <2>3, PathUp, TreeSizes DEF Nodes
  <2>5. up \in T /\ up.idx = Parent(s.idx)
    <3> HIDE DEF g
    <3> QED
      BY <2>1, <2>3, <2>4 DEF MarkStates
  <2> QED
    BY <2>1, <2>4, <2>5
<1>4. rank \in [MarkStates -> Nat]
  BY TreeSizes DEF MarkStates, Nodes
<1>5. T = {}
  <2> HIDE DEF g, rank
  <2> QED
    BY <1>3, <1>4, NoDescent
<1> QED
  BY <1>5

\* The loop that clears the parents' allocated bits, likewise
ClearBody(f, s) ==
  IF s.curr > 0 /\ Parent(s.curr) \in s.alloc
  THEN f[[alloc |-> s.alloc \ {Parent(s.curr)}, curr |-> Parent(s.curr)]]
  ELSE s.alloc
Cleared(s) ==
  s.alloc \ {a \in Ancestors(s.curr) : \A d \in Ancestors(s.curr) : d >= a => d \in s.alloc}

\* A walk that clears stops at the first parent that is not marked.
LEMMA ClearedOnce ==
  ASSUME NEW s \in ClearStates
  PROVE  Cleared(s) = ClearBody([x \in ClearStates |-> Cleared(x)], s)
<1> DEFINE p == Parent(s.curr)
           up == [alloc |-> s.alloc \ {p}, curr |-> p]
<1>1. s.alloc \in SUBSET Nodes /\ s.curr \in Nodes /\ s.curr \in Nat
  BY TreeSizes DEF ClearStates, Nodes
<1>2. CASE s.curr = 0
  BY <1>2, RootAlone DEF Cleared, ClearBody
<1>3. CASE s.curr # 0
  <2>1. p \in Nodes /\ p \in Nat /\ p < s.curr /\ Ancestors(s.curr) = Path(p)
    BY <1>1, <1>3, PathUp, TreeSizes DEF Nodes
  <2>2. p \in Path(p) /\ \A d \in Path(p) : d \in Nat /\ d <= p
    BY <2>1, PathBelow, SelfOnPath, TreeSizes DEF Nodes
  <2>3. Cleared(s) = s.alloc \ {a \in Path(p) : \A d \in Path(p) : d >= a => d \in s.alloc}
    BY <2>1 DEF Cleared
  <2>4. s.curr > 0
    BY <1>1, <1>3
  <2>5. CASE p \notin s.alloc
    <3>1. Cleared(s) = s.alloc
      BY <2>2, <2>3, <2>5
    <3> QED
      BY <2>5, <3>1 DEF ClearBody
  <2>6. CASE p \in s.alloc
    <3>1. up \in ClearStates /\ up.curr = p /\ up.alloc = s.alloc \ {p}
      BY <1>1, <2>1 DEF ClearStates
    <3> DEFINE Full(a) == \A d \in Path(p) : d >= a => d \in s.alloc
               FullUp(a) == \A d \in Path(p) \ {p} : d >= a => d \in s.alloc \ {p}
    <3>2. Cleared(up) = (s.alloc \ {p}) \ {a \in Path(p) \ {p} : FullUp(a)}
      BY <3>1 DEF Cleared, Ancestors
    <3>3. Cleared(s) = s.alloc \ {a \in Path(p) : Full(a)}
      BY <2>3
    <3>4. Full(p) /\ \A a \in Path(p) : Full(a) <=> FullUp(a)
      BY <2>2, <2>6
    <3>5. Cleared(s) = Cleared(up)
      <4> HIDE DEF up, Full, FullUp
      <4> QED
        BY <2>2, <3>2, <3>3, <3>4
    <3> HIDE DEF up
    <3> QED
      BY <2>4, <2>6, <3>1, <3>5 DEF ClearBody, up
  <2> QED
    BY <2>5, <2>6
<1> QED
  BY <1>2, <1>3

\* The loop of step 4 of free_heap leaves what Cleared says.
LEMMA ClearLoopClears == \A s \in ClearStates : ClearLoop[s] = Cleared(s)
<1> DEFINE g == [x \in ClearStates |-> Cleared(x)]
           rank == [x \in ClearStates |-> x.curr]
           T == {x \in ClearStates : ClearLoop[x] # g[x]}
<1>1. g = [s \in ClearStates |-> ClearBody(g, s)]
  BY ClearedOnce
<1>2. ClearLoop = [s \in ClearStates |-> ClearBody(ClearLoop, s)]
  <2> HIDE DEF g
  <2> QED
    BY <1>1 DEF ClearLoop, ClearBody, ClearStates
<1>3. ASSUME NEW s \in T PROVE \E r \in T : rank[r] < rank[s]
  <2> DEFINE up == [alloc |-> s.alloc \ {Parent(s.curr)}, curr |-> Parent(s.curr)]
  <2>1. s \in ClearStates /\ s.curr \in Nodes /\ s.alloc \in SUBSET Nodes
    BY DEF ClearStates
  <2>2. ClearLoop[s] = ClearBody(ClearLoop, s) /\ g[s] = ClearBody(g, s)
    <3> HIDE DEF g
    <3> QED
      BY <1>1, <1>2, <2>1
  <2>3. s.curr > 0 /\ ClearLoop[up] # g[up]
    <3>1. ClearLoop[s] # g[s]
      OBVIOUS
    <3> HIDE DEF g
    <3> QED
      BY <2>2, <3>1 DEF ClearBody
  <2>4. Parent(s.curr) \in Nodes /\ Parent(s.curr) < s.curr
    BY <2>1, <2>3, PathUp, TreeSizes DEF Nodes
  <2>5. up \in T /\ up.curr = Parent(s.curr)
    <3> HIDE DEF g
    <3> QED
      BY <2>1, <2>3, <2>4 DEF ClearStates
  <2> QED
    BY <2>1, <2>4, <2>5
<1>4. rank \in [ClearStates -> Nat]
  BY TreeSizes DEF ClearStates, Nodes
<1>5. T = {}
  <2> HIDE DEF g, rank
  <2> QED
    BY <1>3, <1>4, NoDescent
<1> QED
  BY <1>5

\* The loop that takes the parents' split bits, likewise
CoalesceBody(f, s) ==
  IF s.idx > 0 /\ Sibling(s.idx) \notin s.alloc /\ Sibling(s.idx) \notin s.split
  THEN f[[s EXCEPT !.split = @ \ {Parent(s.idx)}, !.idx = Parent(s.idx)]]
  ELSE s.split
Coalesced(s) == Coalesce(s.alloc, s.split, s.idx)

\* A walk that coalesces stops at the first sibling in use; a split bit that it
\* has taken is never one that it reads.
LEMMA CoalescedOnce ==
  ASSUME NEW s \in CoalesceStates
  PROVE  Coalesced(s) = CoalesceBody([x \in CoalesceStates |-> Coalesced(x)], s)
<1> DEFINE p == Parent(s.idx)
           up == [s EXCEPT !.split = @ \ {p}, !.idx = p]
           InUse == s.alloc \cup s.split
<1>1. /\ s.alloc \in SUBSET Nodes /\ s.split \in SUBSET Nodes
      /\ s.idx \in Nodes /\ s.idx \in Nat
  BY TreeSizes DEF CoalesceStates, Nodes
<1>2. CASE s.idx = 0
  BY <1>2, RootAlone DEF Coalesced, Coalesce, CoalesceBody
<1>3. CASE s.idx # 0 /\ Sibling(s.idx) \in InUse
  <2>1. \A a \in Ancestors(s.idx) : s.idx > a
    BY <1>1, PathBelow, TreeSizes DEF Ancestors, Nodes
  <2>2. Coalesced(s) = s.split
    BY <1>1, <1>3, <2>1, SelfOnPath DEF Coalesced, Coalesce
  <2> QED
    BY <1>3, <2>2 DEF CoalesceBody
<1>4. CASE s.idx # 0 /\ Sibling(s.idx) \notin InUse
  <2>1. /\ p \in Nodes /\ p \in Nat /\ p < s.idx
        /\ Path(s.idx) = Path(p) \cup {s.idx} /\ Ancestors(s.idx) = Path(p)
    BY <1>1, <1>4, PathUp, TreeSizes DEF Nodes
  <2>2. \A d \in Path(p) : d \in Nat /\ d <= p /\ (d # 0 => Sibling(d) # p)
    BY <2>1, PathBelow, SelfOnPath, SiblingOffPath, TreeSizes DEF Nodes
  <2>3. up \in CoalesceStates /\ up.idx = p /\ up.split = s.split \ {p} /\ up.alloc = s.alloc
    BY <1>1, <2>1 DEF CoalesceStates
  <2> DEFINE Free(a, marks) == \A d \in Path(p) : d > a => Sibling(d) \notin marks
  <2>4. Coalesced(up) = (s.split \ {p}) \ {a \in Path(p) \ {p} : Free(a, InUse \ {p})}
    <3>1. \A a \in Path(p) : Free(a, s.alloc \cup (s.split \ {p})) <=> Free(a, InUse \ {p})
      <4> SUFFICES ASSUME NEW a \in Path(p), NEW d \in Path(p), d > a
                   PROVE  Sibling(d) \notin s.alloc \cup (s.split \ {p})
                            <=> Sibling(d) \notin InUse \ {p}
        OBVIOUS
      <4>1. d # 0
        BY <2>2
      <4> QED
        BY <2>2, <4>1
    <3>2. Coalesced(up) = (s.split \ {p}) \
             {a \in Path(p) \ {p} : Free(a, s.alloc \cup (s.split \ {p}))}
      BY <2>3 DEF Coalesced, Coalesce, Ancestors
    <3> HIDE DEF Free, up, InUse
    <3> QED
      BY <3>1, <3>2
  <2>5. \A a \in Path(p) : Free(a, InUse \ {p}) <=> Free(a, InUse)
    <3> SUFFICES ASSUME NEW a \in Path(p), NEW d \in Path(p), d > a
                 PROVE  Sibling(d) \notin InUse \ {p} <=> Sibling(d) \notin InUse
      OBVIOUS
    <3>1. d # 0
      BY <2>2
    <3> QED
      BY <2>2, <3>1
  <2>6. Coalesced(s) = s.split \ {a \in Path(p) : Free(a, InUse)}
    BY <1>4, <2>1 DEF Coalesced, Coalesce
  <2>7. p \in Path(p) /\ Free(p, InUse)
    BY <2>1, <2>2, SelfOnPath
  <2>8. Coalesced(s) = Coalesced(up)
    <3> HIDE DEF Free, up, InUse
    <3> QED
      BY <2>4, <2>5, <2>6, <2>7
  <2>9. s.idx > 0
    BY <1>1, <1>4
  <2> HIDE DEF Free
  <2> QED
    BY <1>4, <2>3, <2>8, <2>9 DEF CoalesceBody
<1> QED
  BY <1>2, <1>3, <1>4

\* The loop of step 5 of free_heap leaves what Coalesce says.
LEMMA CoalesceLoopCoalesces == \A s \in CoalesceStates : CoalesceLoop[s] = Coalesced(s)
<1> DEFINE g == [x \in CoalesceStates |-> Coalesced(x)]
           rank == [x \in CoalesceStates |-> x.idx]
           T == {x \in CoalesceStates : CoalesceLoop[x] # g[x]}
<1>1. g = [s \in CoalesceStates |-> CoalesceBody(g, s)]
  BY CoalescedOnce
<1>2. CoalesceLoop = [s \in CoalesceStates |-> CoalesceBody(CoalesceLoop, s)]
  <2> HIDE DEF g
  <2> QED
    BY <1>1 DEF CoalesceLoop, CoalesceBody, CoalesceStates
<1>3. ASSUME NEW s \in T PROVE \E r \in T : rank[r] < rank[s]
  <2> DEFINE up == [s EXCEPT !.split = @ \ {Parent(s.idx)}, !.idx = Parent(s.idx)]
  <2>1. s \in CoalesceStates /\ s.idx \in Nodes /\ s.split \in SUBSET Nodes
    BY DEF CoalesceStates
  <2>2. CoalesceLoop[s] = CoalesceBody(CoalesceLoop, s) /\ g[s] = CoalesceBody(g, s)
    <3> HIDE DEF g
    <3> QED
      BY <1>1, <1>2, <2>1
  <2>3. s.idx > 0 /\ CoalesceLoop[up] # g[up]
    <3>1. CoalesceLoop[s] # g[s]
      OBVIOUS
    <3> HIDE DEF g
    <3> QED
      BY <2>2, <3>1 DEF CoalesceBody
  <2>4. Parent(s.idx) \in Nodes /\ Parent(s.idx) < s.idx
    BY <2>1, <2>3, PathUp, TreeSizes DEF Nodes
  <2>5. up \in T /\ up.idx = Parent(s.idx)
    <3> HIDE DEF g
    <3> QED
      BY <2>1, <2>3, <2>4 DEF CoalesceStates
  <2> QED
    BY <2>1, <2>4, <2>5
<1>4. rank \in [CoalesceStates -> Nat]
  BY TreeSizes DEF CoalesceStates, Nodes
<1>5. T = {}
  <2> HIDE DEF g, rank
  <2> QED
    BY <1>3, <1>4, NoDescent
<1> QED
  BY <1>5

\* The loops of buddy_mark_allocated and free_heap end in the sets of
\* BuddyTree, for every node and whatever the masks have gone through: the
\* marks a walk changes are never ones that it still has to read.
THEOREM LoopsAreExact == StaleSpec => []LoopsAgree
<1>1. TypeOK => LoopsAgree
  <2> SUFFICES ASSUME TypeOK, NEW i \in Nodes
               PROVE  LET cleared == ClearLoop[[alloc |-> heap_alloc_mask \ {i}, curr |-> i]]
                      IN  /\ buddy_mark_allocated(heap_alloc_mask, i)
                               = MarkAllocated(heap_alloc_mask, i)
                          /\ cleared = ClearAllocated(heap_alloc_mask, i)
                          /\ CoalesceLoop[[alloc |-> cleared, split |-> heap_split_mask,
                                            idx |-> i]]
                               = Coalesce(cleared, heap_split_mask, i)
    BY DEF LoopsAgree
  <2> DEFINE A == heap_alloc_mask
             marked == [alloc |-> A \cup {i}, idx |-> i]
             freed == [alloc |-> A \ {i}, curr |-> i]
             cleared == ClearAllocated(A, i)
             merged == [alloc |-> cleared, split |-> heap_split_mask, idx |-> i]
  <2>1. A \in SUBSET Nodes /\ heap_split_mask \in SUBSET Nodes
    BY DEF TypeOK
  <2>2. MarkLoop[marked] = MarkAllocated(A, i)
    <3>1. marked \in MarkStates
      BY <2>1 DEF MarkStates
    <3>2. i \in Path(i) /\ \A d \in Path(i) : d \in Nat /\ d <= i /\ (d # 0 => Sibling(d) # i)
      BY PathBelow, SelfOnPath, SiblingOffPath, TreeSizes DEF Nodes
    <3>3. \A a \in Path(i) :
            (\A d \in Path(i) : d > a => Sibling(d) \in A \cup {i})
              <=> (\A d \in Path(i) : d > a => Sibling(d) \in A)
      <4> SUFFICES ASSUME NEW a \in Path(i), NEW d \in Path(i), d > a
                   PROVE  Sibling(d) \in A \cup {i} <=> Sibling(d) \in A
        OBVIOUS
      <4>1. d # 0
        BY <3>2
      <4> QED
        BY <3>2, <4>1
    <3>4. \A d \in Path(i) : ~(d > i)
      BY <3>2
    <3>5. Marked(marked) = MarkAllocated(A, i)
      BY <3>2, <3>3, <3>4 DEF Marked, MarkAllocated, Ancestors
    <3> QED
      BY <3>1, <3>5, MarkLoopMarks
  <2>3. ClearLoop[freed] = cleared
    <3>1. freed \in ClearStates
      BY <2>1 DEF ClearStates
    <3>2. Cleared(freed) = cleared
      BY DEF Cleared, ClearAllocated, Ancestors
    <3> QED
      BY <3>1, <3>2, ClearLoopClears
  <2>4. CoalesceLoop[merged] = Coalesce(cleared, heap_split_mask, i)
    <3>1. merged \in CoalesceStates
      BY <2>1 DEF CoalesceStates, ClearAllocated
    <3>2. Coalesced(merged) = Coalesce(cleared, heap_split_mask, i)
      BY DEF Coalesced
    <3> QED
      BY <3>1, <3>2, CoalesceLoopCoalesces
  <2> QED
    BY <2>2, <2>3, <2>4 DEF buddy_mark_allocated
<1> QED
  BY <1>1, TypeCorrect, PTL

----------------------------------------------------------------------------
(* The search.                                                              *)

\* A node of a path is as many divisions up as there are levels between.
LEMMA PathLevel ==
  ASSUME NEW t \in Levels, NEW i \in NodesAt(t), NEW l \in Levels,
         NEW x \in Path(i), x \in NodesAt(l)
  PROVE  l <= t /\ x + 1 = (i + 1) \div 2^(t - l)
<1>1. PICK k \in Levels : x + 1 = (i + 1) \div 2^k
  BY DEF Path
<1>2. /\ i \in Nat /\ 2^t \in Nat \ {0} /\ 2^t <= i + 1 /\ i + 1 < 2 * 2^t
      /\ x \in Nat /\ k \in Nat /\ t \in Nat /\ l \in Nat
  BY LevelNodes DEF Levels
<1>3. PICK K \in Nat \ {0} : K = 2^k
  BY TreeSizes
<1>4. k <= t
  <2> SUFFICES ASSUME t < k PROVE FALSE
    BY <1>2
  <2>1. t + 1 \in Levels /\ t + 1 <= k /\ 2^(t + 1) = 2 * 2^t
    BY <1>2, TreeAssumption, PowersOfTwo DEF Levels
  <2>2. i + 1 < K
    BY <1>2, <1>3, <2>1, PowersGrow
  <2>3. (i + 1) \div K = 0
    BY <1>2, <2>2
  <2> QED
    BY <1>1, <1>2, <1>3, <2>3
<1>5. t - k \in Levels /\ t = (t - k) + k /\ t - k \in Nat
  BY <1>2, <1>4, TreeAssumption DEF Levels
<1>6. PICK L \in Nat \ {0} : L = 2^(t - k) /\ 2^(t - k + 1) = 2 * L
  BY <1>5, PowersOfTwo DEF Levels
<1>7. 2^t = L * K
  BY <1>2, <1>3, <1>5, <1>6, PowerSum DEF Levels
<1>8. L <= x + 1 /\ x + 1 < 2 * L
  <2>1. PICK n \in Nat : n = i + 1
    BY <1>2
  <2>2. PICK q \in Nat : q = x + 1
    BY <1>2
  <2>3. q = n \div K
    BY <1>1, <1>3, <2>1, <2>2
  <2>4. q * K <= n /\ n < (q + 1) * K
    BY <2>3
  <2>5. L * K <= n /\ n < (2 * L) * K
    <3>1. 2 * (L * K) = (2 * L) * K
      OBVIOUS
    <3> QED
      BY <1>2, <1>7, <2>1, <3>1
  <2>6. ~(q + 1 <= L)
    <3> SUFFICES ASSUME q + 1 <= L PROVE FALSE
      OBVIOUS
    <3>1. (q + 1) * K <= L * K
      OBVIOUS
    <3>2. (q + 1) * K \in Nat /\ L * K \in Nat
      OBVIOUS
    <3> QED
      BY <2>4, <2>5, <3>1, <3>2
  <2>7. ~(2 * L <= q)
    <3> SUFFICES ASSUME 2 * L <= q PROVE FALSE
      OBVIOUS
    <3>1. (2 * L) * K <= q * K
      OBVIOUS
    <3>2. (2 * L) * K \in Nat /\ q * K \in Nat
      OBVIOUS
    <3> QED
      BY <2>4, <2>5, <3>1, <3>2
  <2> QED
    BY <2>2, <2>6, <2>7
<1>9. x \in NodesAt(t - k)
  BY <1>2, <1>6, <1>8 DEF NodesAt, get_index_level
<1>10. l = t - k
  BY <1>5, <1>9, LevelNodes
<1>11. t - l = k /\ l <= t
  BY <1>2, <1>5, <1>10
<1> QED
  BY <1>1, <1>11

\* What lies under the left child of a node comes before what lies under the
\* right one.
LEMMA LeftFirst ==
  ASSUME NEW t \in Levels, NEW i \in NodesAt(t), NEW j \in NodesAt(t), NEW l \in Levels,
         NEW x \in NodesAt(l), NEW y \in NodesAt(l), x \in Path(i), y \in Path(j), x < y
  PROVE  i < j
<1>1. l <= t /\ x + 1 = (i + 1) \div 2^(t - l) /\ y + 1 = (j + 1) \div 2^(t - l)
  BY PathLevel
<1>2. PICK K \in Nat \ {0} : K = 2^(t - l)
  <2>1. t - l \in Levels
    BY <1>1, TreeAssumption DEF Levels
  <2> QED
    BY <2>1, TreeSizes
<1>3. PICK n \in Nat, m \in Nat : n = i + 1 /\ m = j + 1
  BY LevelNodes
<1>4. n \div K < m \div K
  BY <1>1, <1>2, <1>3, LevelNodes
<1>5. ~(m <= n)
  <2> SUFFICES ASSUME m <= n PROVE FALSE
    OBVIOUS
  <2>1. PICK p \in Nat, q \in Nat : p = n \div K /\ q = m \div K
    OBVIOUS
  <2>2. n < (p + 1) * K /\ q * K <= m
    BY <2>1
  <2>3. (p + 1) * K <= q * K
    BY <1>4, <2>1
  <2>4. (p + 1) * K \in Nat /\ q * K \in Nat
    OBVIOUS
  <2> QED
    BY <2>2, <2>3, <2>4
<1> QED
  BY <1>3, <1>5, LevelNodes

\* The nodes that a call of buddy_find_free can return: those of the level
\* under its node on whose path, from there down, nothing is marked allocated
FreeBelow(call) ==
  {i \in NodesAt(call.target_lvl) :
     /\ call.idx \in Path(i) /\ i \notin call.split
     /\ \A x \in Path(i) : x >= call.idx => x \notin heap_alloc_mask}

\* What it returns, the least of them, with the nodes in between marked
Found(call) ==
  IF FreeBelow(call) = {} THEN [node |-> NotFound, split |-> call.split]
  ELSE LET i == CHOOSE i \in FreeBelow(call) : \A j \in FreeBelow(call) : i <= j
       IN  [node |-> i, split |-> call.split \cup {x \in Ancestors(i) : x >= call.idx}]

\* A search that finds something returns the least of the nodes it can return.
LEMMA FoundIsLeast ==
  ASSUME NEW call \in Calls, FreeBelow(call) # {}
  PROVE  \E i \in FreeBelow(call) :
           /\ \A j \in FreeBelow(call) : i <= j
           /\ Found(call) = [node |-> i,
                              split |-> call.split \cup {x \in Ancestors(i) : x >= call.idx}]
<1>1. FreeBelow(call) \in SUBSET Nat
  BY LevelNodes DEF Calls, FreeBelow
<1>2. \E i \in FreeBelow(call) : \A j \in FreeBelow(call) : i <= j
  BY <1>1, LeastNumber
<1> QED
  BY <1>2 DEF Found

\* A call above the level it searches has two children to call, ...
LEMMA ChildCalls ==
  ASSUME NEW call \in Calls, call.curr_lvl # call.target_lvl,
         NEW c \in {get_left_node(call.idx), get_right_node(call.idx)}
  PROVE  /\ c \in Nodes \ {0} /\ c \in NodesAt(call.curr_lvl + 1) /\ Parent(c) = call.idx
         /\ ChildCall(call, c, call.split) \in Calls
<1>1. /\ call.curr_lvl \in Levels /\ call.target_lvl \in Levels /\ call.idx \in Nodes
      /\ call.curr_lvl <= call.target_lvl /\ call.idx \in NodesAt(call.curr_lvl)
      /\ call.idx \in Nat
  BY LevelNodes DEF Calls
<1>2. /\ call.curr_lvl + 1 \in Levels /\ call.curr_lvl + 1 <= call.target_lvl
      /\ call.curr_lvl \in Nat
  BY <1>1, TreeAssumption DEF Levels
<1>3. PICK p \in Nat \ {0} :
        p = 2^call.curr_lvl /\ 2^(call.curr_lvl + 1) = 2 * p /\ 2^(call.curr_lvl + 2) = 4 * p
  <2>1. (call.curr_lvl + 1) + 1 = call.curr_lvl + 2
    BY <1>2
  <2> QED
    BY <1>1, <1>2, <2>1, PowersOfTwo DEF Levels
<1>4. p <= call.idx + 1 /\ call.idx + 1 < 2 * p
  BY <1>1, <1>3, LevelNodes
<1>5. c \in NodesAt(call.curr_lvl + 1) /\ c \in Nat /\ c # 0
  <2>1. (call.curr_lvl + 1) + 1 = call.curr_lvl + 2
    BY <1>2
  <2>2. c = 2 * call.idx + 1 \/ c = 2 * call.idx + 2
    BY DEF get_left_node, get_right_node
  <2> QED
    BY <1>1, <1>3, <1>4, <2>1, <2>2 DEF NodesAt, get_index_level
<1>6. c \in Nodes
  BY <1>2, <1>5, LevelNodes
<1>7. Parent(c) = call.idx
  BY <1>1 DEF Parent, get_left_node, get_right_node
<1>8. call.split \in SUBSET Nodes
  BY DEF Calls
<1>9. ChildCall(call, c, call.split) \in Calls
  BY <1>1, <1>2, <1>5, <1>6, <1>8 DEF Calls, ChildCall
<1> QED
  BY <1>5, <1>6, <1>7, <1>9

\* ... each of which can return what the call itself could, of the nodes under it.
LEMMA FreeInHalves ==
  ASSUME NEW call \in Calls, call.curr_lvl # call.target_lvl, call.idx \notin heap_alloc_mask
  PROVE  /\ FreeBelow(call) = FreeBelow(ChildCall(call, get_left_node(call.idx), call.split))
                              \cup FreeBelow(ChildCall(call, get_right_node(call.idx),
                                                       call.split))
         /\ \A i \in FreeBelow(ChildCall(call, get_left_node(call.idx), call.split)) :
              \A j \in FreeBelow(ChildCall(call, get_right_node(call.idx), call.split)) : i < j
         /\ \A c \in {get_left_node(call.idx), get_right_node(call.idx)} :
              \A i \in FreeBelow(ChildCall(call, c, call.split)) :
                {x \in Ancestors(i) : x >= call.idx}
                  = {call.idx} \cup {x \in Ancestors(i) : x >= c}
<1> DEFINE idx == call.idx
           left == get_left_node(idx)
           right == get_right_node(idx)
           t == call.target_lvl
<1>1. /\ call.curr_lvl \in Levels /\ t \in Levels /\ idx \in Nodes
      /\ idx \in NodesAt(call.curr_lvl) /\ idx \in Nat
  BY LevelNodes DEF Calls
<1>2. \A c \in {left, right} :
        /\ c \in Nodes /\ c # 0 /\ c \in NodesAt(call.curr_lvl + 1) /\ Parent(c) = idx
        /\ c \in Nat /\ c > idx
        /\ FreeBelow(ChildCall(call, c, call.split))
             = {i \in NodesAt(t) : /\ c \in Path(i) /\ i \notin call.split
                                   /\ \A x \in Path(i) : x >= c => x \notin heap_alloc_mask}
  <2> SUFFICES ASSUME NEW c \in {left, right}
               PROVE  /\ c \in Nodes /\ c # 0 /\ c \in NodesAt(call.curr_lvl + 1)
                      /\ Parent(c) = idx /\ c \in Nat /\ c > idx
                      /\ FreeBelow(ChildCall(call, c, call.split))
                           = {i \in NodesAt(t) :
                                /\ c \in Path(i) /\ i \notin call.split
                                /\ \A x \in Path(i) : x >= c => x \notin heap_alloc_mask}
    OBVIOUS
  <2>1. c \in Nat /\ c > idx
    BY <1>1 DEF get_left_node, get_right_node
  <2> DEFINE child == ChildCall(call, c, call.split)
  <2>2. c \in Nodes \ {0} /\ c \in NodesAt(call.curr_lvl + 1) /\ Parent(c) = idx
    BY ChildCalls
  <2>3. child.split = call.split /\ child.idx = c /\ child.target_lvl = t
    BY DEF ChildCall
  <2> HIDE DEF child
  <2>4. FreeBelow(child) = {i \in NodesAt(t) :
                              /\ c \in Path(i) /\ i \notin call.split
                              /\ \A x \in Path(i) : x >= c => x \notin heap_alloc_mask}
    BY <2>3 DEF FreeBelow
  <2> QED
    BY <2>1, <2>2, <2>4 DEF child
<1>3. \A i \in NodesAt(t) : \A x \in Path(i) : i \in Nodes /\ x \in Nat
  BY <1>1, LevelNodes, PathBelow, TreeSizes DEF Nodes
<1>4. ASSUME NEW c \in {left, right}, NEW i \in NodesAt(t), c \in Path(i)
      PROVE  /\ idx \in Path(i)
             /\ \A x \in Path(i) : x >= idx <=> x = idx \/ x >= c
  <2>1. idx \in Path(i)
    BY <1>2, <1>3, <1>4, ParentOnPath
  <2>2. \A x \in Path(i) : x < c => x <= idx
    BY <1>2, <1>3, <1>4, PathOrder
  <2> QED
    BY <1>1, <1>2, <1>3, <2>1, <2>2
<1>5. ASSUME NEW i \in NodesAt(t), idx \in Path(i)
      PROVE  left \in Path(i) \/ right \in Path(i)
  <2>1. i # idx
    BY <1>1, <1>5, LevelNodes
  <2>2. PICK c \in Path(i) : Parent(c) = idx /\ c > idx
    BY <1>3, <1>5, <2>1, ChildOnPath
  <2>3. c = left \/ c = right
    BY <1>1, <1>3, <2>2 DEF Parent, get_left_node, get_right_node
  <2> QED
    BY <2>2, <2>3
<1>6. ASSUME NEW c \in {left, right}, NEW i \in NodesAt(t), c \in Path(i)
      PROVE  i \in FreeBelow(call) <=> i \in FreeBelow(ChildCall(call, c, call.split))
  <2>1. (\A x \in Path(i) : x >= idx => x \notin heap_alloc_mask)
           <=> (\A x \in Path(i) : x >= c => x \notin heap_alloc_mask)
    BY <1>4, <1>6
  <2> QED
    BY <1>2, <1>4, <1>6, <2>1 DEF FreeBelow
<1>7. FreeBelow(call) = FreeBelow(ChildCall(call, left, call.split))
                          \cup FreeBelow(ChildCall(call, right, call.split))
  <2>1. \A i \in FreeBelow(call) : i \in NodesAt(t) /\ (left \in Path(i) \/ right \in Path(i))
    BY <1>5 DEF FreeBelow
  <2>2. \A c \in {left, right} : \A i \in FreeBelow(ChildCall(call, c, call.split)) :
          i \in NodesAt(t) /\ c \in Path(i)
    BY <1>2
  <2> QED
    BY <1>6, <2>1, <2>2
<1>8. \A i \in FreeBelow(ChildCall(call, left, call.split)) :
        \A j \in FreeBelow(ChildCall(call, right, call.split)) : i < j
  <2>1. left < right
    BY <1>1 DEF get_left_node, get_right_node
  <2>2. call.curr_lvl + 1 \in Levels
    BY <1>1, TreeAssumption DEF Calls, Levels
  <2> QED
    BY <1>1, <1>2, <2>1, <2>2, LeftFirst
<1>9. ASSUME NEW c \in {left, right}, NEW i \in FreeBelow(ChildCall(call, c, call.split))
      PROVE  {x \in Ancestors(i) : x >= idx} = {idx} \cup {x \in Ancestors(i) : x >= c}
  <2>1. i \in NodesAt(t) /\ c \in Path(i)
    BY <1>2
  <2>2. idx # i
    BY <1>1, <2>1, LevelNodes
  <2>3. idx \in Path(i) /\ \A x \in Path(i) : x >= idx <=> x = idx \/ x >= c
    BY <1>4, <2>1
  <2> QED
    BY <2>2, <2>3 DEF Ancestors
<1> QED
  BY <1>7, <1>8, <1>9

\* What a call finds comes from what its own calls find.
LEMMA FoundOnce ==
  ASSUME NEW call \in Calls
  PROVE  Found(call) = Visit([c \in Calls |-> Found(c)], call)
<1> DEFINE g == [c \in Calls |-> Found(c)]
           idx == call.idx
           missed == [node |-> NotFound, split |-> call.split]
           L == ChildCall(call, get_left_node(idx), call.split)
           R == ChildCall(call, get_right_node(idx), call.split)
           marked(res) == [res EXCEPT !.split = @ \cup {idx}]
<1> SUFFICES Found(call) = Visit(g, call)
  OBVIOUS
<1>1. /\ call.target_lvl \in Levels /\ call.curr_lvl \in Levels
      /\ idx \in NodesAt(call.curr_lvl) /\ idx \in Nodes /\ idx \in Nat
  BY LevelNodes DEF Calls
<1>2. CASE idx \in heap_alloc_mask
  <2>1. FreeBelow(call) = {}
    BY <1>1, <1>2 DEF FreeBelow
  <2> QED
    BY <1>2, <2>1 DEF Found, Visit
<1>3. CASE idx \notin heap_alloc_mask /\ call.curr_lvl = call.target_lvl
  <2>1. \A i \in FreeBelow(call) : i = idx
    <3> SUFFICES ASSUME NEW i \in FreeBelow(call) PROVE i = idx
      OBVIOUS
    <3>1. i \in NodesAt(call.target_lvl) /\ idx \in Path(i) /\ i \in Nat
      BY <1>1, LevelNodes DEF FreeBelow
    <3>2. idx + 1 = (i + 1) \div 2^(call.curr_lvl - call.target_lvl)
      BY <1>1, <1>3, <3>1, PathLevel
    <3>3. 2^(call.curr_lvl - call.target_lvl) = 1
      <4>1. call.curr_lvl - call.target_lvl = 0
        BY <1>1, <1>3, TreeAssumption DEF Levels
      <4> QED
        BY <4>1, PowersOfTwo
    <3> QED
      BY <1>1, <3>1, <3>2, <3>3
  <2>2. \A x \in Path(idx) : x >= idx => x = idx
    BY <1>1, PathBelow, TreeSizes DEF Nodes
  <2>3. idx \in Path(idx)
    BY <1>1, SelfOnPath
  <2>4. CASE idx \in call.split
    <3>1. FreeBelow(call) = {}
      BY <2>1, <2>4 DEF FreeBelow
    <3> QED
      BY <1>3, <2>4, <3>1 DEF Found, Visit
  <2>5. CASE idx \notin call.split
    <3>1. FreeBelow(call) = {idx}
      <4>1. idx \in FreeBelow(call)
        BY <1>1, <1>3, <2>2, <2>3, <2>5 DEF FreeBelow
      <4> QED
        BY <2>1, <4>1
    <3>2. {x \in Ancestors(idx) : x >= idx} = {}
      BY <2>2 DEF Ancestors
    <3>3. Found(call) = [node |-> idx, split |-> call.split]
      <4>1. PICK i \in FreeBelow(call) :
              Found(call) = [node |-> i,
                             split |-> call.split \cup {x \in Ancestors(i) : x >= idx}]
        BY <3>1, FoundIsLeast
      <4> QED
        BY <3>1, <3>2, <4>1
    <3> QED
      BY <1>3, <2>5, <3>3 DEF Visit
  <2> QED
    BY <2>4, <2>5
<1>4. CASE idx \notin heap_alloc_mask /\ call.curr_lvl # call.target_lvl
  <2>1. /\ L \in Calls /\ R \in Calls
        /\ L.split = call.split /\ R.split = call.split
        /\ L.idx = get_left_node(idx) /\ R.idx = get_right_node(idx)
    <3>1. L \in Calls /\ R \in Calls
      BY <1>4, ChildCalls
    <3> QED
      BY <3>1 DEF ChildCall
  <2>2. FreeBelow(call) = FreeBelow(L) \cup FreeBelow(R)
    BY <1>4, FreeInHalves
  <2>3. \A i \in FreeBelow(L) : \A j \in FreeBelow(R) : i < j
    BY <1>4, FreeInHalves
  <2>4. \A c \in {L, R} : \A i \in FreeBelow(c) :
          {x \in Ancestors(i) : x >= idx} = {idx} \cup {x \in Ancestors(i) : x >= c.idx}
    <3>1. \A c \in {get_left_node(idx), get_right_node(idx)} :
            \A i \in FreeBelow(ChildCall(call, c, call.split)) :
              {x \in Ancestors(i) : x >= idx} = {idx} \cup {x \in Ancestors(i) : x >= c}
      BY <1>4, FreeInHalves
    <3> QED
      BY <2>1, <3>1
  <2>5. FreeBelow(L) \subseteq Nat /\ FreeBelow(R) \subseteq Nat
    BY <2>1, LevelNodes DEF FreeBelow, Calls
  <2>6. Visit(g, call) = IF Found(L).node # NotFound THEN marked(Found(L))
                         ELSE LET right == g[ChildCall(call, get_right_node(idx),
                                                       Found(L).split)]
                              IN  IF right.node # NotFound THEN marked(right) ELSE right
    <3>1. g[L] = Found(L)
      BY <2>1
    <3> HIDE DEF g
    <3> QED
      BY <1>4, <3>1 DEF Visit
  <2>7. ASSUME NEW c \in {L, R}, FreeBelow(c) # {},
               \A i \in FreeBelow(call) : \E j \in FreeBelow(c) : j <= i
        PROVE  Found(c).node # NotFound /\ Found(call) = marked(Found(c))
    <3>1. c \in Calls /\ c.split = call.split /\ FreeBelow(c) \subseteq FreeBelow(call)
      BY <2>1, <2>2
    <3>2. PICK i \in FreeBelow(c) :
            /\ \A j \in FreeBelow(c) : i <= j
            /\ Found(c) = [node |-> i,
                            split |-> c.split \cup {x \in Ancestors(i) : x >= c.idx}]
      BY <2>7, <3>1, FoundIsLeast
    <3>3. PICK k \in FreeBelow(call) :
            /\ \A j \in FreeBelow(call) : k <= j
            /\ Found(call) = [node |-> k,
                               split |-> call.split \cup {x \in Ancestors(k) : x >= idx}]
      BY <2>7, <3>1, FoundIsLeast
    <3>4. i = k
      <4>1. PICK j \in FreeBelow(c) : j <= k
        BY <2>7
      <4>2. i <= j /\ k <= i /\ i \in Nat /\ j \in Nat /\ k \in Nat
        BY <2>2, <2>5, <3>1, <3>2, <3>3
      <4> QED
        BY <4>1, <4>2
    <3>5. call.split \cup {x \in Ancestors(k) : x >= idx}
            = (c.split \cup {x \in Ancestors(i) : x >= c.idx}) \cup {idx}
      BY <2>4, <3>1, <3>4
    <3>6. i # NotFound
      BY <2>5 DEF NotFound
    <3> QED
      BY <3>2, <3>3, <3>4, <3>5, <3>6
  <2>8. CASE FreeBelow(L) # {}
    <3>1. \A i \in FreeBelow(call) : \E j \in FreeBelow(L) : j <= i
      BY <2>2, <2>3, <2>5, <2>8
    <3>2. Found(L).node # NotFound /\ Found(call) = marked(Found(L))
      BY <2>7, <2>8, <3>1
    <3> HIDE DEF g, L, R, marked
    <3> QED
      BY <2>6, <3>2
  <2>9. CASE FreeBelow(L) = {}
    <3>1. Found(L) = missed
      BY <2>1, <2>9 DEF Found
    <3>2. Visit(g, call) = IF Found(R).node # NotFound THEN marked(Found(R)) ELSE Found(R)
      <4>1. g[R] = Found(R)
        BY <2>1
      <4>2. Found(L).node = NotFound /\ Found(L).split = call.split
        BY <3>1
      <4> HIDE DEF g, marked
      <4> QED
        BY <2>6, <4>1, <4>2
    <3>3. CASE FreeBelow(R) # {}
      <4>1. \A i \in FreeBelow(call) : \E j \in FreeBelow(R) : j <= i
        BY <2>2, <2>5, <2>9
      <4>2. Found(R).node # NotFound /\ Found(call) = marked(Found(R))
        BY <2>7, <3>3, <4>1
      <4> HIDE DEF g, L, R, marked
      <4> QED
        BY <3>2, <4>2
    <3>4. CASE FreeBelow(R) = {}
      <4>1. Found(R) = missed /\ Found(call) = missed
        BY <2>1, <2>2, <2>9, <3>4 DEF Found
      <4> HIDE DEF g, L, R, marked
      <4> QED
        BY <3>2, <4>1
    <3> QED
      BY <3>3, <3>4
  <2> QED
    BY <2>8, <2>9
<1> QED
  BY <1>2, <1>3, <1>4

\* The recursion of buddy_find_free returns what Found says.
LEMMA SearchFinds == \A call \in Calls : buddy_find_free[call] = Found(call)
<1> DEFINE g == [c \in Calls |-> Found(c)]
           rank == [c \in Calls |-> c.target_lvl - c.curr_lvl]
           T == {c \in Calls : buddy_find_free[c] # g[c]}
<1>1. g = [c \in Calls |-> Visit(g, c)]
  BY FoundOnce
<1>2. buddy_find_free = [c \in Calls |-> Visit(buddy_find_free, c)]
  <2> HIDE DEF g
  <2> QED
    BY <1>1 DEF buddy_find_free
<1>3. ASSUME NEW call \in T PROVE \E c \in T : rank[c] < rank[call]
  <2> DEFINE L == ChildCall(call, get_left_node(call.idx), call.split)
             R == ChildCall(call, get_right_node(call.idx), call.split)
  <2>1. /\ call \in Calls /\ call.curr_lvl \in Int /\ call.target_lvl \in Int
        /\ buddy_find_free[call] # g[call]
    BY TreeAssumption DEF Calls, Levels
  <2>2. buddy_find_free[call] = Visit(buddy_find_free, call) /\ g[call] = Visit(g, call)
    <3> HIDE DEF g
    <3> QED
      BY <1>1, <1>2, <2>1
  <2>3. call.curr_lvl # call.target_lvl
    <3> SUFFICES ASSUME call.curr_lvl = call.target_lvl
                 PROVE  Visit(buddy_find_free, call) = Visit(g, call)
      BY <2>1, <2>2
    <3> HIDE DEF g, rank, T, L, R
    <3> QED
      BY DEF Visit
  <2>4. ASSUME NEW c \in {L, R} PROVE c \in Calls /\ rank[c] < rank[call]
    <3>1. c \in Calls
      BY <2>1, <2>3, ChildCalls
    <3>2. c.curr_lvl = call.curr_lvl + 1 /\ c.target_lvl = call.target_lvl
      BY DEF ChildCall
    <3> QED
      BY <2>1, <3>1, <3>2
  <2>5. g[L] = Found(L) /\ (g[L].node = NotFound => g[L].split = call.split)
    <3>1. L \in Calls /\ L.split = call.split
      BY <2>4 DEF ChildCall
    <3>2. FreeBelow(L) # {} => Found(L).node # NotFound
      <4> SUFFICES ASSUME FreeBelow(L) # {} PROVE Found(L).node # NotFound
        OBVIOUS
      <4>1. PICK i \in FreeBelow(L) : Found(L).node = i
        BY <3>1, FoundIsLeast
      <4>2. i \in Nat
        BY <3>1, LevelNodes DEF FreeBelow, Calls
      <4> QED
        BY <4>1, <4>2 DEF NotFound
    <3>3. FreeBelow(L) = {} => Found(L).split = call.split
      BY <3>1 DEF Found
    <3> QED
      BY <3>1, <3>2, <3>3
  <2>6. buddy_find_free[L] # g[L] \/ buddy_find_free[R] # g[R]
    <3> SUFFICES ASSUME buddy_find_free[L] = g[L], buddy_find_free[R] = g[R]
                 PROVE  Visit(buddy_find_free, call) = Visit(g, call)
      BY <2>1, <2>2
    <3>1. g[L].node = NotFound =>
            ChildCall(call, get_right_node(call.idx), g[L].split) = R
      BY <2>5
    <3> HIDE DEF g
    <3> QED
      BY <3>1 DEF Visit
  <2> QED
    BY <2>4, <2>6
<1>4. rank \in [Calls -> Nat]
  BY TreeAssumption DEF Calls, Levels
<1>5. T = {}
  <2> HIDE DEF g, rank
  <2> QED
    BY <1>3, <1>4, NoDescent
<1> QED
  BY <1>5

\* buddy_find_free returns the least node of the level that no mark excludes,
\* and has then marked what lies above it, and nothing else: the split bits it
\* sets on the way back never mislead the rest of the same search.
THEOREM SearchIsExact == StaleSpec => []SearchAgrees
<1>1. TypeOK => SearchAgrees
  <2> SUFFICES ASSUME TypeOK, NEW lvl \in Levels
               PROVE  LET found == Candidates(heap_alloc_mask, heap_split_mask, lvl)
                          res == buddy_find_free[[idx |-> 0, curr_lvl |-> 0,
                                                  target_lvl |-> lvl,
                                                  split |-> heap_split_mask]]
                      IN  IF found = {}
                          THEN res = [node |-> NotFound, split |-> heap_split_mask]
                          ELSE /\ FirstOf(found, res.node)
                               /\ res.split = SplitPath(heap_split_mask, res.node)
    BY DEF SearchAgrees
  <2> DEFINE call == [idx |-> 0, curr_lvl |-> 0, target_lvl |-> lvl,
                      split |-> heap_split_mask]
             found == Candidates(heap_alloc_mask, heap_split_mask, lvl)
  <2>1. call \in Calls
    <3>1. 0 \in Nodes /\ 0 \in Levels /\ 0 <= lvl
      BY RootAlone, TreeAssumption DEF Levels
    <3>2. 0 \in NodesAt(0)
      BY PowersOfTwo, TreeAssumption DEF NodesAt, get_index_level
    <3> QED
      BY <3>1, <3>2 DEF Calls, TypeOK
  <2>2. \A i \in NodesAt(lvl) : i \in Nodes /\ 0 \in Path(i) /\ \A x \in Path(i) : x >= 0
    BY LevelNodes, RootOnPath, PathBelow, TreeSizes DEF Nodes
  <2>3. FreeBelow(call) = found
    BY <2>2 DEF FreeBelow, Candidates
  <2>4. buddy_find_free[call] = Found(call)
    BY <2>1, SearchFinds
  <2>5. CASE found = {}
    BY <2>3, <2>4, <2>5 DEF Found
  <2>6. CASE found # {}
    <3>1. PICK i \in FreeBelow(call) :
            /\ \A j \in FreeBelow(call) : i <= j
            /\ Found(call) = [node |-> i,
                               split |-> call.split \cup {x \in Ancestors(i) : x >= call.idx}]
      BY <2>1, <2>3, <2>6, FoundIsLeast
    <3>2. {x \in Ancestors(i) : x >= 0} = Ancestors(i)
      BY <2>2, <2>3, <3>1 DEF Candidates, Ancestors
    <3> QED
      BY <2>3, <2>4, <2>6, <3>1, <3>2 DEF FirstOf, SplitPath
  <2> QED
    BY <2>5, <2>6
<1> QED
  BY <1>1, TypeCorrect, PTL

----------------------------------------------------------------------------
(* The level of a request.                                                  *)

\* Each level halves the blocks of the one above, down to single words.
LEMMA SlotsHalve ==
  /\ BlockSlots(0) = BUDDY_ARENA_SIZE /\ BlockSlots(MaxLevel) = 1
  /\ \A l \in Levels : /\ BlockSlots(l) \in Nat \ {0}
                       /\ l # MaxLevel => /\ l + 1 \in Levels
                                          /\ BlockSlots(l) \div 2 = BlockSlots(l + 1)
  /\ \A l, m \in Levels : l < m => BlockSlots(m) < BlockSlots(l)
<1>1. 0 \in Levels /\ MaxLevel \in Levels /\ MaxLevel \in Nat
  BY TreeAssumption DEF Levels
<1>2. BlockSlots(0) = BUDDY_ARENA_SIZE
  <2>1. MaxLevel - 0 = MaxLevel
    BY <1>1
  <2> QED
    BY <1>1, <2>1, BlockPower DEF BUDDY_ARENA_SIZE
<1>3. BlockSlots(MaxLevel) = 1
  <2>1. MaxLevel - MaxLevel = 0
    BY <1>1
  <2> QED
    BY <1>1, <2>1, BlockPower, PowersOfTwo
<1>4. ASSUME NEW l \in Levels, l # MaxLevel
      PROVE  l + 1 \in Levels /\ BlockSlots(l) \div 2 = BlockSlots(l + 1)
  <2>1. l + 1 \in Levels /\ l \in Nat
    BY <1>4, TreeAssumption DEF Levels
  <2>2. MaxLevel - (l + 1) \in 0..MaxLevel /\ MaxLevel - l = (MaxLevel - (l + 1)) + 1
    BY <1>1, <2>1, BlockPower DEF Levels
  <2>3. PICK b \in Nat \ {0} : b = 2^(MaxLevel - (l + 1)) /\ 2 * b = 2^(MaxLevel - l)
    BY <2>2, PowersOfTwo
  <2>4. BlockSlots(l) = 2 * b /\ BlockSlots(l + 1) = b
    BY <2>1, <2>3, BlockPower
  <2> QED
    BY <2>1, <2>4
<1>5. ASSUME NEW l \in Levels, NEW m \in Levels, l < m PROVE BlockSlots(m) < BlockSlots(l)
  <2>1. l # MaxLevel /\ l \in Nat /\ m \in Nat
    BY <1>5, TreeAssumption DEF Levels
  <2>2. l + 1 \in Levels /\ BlockSlots(l) \div 2 = BlockSlots(l + 1)
    BY <1>4, <2>1
  <2>3. BlockSlots(m) <= BlockSlots(l + 1)
    <3>1. /\ MaxLevel - m \in Levels /\ MaxLevel - (l + 1) \in Levels
          /\ MaxLevel - m <= MaxLevel - (l + 1)
      BY <1>1, <1>5, <2>1, <2>2, BlockPower
    <3> QED
      BY <2>2, <3>1, BlockPower, PowersGrow
  <2>4. BlockSlots(l) \in Nat \ {0} /\ BlockSlots(m) \in Nat
    BY BlockPower
  <2> QED
    BY <2>2, <2>3, <2>4
<1>6. \A l \in Levels : BlockSlots(l) \in Nat \ {0}
  BY BlockPower
<1> QED
  BY <1>2, <1>3, <1>4, <1>5, <1>6

LevelBody(f, s) ==
  IF s.capacity > s.needed_pow2
  THEN f[[capacity |-> s.capacity \div 2, needed_pow2 |-> s.needed_pow2,
          target_level |-> s.target_level + 1]]
  ELSE s.target_level

\* The first level from l on whose blocks are not larger than needed
Fitting(l, needed) == {f \in Levels : l <= f /\ BlockSlots(f) <= needed}
FirstFit(l, needed) == CHOOSE f \in Fitting(l, needed) : \A m \in Fitting(l, needed) : f <= m
LevelOf(capacity) == CHOOSE l \in Levels : BlockSlots(l) = capacity

\* Where the loop stops: as many levels further down as there are in between
Stopped(s) ==
  LET l == LevelOf(s.capacity) IN s.target_level + FirstFit(l, s.needed_pow2) - l

\* There is such a level, that of the single words at the latest.
LEMMA FirstFits ==
  ASSUME NEW l \in Levels, NEW needed \in Nat \ {0}
  PROVE  /\ FirstFit(l, needed) \in Fitting(l, needed)
         /\ \A m \in Fitting(l, needed) : FirstFit(l, needed) <= m
<1>1. MaxLevel \in Fitting(l, needed)
  BY SlotsHalve, TreeAssumption DEF Fitting, Levels
<1>2. Fitting(l, needed) \in SUBSET Nat
  BY DEF Fitting, Levels
<1>3. \E f \in Fitting(l, needed) : \A m \in Fitting(l, needed) : f <= m
  BY <1>1, <1>2, LeastNumber
<1> QED
  BY <1>3 DEF FirstFit

\* The size of the blocks tells the level.
LEMMA LevelFound == \A l \in Levels : LevelOf(BlockSlots(l)) = l
<1> SUFFICES ASSUME NEW l \in Levels PROVE LevelOf(BlockSlots(l)) = l
  OBVIOUS
<1>1. \A m \in Levels : BlockSlots(m) = BlockSlots(l) => m = l
  <2> SUFFICES ASSUME NEW m \in Levels, BlockSlots(m) = BlockSlots(l), m # l PROVE FALSE
    OBVIOUS
  <2>1. m < l \/ l < m
    BY TreeAssumption DEF Levels
  <2> QED
    BY <2>1, SlotsHalve
<1> QED
  BY <1>1 DEF LevelOf

\* Where the loop stops does not change with an iteration.
LEMMA StoppedOnce ==
  ASSUME NEW s \in LevelStates
  PROVE  Stopped(s) = LevelBody([x \in LevelStates |-> Stopped(x)], s)
<1>1. PICK l \in Levels : s.capacity = BlockSlots(l)
  BY DEF LevelStates
<1>2. PICK needed \in Nat \ {0} : s.needed_pow2 = needed
  BY DEF LevelStates
<1>3. s.target_level \in Nat /\ l \in Nat /\ BlockSlots(l) \in Nat /\ LevelOf(s.capacity) = l
  BY <1>1, SlotsHalve, LevelFound DEF LevelStates, Levels
<1>4. Stopped(s) = s.target_level + FirstFit(l, needed) - l
  BY <1>2, <1>3 DEF Stopped
<1>5. FirstFit(l, needed) \in Nat
  BY FirstFits DEF Fitting, Levels
<1>6. CASE ~(s.capacity > needed)
  <2>1. l \in Fitting(l, needed)
    BY <1>1, <1>3, <1>6 DEF Fitting
  <2>2. FirstFit(l, needed) = l
    BY <1>3, <1>5, <2>1, FirstFits DEF Fitting
  <2> QED
    BY <1>2, <1>3, <1>4, <1>6, <2>2 DEF LevelBody
<1>7. CASE s.capacity > needed
  <2> DEFINE next == [capacity |-> s.capacity \div 2, needed_pow2 |-> s.needed_pow2,
                      target_level |-> s.target_level + 1]
  <2>1. l # MaxLevel
    BY <1>1, <1>7, SlotsHalve
  <2>2. l + 1 \in Levels /\ s.capacity \div 2 = BlockSlots(l + 1)
    BY <1>1, <2>1, SlotsHalve
  <2>3. /\ next \in LevelStates /\ next.capacity = BlockSlots(l + 1)
        /\ next.needed_pow2 = needed /\ next.target_level = s.target_level + 1
    BY <1>2, <1>3, <2>2 DEF LevelStates
  <2>4. Fitting(l, needed) = Fitting(l + 1, needed)
    <3>1. l \notin Fitting(l, needed)
      BY <1>1, <1>3, <1>7 DEF Fitting
    <3>2. \A f \in Levels : l + 1 <= f <=> f # l /\ l <= f
      BY <1>3 DEF Levels
    <3>3. \A f : f \in Fitting(l, needed) => f # l
      BY <3>1
    <3>4. \A f \in Levels : f \in Fitting(l, needed) <=> f \in Fitting(l + 1, needed)
      BY <3>2, <3>3 DEF Fitting
    <3> QED
      BY <3>4 DEF Fitting
  <2>5. FirstFit(l, needed) = FirstFit(l + 1, needed)
    BY <2>4 DEF FirstFit
  <2>6. Stopped(next) = (s.target_level + 1) + FirstFit(l + 1, needed) - (l + 1)
    <3>1. LevelOf(next.capacity) = l + 1
      BY <2>2, <2>3, LevelFound
    <3> HIDE DEF next
    <3> QED
      BY <2>3, <3>1 DEF Stopped
  <2>7. Stopped(next) = Stopped(s)
    BY <1>3, <1>4, <1>5, <2>5, <2>6
  <2> QED
    BY <1>2, <1>7, <2>3, <2>7 DEF LevelBody
<1> QED
  BY <1>6, <1>7

\* The loop of step 2 of malloc_heap ends at the level Stopped says.
LEMMA LevelLoopStops == \A s \in LevelStates : LevelLoop[s] = Stopped(s)
<1> DEFINE g == [x \in LevelStates |-> Stopped(x)]
           rank == [x \in LevelStates |-> x.capacity]
           T == {x \in LevelStates : LevelLoop[x] # g[x]}
<1>1. g = [s \in LevelStates |-> LevelBody(g, s)]
  BY StoppedOnce
<1>2. LevelLoop = [s \in LevelStates |-> LevelBody(LevelLoop, s)]
  <2> HIDE DEF g
  <2> QED
    BY <1>1 DEF LevelLoop, LevelBody, LevelStates
<1>3. ASSUME NEW s \in T PROVE \E r \in T : rank[r] < rank[s]
  <2> DEFINE next == [capacity |-> s.capacity \div 2, needed_pow2 |-> s.needed_pow2,
                      target_level |-> s.target_level + 1]
  <2>1. s \in LevelStates /\ s.target_level \in Nat /\ s.needed_pow2 \in Nat \ {0}
    BY DEF LevelStates
  <2>2. LevelLoop[s] = LevelBody(LevelLoop, s) /\ g[s] = LevelBody(g, s)
    <3> HIDE DEF g
    <3> QED
      BY <1>1, <1>2, <2>1
  <2>3. s.capacity > s.needed_pow2 /\ LevelLoop[next] # g[next]
    <3>1. LevelLoop[s] # g[s]
      OBVIOUS
    <3> HIDE DEF g
    <3> QED
      BY <2>2, <3>1 DEF LevelBody
  <2>4. PICK l \in Levels : s.capacity = BlockSlots(l)
    BY <2>1 DEF LevelStates
  <2>5. BlockSlots(l) \in Nat /\ l # MaxLevel
    BY <2>1, <2>3, <2>4, SlotsHalve
  <2>6. l + 1 \in Levels /\ s.capacity \div 2 = BlockSlots(l + 1)
    BY <2>4, <2>5, SlotsHalve
  <2>7. next \in LevelStates /\ next.capacity = s.capacity \div 2
    BY <2>1, <2>6 DEF LevelStates
  <2>8. s.capacity \div 2 < s.capacity
    BY <2>1, <2>3, <2>4, <2>5
  <2>9. next \in T
    <3> HIDE DEF g, next
    <3> QED
      BY <2>3, <2>7
  <2> HIDE DEF next, T
  <2> QED
    BY <2>1, <2>7, <2>8, <2>9
<1>4. rank \in [LevelStates -> Nat]
  BY SlotsHalve DEF LevelStates
<1>5. T = {}
  <2> HIDE DEF g, rank
  <2> QED
    BY <1>3, <1>4, NoDescent
<1> QED
  BY <1>5

\* next_pow2 rounds a request up to the size of the blocks of its level.
LEMMA RoundsUp ==
  ASSUME NEW lvl \in Levels, NEW total \in Nat \ {0}, IsTargetLevel(lvl, total)
  PROVE  next_pow2(total) = BlockSlots(lvl)
<1>1. /\ total <= BlockSlots(lvl) /\ BlockSlots(lvl) \in Nat
      /\ \A m \in Levels : m > lvl => BlockSlots(m) < total
  BY SlotsHalve, TreeAssumption DEF IsTargetLevel, Levels
<1>2. CASE total <= 1
  <2>1. ~(MaxLevel > lvl)
    BY <1>1, <1>2, SlotsHalve, TreeAssumption DEF Levels
  <2>2. lvl = MaxLevel
    BY <2>1, TreeAssumption DEF Levels
  <2> QED
    BY <1>2, <2>2, SlotsHalve DEF next_pow2
<1>3. CASE total > 1
  <2> DEFINE P == PowersAbove(total - 1)
  <2>1. BlockSlots(lvl) \in P
    BY <1>1, BlockPower DEF PowersAbove
  <2>2. \A q \in P : q \in Nat /\ BlockSlots(lvl) <= q
    <3> SUFFICES ASSUME NEW k \in Levels, 2^k > total - 1
                 PROVE  2^k \in Nat /\ BlockSlots(lvl) <= 2^k
      BY DEF PowersAbove
    <3>1. MaxLevel - k \in Levels /\ MaxLevel - (MaxLevel - k) = k
      BY TreeAssumption DEF Levels
    <3>2. 2^k = BlockSlots(MaxLevel - k) /\ 2^k \in Nat
      BY <3>1, BlockPower
    <3>3. ~(MaxLevel - k > lvl)
      BY <1>1, <3>1, <3>2
    <3>4. MaxLevel - k = lvl \/ MaxLevel - k < lvl
      BY <3>1, <3>3, TreeAssumption DEF Levels
    <3> QED
      BY <1>1, <3>1, <3>2, <3>4, SlotsHalve
  <2>3. \A p \in P : (\A q \in P : p <= q) => p = BlockSlots(lvl)
    BY <1>1, <2>1, <2>2
  <2>4. next_pow2(total) = CHOOSE p \in P : \A q \in P : p <= q
    BY <1>3 DEF next_pow2
  <2> HIDE DEF P
  <2> QED
    BY <2>1, <2>2, <2>3, <2>4
<1> QED
  BY <1>2, <1>3

\* The level that the loop reaches is the target level.
LEMMA LoopLevel ==
  ASSUME NEW lvl \in Levels, NEW total \in Nat \ {0}, IsTargetLevel(lvl, total)
  PROVE  LevelLoop[[capacity |-> BUDDY_ARENA_SIZE, needed_pow2 |-> next_pow2(total),
                    target_level |-> 0]] = lvl
<1>1. 0 \in Levels /\ lvl \in Nat /\ BlockSlots(lvl) \in Nat \ {0}
  BY SlotsHalve, TreeAssumption DEF Levels
<1> DEFINE s == [capacity |-> BUDDY_ARENA_SIZE, needed_pow2 |-> BlockSlots(lvl),
                 target_level |-> 0]
<1>2. s \in LevelStates
  BY <1>1, SlotsHalve DEF LevelStates
<1>3. LevelOf(BUDDY_ARENA_SIZE) = 0
  BY <1>1, SlotsHalve, LevelFound
<1>4. FirstFit(0, BlockSlots(lvl)) = lvl
  <2>1. lvl \in Fitting(0, BlockSlots(lvl))
    BY <1>1 DEF Fitting
  <2>2. \A m \in Fitting(0, BlockSlots(lvl)) : lvl <= m
    <3> SUFFICES ASSUME NEW m \in Levels, BlockSlots(m) <= BlockSlots(lvl), ~(lvl <= m)
                 PROVE  FALSE
      BY DEF Fitting
    <3>1. m < lvl /\ BlockSlots(m) \in Nat
      BY SlotsHalve, TreeAssumption DEF Levels
    <3> QED
      BY <1>1, <3>1, SlotsHalve
  <2>3. FirstFit(0, BlockSlots(lvl)) \in Nat
    BY <1>1, FirstFits DEF Fitting, Levels
  <2> QED
    BY <1>1, <2>1, <2>2, <2>3, FirstFits
<1>5. Stopped(s) = lvl
  BY <1>1, <1>3, <1>4 DEF Stopped
<1> QED
  BY <1>2, <1>5, LevelLoopStops, RoundsUp

\* The level in the header of the last block handed out is the target level of
\* its request.
HeaderLevel ==
  ret.addr # FAIL =>
    /\ TotalSlots(ret.slots) \in Nat \ {0}
    /\ header[ret.addr - 1] \in Levels
    /\ IsTargetLevel(header[ret.addr - 1], TotalSlots(ret.slots))

\* No free changes a header, and malloc_heap writes the level it searched.
LEMMA HeaderLevelStep == TypeOK /\ HeaderLevel /\ [StaleNext]_vars => HeaderLevel'
<1> SUFFICES ASSUME TypeOK, HeaderLevel, [StaleNext]_vars PROVE HeaderLevel'
  OBVIOUS
<1>1. ASSUME NEW n \in Sizes, MallocRefused(n) \/ MallocFull(n) PROVE HeaderLevel'
  BY <1>1 DEF MallocRefused, MallocFull, Fails, HeaderLevel
<1>2. ASSUME NEW n \in Sizes, MallocOk(n) PROVE HeaderLevel'
  <2>1. PICK lvl \in Levels, node \in Nodes :
          /\ node \in NodesAt(lvl)
          /\ IsTargetLevel(lvl, TotalSlots(n))
          /\ header' = [header EXCEPT ![StartSlot(node, lvl)] = lvl]
          /\ ret' = [slots |-> n, addr |-> StartSlot(node, lvl) + 1]
    BY <1>2, MallocOkStep
  <2>2. StartSlot(node, lvl) \in HeapSlots /\ StartSlot(node, lvl) \in Nat
    BY <2>1, BlocksInArena, TreeAssumption, TreeSizes DEF HeapSlots
  <2>3. TotalSlots(n) \in Nat \ {0}
    BY <1>2, RequestSize DEF MallocOk, Searches
  <2>4. ret'.addr - 1 = StartSlot(node, lvl) /\ ret'.slots = n
    BY <2>1, <2>2
  <2>5. header'[StartSlot(node, lvl)] = lvl
    BY <2>1, <2>2 DEF TypeOK
  <2> QED
    BY <2>1, <2>3, <2>4, <2>5 DEF HeaderLevel
<1>3. ASSUME UNCHANGED <<header, ret>> PROVE HeaderLevel'
  BY <1>3 DEF HeaderLevel
<1>4. ASSUME NEW block \in live, FreeBlock(block) PROVE HeaderLevel'
  BY <1>3, <1>4 DEF FreeBlock, Release
<1>5. ASSUME FreeRejected(FAIL) PROVE HeaderLevel'
  BY <1>3, <1>5 DEF FreeRejected, vars
<1>6. ASSUME NEW data_slot \in Issued, StaleFree(data_slot) PROVE HeaderLevel'
  BY <1>3, <1>6 DEF StaleFree, Release
<1>7. ASSUME UNCHANGED vars PROVE HeaderLevel'
  BY <1>3, <1>7 DEF vars
<1> QED
  BY <1>1, <1>2, <1>4, <1>5, <1>6, <1>7 DEF StaleNext, Next, Malloc

\* The level malloc_heap has written is the one that next_pow2 and the loop on
\* the capacity compute from the request, whatever is freed in between.
THEOREM LevelsAreExact == StaleSpec => []LevelsAgree
<1>1. Init => HeaderLevel
  BY DEF Init, HeaderLevel
<1>2. HeaderLevel => LevelsAgree
  BY LoopLevel DEF HeaderLevel, LevelsAgree
<1> QED
  BY <1>1, <1>2, HeaderLevelStep, TypeCorrect, PTL DEF StaleSpec

=============================================================================
