---------------------------- MODULE SourceRunProofs ----------------------------
(****************************************************************************)
(* That executing the words of a binary is running the text it was          *)
(* assembled from (Program implements SourceRun), for all texts.            *)
(****************************************************************************)
EXTENDS ProgramProofs, WellFoundedInduction

----------------------------------------------------------------------------
(* Counting.                                                                *)

\* The elements of w[j] for all j in S, each with its j
Tagged(w, S) == UNION {{j} \X w[j] : j \in S}

\* A set of natural numbers that is not empty has a least one.
LEMMA LeastOf ==
  ASSUME NEW T \in SUBSET Nat, T # {}
  PROVE  \E n \in T : \A k \in T : n <= k
<1> DEFINE R == OpToRel(<, Nat)
<1>1. IsWellFoundedOn(R, Nat)
  BY NatLessThanWellFounded
<1>2. PICK n \in T : \A k \in T : ~ (<<k, n>> \in R)
  <2> HIDE DEF R
  <2> QED
    BY <1>1, WFMin
<1>3. \A k \in T : ~(k < n)
  BY <1>2 DEF OpToRel
<1> HIDE DEF R
<1> QED
  BY <1>3

\* One that has a bound has a greatest.
LEMMA GreatestOf ==
  ASSUME NEW T \in SUBSET Nat, T # {}, NEW b \in Nat, \A k \in T : k <= b
  PROVE  \E n \in T : \A k \in T : k <= n
<1> DEFINE U == {x \in Nat : b - x \in T}
<1>1. \A k \in T : b - k \in U
  OBVIOUS
<1>2. U # {} /\ U \in SUBSET Nat
  BY <1>1
<1> HIDE DEF U
<1>3. PICK x \in U : \A y \in U : x <= y
  BY <1>2, LeastOf
<1>4. b - x \in T
  BY <1>3 DEF U
<1>5. \A k \in T : k <= b - x
  BY <1>1, <1>2, <1>3
<1> QED
  BY <1>4, <1>5

\* What is counted for two sets of lines is counted once for each.
LEMMA TaggedUnion ==
  ASSUME NEW w, NEW S, NEW T, S \cap T = {},
         IsFiniteSet(Tagged(w, S)), IsFiniteSet(Tagged(w, T))
  PROVE  /\ IsFiniteSet(Tagged(w, S \cup T))
         /\ Cardinality(Tagged(w, S)) \in Nat /\ Cardinality(Tagged(w, T)) \in Nat
         /\ Cardinality(Tagged(w, S \cup T)) = Cardinality(Tagged(w, S)) + Cardinality(Tagged(w, T))
<1>1. Tagged(w, S \cup T) = Tagged(w, S) \cup Tagged(w, T)
  BY DEF Tagged
<1>2. Tagged(w, S) \cap Tagged(w, T) = {}
  BY DEF Tagged
<1> DEFINE A == Tagged(w, S)
           B == Tagged(w, T)
<1> HIDE DEF A, B
<1>3. IsFiniteSet(A) /\ IsFiniteSet(B) /\ A \cap B = {}
  BY <1>2 DEF A, B
<1>4. /\ IsFiniteSet(A \cup B)
      /\ Cardinality(A \cup B) = Cardinality(A) + Cardinality(B) - Cardinality(A \cap B)
  BY <1>3, FS_Union
<1>5. Cardinality(A) \in Nat /\ Cardinality(B) \in Nat
  BY <1>3, FS_CardinalityType
<1>6. Cardinality(A \cap B) = 0
  BY <1>3, FS_EmptySet, Zenon
<1>7. Cardinality(A \cup B) = Cardinality(A) + Cardinality(B)
  BY <1>4, <1>5, <1>6
<1> QED
  BY <1>1, <1>4, <1>5, <1>7 DEF A, B

\* One line has as many as its set.
LEMMA TaggedOne ==
  ASSUME NEW w, NEW j, IsFiniteSet(w[j])
  PROVE  /\ IsFiniteSet(Tagged(w, {j}))
         /\ Cardinality(Tagged(w, {j})) = Cardinality(w[j])
         /\ Cardinality(w[j]) \in Nat
<1>1. Tagged(w, {j}) = {j} \X w[j]
  BY DEF Tagged
<1>2. IsFiniteSet({j}) /\ Cardinality({j}) = 1
  BY FS_Singleton
<1>3. /\ IsFiniteSet({j} \X w[j])
      /\ Cardinality({j} \X w[j]) = Cardinality({j}) * Cardinality(w[j])
  BY <1>2, FS_Product
<1>4. Cardinality(w[j]) \in Nat
  BY FS_CardinalityType
<1>5. Cardinality({j}) * Cardinality(w[j]) = Cardinality(w[j])
  BY <1>2, <1>4
<1> QED
  BY <1>1, <1>3, <1>4, <1>5

\* Every count of the first n lines is finite.
LEMMA TaggedFinite ==
  ASSUME NEW w, NEW n \in Nat, \A j \in 1..n : IsFiniteSet(w[j])
  PROVE  \A S \in SUBSET (1..n) :
           IsFiniteSet(Tagged(w, S)) /\ Cardinality(Tagged(w, S)) \in Nat
<1> DEFINE T == {m \in Nat : m <= n /\ ~IsFiniteSet(Tagged(w, 1..m))}
<1>1. T = {}
  <2> SUFFICES ASSUME T # {} PROVE FALSE
    OBVIOUS
  <2>1. PICK m \in T : \A k \in T : m <= k
    BY LeastOf
  <2>2. m # 0
    <3>1. 1..0 = {} /\ Tagged(w, {}) = {}
      BY DEF Tagged
    <3> QED
      BY <3>1, FS_EmptySet
  <2>3. IsFiniteSet(Tagged(w, 1..(m - 1)))
    <3>1. m - 1 \in Nat /\ m - 1 <= n /\ ~(m <= m - 1)
      BY <2>2
    <3> QED
      BY <2>1, <3>1
  <2>4. m \in 1..n /\ 1..m = (1..(m - 1)) \cup {m} /\ (1..(m - 1)) \cap {m} = {}
    BY <2>2
  <2>5. IsFiniteSet(Tagged(w, {m}))
    BY <2>4, TaggedOne
  <2>6. IsFiniteSet(Tagged(w, (1..(m - 1)) \cup {m}))
    BY <2>3, <2>4, <2>5, TaggedUnion
  <2> QED
    BY <2>4, <2>6
<1>2. IsFiniteSet(Tagged(w, 1..n))
  BY <1>1
<1> SUFFICES ASSUME NEW S \in SUBSET (1..n)
             PROVE  IsFiniteSet(Tagged(w, S)) /\ Cardinality(Tagged(w, S)) \in Nat
  OBVIOUS
<1>3. Tagged(w, S) \in SUBSET Tagged(w, 1..n)
  BY DEF Tagged
<1> QED
  BY <1>2, <1>3, FS_Subset, FS_CardinalityType

----------------------------------------------------------------------------
(* The text.                                                                *)

\* The header of a line is the last one before it or on it.
LEMMA HeaderBefore ==
  ASSUME NEW text, NEW k \in Nat, NEW g \in 1..k, IsHeader(text[g])
  PROVE  /\ HeaderOf(text, k) \in 1..k
         /\ HeaderOf(text, k) >= g
         /\ IsHeader(text[HeaderOf(text, k)])
         /\ \A j \in (HeaderOf(text, k) + 1)..k : ~IsHeader(text[j])
<1> DEFINE T == {h \in 1..k : IsHeader(text[h])}
<1>1. T \in SUBSET Nat /\ T # {} /\ \A h \in T : h <= k
  OBVIOUS
<1>2. PICK h \in T : \A j \in T : j <= h
  <2> HIDE DEF T
  <2> QED
    BY <1>1, GreatestOf
<1>3. h \in 1..k /\ IsHeader(text[h]) /\ h >= g /\ \A j \in (h + 1)..k : ~IsHeader(text[j])
  BY <1>2
<1>4. HeaderOf(text, k) = h
  BY <1>3, HeaderIs
<1> QED
  BY <1>3, <1>4

\* Lines with no header in between have one header.
LEMMA SameHeader ==
  ASSUME NEW text, NEW k \in Nat, NEW j \in 1..k, NEW g \in 1..j, IsHeader(text[g]),
         \A i \in (j + 1)..k : ~IsHeader(text[i])
  PROVE  HeaderOf(text, k) = HeaderOf(text, j)
<1> DEFINE h == HeaderOf(text, j)
<1>1. h \in 1..j /\ IsHeader(text[h]) /\ \A i \in (h + 1)..j : ~IsHeader(text[i])
  BY HeaderBefore
<1> HIDE DEF h
<1>2. h \in 1..k /\ \A i \in (h + 1)..k : ~IsHeader(text[i])
  BY <1>1
<1>3. HeaderOf(text, k) = h
  BY <1>1, <1>2, HeaderIs
<1> QED
  BY <1>3 DEF h

\* Counting is the same everywhere.
LEMMA SameCardinality == \A S : Text!Cardinality(S) = Cardinality(S)
BY DEF Text!Cardinality, Cardinality

\* The subroutine of a line
Owner(k) == source[HeaderOf(source, k)].name

\* SourceRun reads the text as the assembler does.
LEMMA SameText ==
  /\ Text!CodeLines(source) = CodeLines(source)
  /\ \A k : Text!SubroutineAt(k) = Owner(k)
  /\ \A sub : Text!BodyOf(sub) = {k \in CodeLines(source) : Owner(k) = sub}
  /\ Text!Subroutines = {source[k].name : k \in {j \in DOMAIN source : IsHeader(source[j])}}
                          \ DataSections
  /\ Text!LeadingCode(source) <=> LeadingCode(source)
  /\ \A sub : Text!Headers(source, sub) = Headers(source, sub)
  /\ Text!Declarations = {k \in DOMAIN source :
                            source[k].kind = "data" /\ Owner(k) \in DataSections}
  /\ Text!Jumps = Jumps
  /\ \A line : Text!LocalToken(line) = LocalToken(line)
  /\ \A line : Text!UsesLocals(line) <=> UsesLocals(line)
<1>1. \A line : Text!IsHeader(line) = IsHeader(line)
  BY DEF Text!IsHeader, IsHeader
<1>2. \A k : Text!HeaderOf(source, k) = HeaderOf(source, k)
  BY DEF Text!IsHeader, IsHeader, Text!HeaderOf, HeaderOf
<1>3. Text!DataSections = DataSections
  BY DEF Text!DataSections, DataSections
<1>4. Text!CodeLines(source) = CodeLines(source)
  BY <1>1, <1>2, <1>3 DEF Text!CodeLines, CodeLines
<1>5. \A k : Text!SubroutineAt(k) = Owner(k)
  BY <1>2 DEF Text!SubroutineAt, Owner
<1>6. \A sub : Text!BodyOf(sub) = {k \in CodeLines(source) : Owner(k) = sub}
  BY <1>4, <1>5 DEF Text!BodyOf
<1>7. Text!Subroutines = {source[k].name : k \in {j \in DOMAIN source : IsHeader(source[j])}}
                          \ DataSections
  BY <1>1, <1>3 DEF Text!Subroutines
<1>8. Text!LeadingCode(source) <=> LeadingCode(source)
  BY <1>1 DEF Text!LeadingCode, LeadingCode
<1>9. \A sub : Text!Headers(source, sub) = Headers(source, sub)
  BY <1>1 DEF Text!Headers, Headers
<1>10. Text!Declarations = {k \in DOMAIN source :
                              source[k].kind = "data" /\ Owner(k) \in DataSections}
  BY <1>3, <1>5 DEF Text!Declarations
<1>11. Text!Jumps = Jumps
  BY DEF Text!Jumps, Jumps
<1>12. /\ \A line : Text!LocalToken(line) = LocalToken(line)
       /\ \A line : Text!UsesLocals(line) <=> UsesLocals(line)
  BY DEF Text!LocalToken, LocalToken, Text!UsesLocals, UsesLocals, Text!StoresLocal,
         StoresLocal,
         Text!UsesLocal, UsesLocal
<1> QED
  BY <1>4, <1>5, <1>6, <1>7, <1>8, <1>9, <1>10, <1>11, <1>12

----------------------------------------------------------------------------
(* What the rules of the language say.                                      *)

\* A line of code or data has its parts.
LEMMA Lineparts ==
  ASSUME source \in Seq(Lines)
  PROVE  /\ Len(source) \in Nat /\ DOMAIN source = 1..Len(source)
         /\ \A k \in DOMAIN source :
              /\ IsHeader(source[k]) => source[k].name # NoName
              /\ ~IsHeader(source[k]) => /\ source[k].args \in Seq(STRING)
                                         /\ Len(source[k].args) \in Nat
                                         /\ source[k].kind \in {"data", "code"}
              /\ source[k].kind = "data" =>
                   /\ ~IsHeader(source[k])
                   /\ source[k].values \in Seq(Int) /\ source[k].array \in BOOLEAN
<1>1. Len(source) \in Nat /\ DOMAIN source = 1..Len(source)
  BY LenProperties
<1> SUFFICES ASSUME NEW k \in DOMAIN source
             PROVE  /\ IsHeader(source[k]) => source[k].name # NoName
                    /\ ~IsHeader(source[k]) => /\ source[k].args \in Seq(STRING)
                                               /\ Len(source[k].args) \in Nat
                                               /\ source[k].kind \in {"data", "code"}
                    /\ source[k].kind = "data" =>
                         /\ ~IsHeader(source[k])
                         /\ source[k].values \in Seq(Int) /\ source[k].array \in BOOLEAN
  BY <1>1
<1>2. source[k] \in Lines
  BY <1>1, ElementOfSeq
<1>3. IsHeader(source[k]) => source[k].name # NoName
  BY <1>2 DEF Lines, IsHeader
<1>4. ~IsHeader(source[k]) =>
        source[k].args \in Seq(STRING) /\ source[k].kind \in {"data", "code"}
  BY <1>2 DEF Lines, IsHeader
<1>5. source[k].kind = "data" =>
        ~IsHeader(source[k]) /\ source[k].values \in Seq(Int) /\ source[k].array \in BOOLEAN
  BY <1>2 DEF Lines, IsHeader
<1> QED
  BY <1>3, <1>4, <1>5, LenProperties

\* A line of code belongs to a subroutine, which has one header.
LEMMA TextRules ==
  ASSUME source \in Seq(Lines), Text!WellFormed
  PROVE  /\ Len(source) >= 1 /\ IsHeader(source[1])
         /\ \A k \in 1..Len(source) :
              LET h == HeaderOf(source, k)
              IN  /\ h \in 1..k /\ IsHeader(source[h])
                  /\ \A j \in (h + 1)..k : ~IsHeader(source[j])
         /\ \A k \in CodeLines(source) :
              k \in 1..Len(source) /\ ~IsHeader(source[k]) /\ Owner(k) \in Text!Subroutines
         /\ \A g, h \in 1..Len(source) :
              /\ IsHeader(source[g]) /\ IsHeader(source[h])
              /\ source[g].name = source[h].name /\ source[g].name \notin DataSections
              => g = h
<1>1. Len(source) \in Nat /\ DOMAIN source = 1..Len(source)
  BY Lineparts
<1>2. PICK k \in DOMAIN source : IsHeader(source[k]) /\ source[k].name = "_global"
  BY SameText DEF Text!WellFormed
<1>3. Len(source) >= 1 /\ IsHeader(source[1])
  <2>1. source # <<>>
    BY <1>1, <1>2
  <2>2. ~LeadingCode(source)
    BY SameText DEF Text!WellFormed
  <2>3. IsHeader(source[1])
    BY <2>1, <2>2 DEF LeadingCode
  <2> QED
    BY <1>1, <1>2, <2>3
<1>4. \A j \in 1..Len(source) :
        LET h == HeaderOf(source, j)
        IN  h \in 1..j /\ IsHeader(source[h]) /\ \A i \in (h + 1)..j : ~IsHeader(source[i])
  <2> TAKE j \in 1..Len(source)
  <2>1. 1 \in 1..j /\ j \in Nat
    BY <1>1
  <2> QED
    BY <1>3, <2>1, HeaderBefore
<1>5. \A j \in CodeLines(source) :
        j \in 1..Len(source) /\ ~IsHeader(source[j]) /\ Owner(j) \in Text!Subroutines
  <2> SUFFICES ASSUME NEW j \in CodeLines(source)
               PROVE  j \in 1..Len(source) /\ ~IsHeader(source[j]) /\ Owner(j) \in Text!Subroutines
    OBVIOUS
  <2>1. /\ j \in 1..Len(source) /\ ~IsHeader(source[j])
        /\ Owner(j) \notin DataSections
    BY <1>1 DEF CodeLines, Owner
  <2>2. HeaderOf(source, j) \in DOMAIN source /\ IsHeader(source[HeaderOf(source, j)])
    BY <1>1, <1>4, <2>1
  <2> QED
    BY <2>1, <2>2, SameText DEF Owner
<1>6. ASSUME NEW g \in 1..Len(source), NEW h \in 1..Len(source),
             IsHeader(source[g]), IsHeader(source[h]),
             source[g].name = source[h].name, source[g].name \notin DataSections
      PROVE  g = h
  <2> DEFINE H == Headers(source, source[g].name)
  <2>1. source[g].name \in Text!Subroutines
    BY <1>1, <1>6, SameText
  <2>2. Cardinality(H) = 1
    <3>1. Cardinality(Text!Headers(source, source[g].name)) = 1
      BY <2>1, SameCardinality DEF Text!WellFormed
    <3>2. Text!Headers(source, source[g].name) = H
      BY SameText
    <3> QED
      BY <3>1, <3>2, Zenon
  <2>3. g \in H /\ h \in H /\ H \in SUBSET (1..Len(source))
    BY <1>1, <1>6 DEF Headers
  <2> HIDE DEF H
  <2>4. IsFiniteSet(H)
    <3>1. IsFiniteSet(1..Len(source))
      BY <1>1, FS_Interval
    <3> QED
      BY <2>3, <3>1, FS_Subset
  <2>5. PICK x : H = {x}
    BY <2>2, <2>4, FS_Singleton
  <2> QED
    BY <2>3, <2>5
<1> QED
  BY <1>3, <1>4, <1>5, <1>6

\* The rules for one line
LEMMA LineRules ==
  ASSUME source \in Seq(Lines), Text!WellFormed, NEW k \in CodeLines(source)
  PROVE  /\ source[k].args \in Seq(STRING)
         /\ Len(source[k].args) = Fetches(source[k].op)
         /\ source[k].op = "PUSH" => source[k].args[1] \in Text!DataNames \cup DOMAIN Numerals
         /\ source[k].op = "CALL" => source[k].args[1] \in Text!Subroutines
         /\ source[k].op \in Jumps \ {"CALL"} =>
              /\ source[k].args[1] \in DOMAIN Numerals
              /\ Text!LinesAt(Owner(k), Numerals[source[k].args[1]]) # {}
<1>1. k \in DOMAIN source /\ ~IsHeader(source[k])
  BY DEF CodeLines
<1>2. source[k].args \in Seq(STRING)
  BY <1>1, Lineparts
<1>3. Text!OperandsOf(source[k].op) = Fetches(source[k].op)
  BY DEF Text!OperandsOf, Fetches, Text!StoresImmediate, StoresImmediate, Text!StoresLocal,
         StoresLocal, Text!Pushes, Pushes, Text!Jumps, Jumps, Text!UsesLocal, UsesLocal
<1> QED
  BY <1>2, <1>3, SameText DEF Text!WellFormed

----------------------------------------------------------------------------
(* The words before a line.                                                 *)

ArgWords == [j \in DOMAIN source |->
               IF j \in CodeLines(source) THEN 0..Len(source[j].args) ELSE {}]
CodeBefore(k) == {j \in CodeLines(source) : j < k}
Before(k) == Cardinality(Tagged(ArgWords, CodeBefore(k)))
Length(k) == IF k \in CodeLines(source) THEN 1 + Len(source[k].args) ELSE 0

\* The words of the text can be counted.
LEMMA CodeFinite ==
  ASSUME source \in Seq(Lines)
  PROVE  /\ \A k \in 1..Len(source) :
              /\ IsFiniteSet(ArgWords[k]) /\ Cardinality(ArgWords[k]) = Length(k)
              /\ Length(k) \in Nat
         /\ \A S \in SUBSET (1..Len(source)) :
              IsFiniteSet(Tagged(ArgWords, S)) /\ Cardinality(Tagged(ArgWords, S)) \in Nat
         /\ \A k \in Nat : CodeBefore(k) \in SUBSET (1..Len(source)) /\ Before(k) \in Nat
<1>1. Len(source) \in Nat /\ DOMAIN source = 1..Len(source)
  BY Lineparts
<1>2. ASSUME NEW k \in 1..Len(source)
      PROVE  /\ IsFiniteSet(ArgWords[k]) /\ Cardinality(ArgWords[k]) = Length(k)
             /\ Length(k) \in Nat
  <2>1. CASE k \in CodeLines(source)
    <3>1. ArgWords[k] = 0..Len(source[k].args)
      BY <1>1, <2>1 DEF ArgWords
    <3>2. Len(source[k].args) \in Nat
      BY <1>1, <2>1, Lineparts DEF CodeLines
    <3> DEFINE n == Len(source[k].args)
    <3> HIDE DEF n
    <3>3. n \in Nat /\ n \in Int /\ 0 \in Int
      BY <3>2 DEF n
    <3>4. IsFiniteSet(0..n) /\ Cardinality(0..n) = IF 0 > n THEN 0 ELSE n - 0 + 1
      BY <3>3, FS_Interval, Zenon
    <3>5. Cardinality(0..n) = n + 1
      BY <3>3, <3>4
    <3> QED
      BY <2>1, <3>1, <3>3, <3>4, <3>5 DEF Length, n
  <2>2. CASE k \notin CodeLines(source)
    <3>1. ArgWords[k] = {} /\ Length(k) = 0
      BY <1>1, <2>2 DEF ArgWords, Length
    <3> QED
      BY <3>1, FS_EmptySet
  <2> QED
    BY <2>1, <2>2
<1>3. \A S \in SUBSET (1..Len(source)) :
        IsFiniteSet(Tagged(ArgWords, S)) /\ Cardinality(Tagged(ArgWords, S)) \in Nat
  BY <1>1, <1>2, TaggedFinite
<1>4. \A k \in Nat : CodeBefore(k) \in SUBSET (1..Len(source))
  BY <1>1 DEF CodeBefore, CodeLines
<1> QED
  BY <1>2, <1>3, <1>4 DEF Before

\* One more line.
LEMMA BeforeNext ==
  ASSUME source \in Seq(Lines)
  PROVE  /\ Before(1) = 0
         /\ \A k \in 1..Len(source) : Before(k + 1) = Before(k) + Length(k)
<1>1. Before(1) = 0
  <2>1. CodeBefore(1) = {}
    BY Lineparts DEF CodeBefore, CodeLines
  <2>2. Tagged(ArgWords, CodeBefore(1)) = {}
    BY <2>1 DEF Tagged
  <2> QED
    BY <2>2, FS_EmptySet DEF Before
<1>2. ASSUME NEW k \in 1..Len(source) PROVE Before(k + 1) = Before(k) + Length(k)
  <2>1. k \in Nat /\ CodeBefore(k) \in SUBSET (1..Len(source)) /\ Before(k) \in Nat
    BY CodeFinite, Lineparts
  <2>2. CASE k \in CodeLines(source)
    <3>1. CodeBefore(k + 1) = CodeBefore(k) \cup {k} /\ CodeBefore(k) \cap {k} = {}
      BY <2>1, <2>2, Lineparts DEF CodeBefore, CodeLines
    <3>2. /\ IsFiniteSet(Tagged(ArgWords, CodeBefore(k))) /\ IsFiniteSet(Tagged(ArgWords, {k}))
          /\ Cardinality(Tagged(ArgWords, {k})) = Length(k)
      BY <2>1, CodeFinite, TaggedOne
    <3>3. Cardinality(Tagged(ArgWords, CodeBefore(k) \cup {k})) =
            Cardinality(Tagged(ArgWords, CodeBefore(k))) + Cardinality(Tagged(ArgWords, {k}))
      BY <3>1, <3>2, TaggedUnion
    <3> QED
      BY <3>1, <3>2, <3>3 DEF Before
  <2>3. CASE k \notin CodeLines(source)
    <3>1. CodeBefore(k + 1) = CodeBefore(k)
      BY <2>1, <2>3, Lineparts DEF CodeBefore, CodeLines
    <3> QED
      BY <2>1, <2>3, <3>1 DEF Before, Length
  <2> QED
    BY <2>2, <2>3
<1> QED
  BY <1>1, <1>2

\* The counts grow with the lines.
LEMMA BeforeGrows ==
  ASSUME source \in Seq(Lines), NEW k \in Nat, NEW j \in Nat, j <= k
  PROVE  Before(j) <= Before(k)
<1>1. CodeBefore(j) \subseteq CodeBefore(k)
  BY Lineparts DEF CodeBefore, CodeLines
<1>2. Tagged(ArgWords, CodeBefore(j)) \in SUBSET Tagged(ArgWords, CodeBefore(k))
  BY <1>1 DEF Tagged
<1>3. IsFiniteSet(Tagged(ArgWords, CodeBefore(k)))
  BY CodeFinite
<1> QED
  BY <1>2, <1>3, FS_Subset DEF Before

\* The words between two lines of code
LEMMA BeforeApart ==
  ASSUME source \in Seq(Lines), NEW j \in CodeLines(source), NEW k \in Nat, j < k
  PROVE  /\ Before(j) + 1 + Len(source[j].args) <= Before(k)
         /\ Len(source[j].args) \in Nat /\ Before(j) \in Nat /\ Before(k) \in Nat
<1>1. j \in 1..Len(source) /\ Len(source[j].args) \in Nat
  BY Lineparts DEF CodeLines
<1>2. Before(j + 1) = Before(j) + (1 + Len(source[j].args))
  BY <1>1, BeforeNext DEF Length
<1>3. j + 1 \in Nat /\ j + 1 <= k /\ j \in Nat
  BY <1>1
<1>4. Before(j + 1) <= Before(k)
  BY <1>3, BeforeGrows
<1>5. Before(j) \in Nat /\ Before(k) \in Nat
  BY <1>3, CodeFinite
<1> QED
  BY <1>1, <1>2, <1>4, <1>5

----------------------------------------------------------------------------
(* Lines of one subroutine.                                                 *)

\* FirstOf is the least element, ...
LEMMA FirstIs ==
  ASSUME NEW S \in SUBSET Nat, S # {}
  PROVE  Text!FirstOf(S) \in S /\ \A j \in S : Text!FirstOf(S) <= j
<1>1. \E k \in S : \A j \in S : k <= j
  BY LeastOf
<1> QED
  BY <1>1 DEF Text!FirstOf

\* ... LastOf the greatest.
LEMMA LastIs ==
  ASSUME NEW S \in SUBSET Nat, S # {}, NEW b \in Nat, \A k \in S : k <= b
  PROVE  Text!LastOf(S) \in S /\ \A j \in S : j <= Text!LastOf(S)
<1>1. \E k \in S : \A j \in S : j <= k
  BY GreatestOf
<1> QED
  BY <1>1 DEF Text!LastOf

\* Lines of code have the same owner exactly if they stand under one header.
LEMMA OneHeader ==
  ASSUME source \in Seq(Lines), Text!WellFormed, NEW k \in CodeLines(source),
         NEW i \in CodeLines(source)
  PROVE  /\ Owner(i) = Owner(k) <=> HeaderOf(source, i) = HeaderOf(source, k)
         /\ i <= k => (Owner(i) = Owner(k) <=> HeaderOf(source, k) < i)
<1> DEFINE h == HeaderOf(source, k)
           g == HeaderOf(source, i)
<1>1. /\ k \in 1..Len(source) /\ i \in 1..Len(source) /\ Len(source) \in Nat
      /\ ~IsHeader(source[i]) /\ ~IsHeader(source[k])
      /\ Owner(k) \notin DataSections
  BY Lineparts, TextRules, SameText
<1>2. /\ h \in 1..k /\ IsHeader(source[h]) /\ \A j \in (h + 1)..k : ~IsHeader(source[j])
      /\ g \in 1..i /\ IsHeader(source[g]) /\ \A j \in (g + 1)..i : ~IsHeader(source[j])
  BY <1>1, TextRules
<1>3. Owner(i) = source[g].name /\ Owner(k) = source[h].name
  BY DEF Owner
<1> HIDE DEF g, h
<1>4. Owner(i) = Owner(k) <=> g = h
  <2>1. g \in 1..Len(source) /\ h \in 1..Len(source)
    BY <1>1, <1>2
  <2> QED
    BY <1>1, <1>2, <1>3, <2>1, TextRules
<1>5. i <= k => (g = h <=> h < i)
  <2>1. g # i
    BY <1>1, <1>2
  <2>2. ASSUME i <= k, h < i PROVE g = h
    <3>1. h \in 1..i /\ IsHeader(source[h]) /\ \A j \in (h + 1)..i : ~IsHeader(source[j])
      BY <1>1, <1>2, <2>2
    <3>2. HeaderOf(source, i) = h
      BY <1>1, <3>1, HeaderIs
    <3> QED
      BY <3>2 DEF g
  <2> QED
    BY <1>1, <1>2, <2>1, <2>2
<1> QED
  BY <1>4, <1>5 DEF g, h

\* The words of a subroutine begin where its header stands.
LEMMA AheadCounted ==
  ASSUME source \in Seq(Lines), Text!WellFormed, NEW k \in CodeLines(source)
  PROVE  /\ Before(k) = Before(HeaderOf(source, k)) + Cardinality(Text!WordsAhead(k))
         /\ Cardinality(Text!WordsAhead(k)) \in Nat
         /\ Before(HeaderOf(source, k)) \in Nat /\ Before(k) \in Nat
<1> DEFINE h == HeaderOf(source, k)
           own == {i \in CodeLines(source) : Owner(i) = Owner(k) /\ i < k}
<1>1. h \in 1..k /\ k \in 1..Len(source) /\ Len(source) \in Nat
      /\ \A i \in CodeLines(source) : i \in 1..Len(source) /\ i # h
  BY Lineparts, TextRules
<1>2. Text!WordsAhead(k) = Tagged(ArgWords, own)
  <2>1. {i \in Text!BodyOf(Text!SubroutineAt(k)) : i < k} = own
    BY SameText
  <2>2. \A j \in own : 0..Len(source[j].args) = ArgWords[j]
    BY <1>1, Lineparts DEF ArgWords
  <2> HIDE DEF own
  <2> QED
    BY <2>1, <2>2 DEF Text!WordsAhead, Tagged
<1>3. CodeBefore(k) = CodeBefore(h) \cup own /\ CodeBefore(h) \cap own = {}
  <2>1. \A i \in CodeLines(source) : i < k => (Owner(i) = Owner(k) <=> h < i)
    BY <1>1, OneHeader
  <2>2. \A i \in CodeLines(source) : i \in Nat /\ i # h
    BY <1>1
  <2>3. h \in Nat /\ k \in Nat /\ h <= k
    BY <1>1
  <2>4. \A i \in CodeLines(source) : i < k <=> i < h \/ (i < k /\ Owner(i) = Owner(k))
    BY <2>1, <2>2, <2>3
  <2>5. \A i \in CodeLines(source) : ~(i < h /\ i < k /\ Owner(i) = Owner(k))
    BY <2>1, <2>2, <2>3
  <2> HIDE DEF h
  <2> QED
    BY <2>4, <2>5 DEF CodeBefore
<1>4. own \in SUBSET (1..Len(source)) /\ h \in Nat /\ k \in Nat
  <2>1. \A i \in own : i \in 1..Len(source)
    BY <1>1
  <2>2. h \in Nat /\ k \in Nat
    BY <1>1
  <2> HIDE DEF own
  <2> QED
    BY <2>1, <2>2
<1> HIDE DEF own, h
<1>5. /\ IsFiniteSet(Tagged(ArgWords, own)) /\ IsFiniteSet(Tagged(ArgWords, CodeBefore(h)))
      /\ Before(h) \in Nat /\ Before(k) \in Nat
  BY <1>4, CodeFinite
<1>6. Before(k) = Before(h) + Cardinality(Tagged(ArgWords, own))
      /\ Cardinality(Tagged(ArgWords, own)) \in Nat
  BY <1>3, <1>5, TaggedUnion DEF Before
<1> QED
  BY <1>2, <1>5, <1>6 DEF h

\* Where a jump goes
LEMMA JumpLines ==
  ASSUME source \in Seq(Lines), Text!WellFormed, NEW k \in CodeLines(source), NEW n \in Int
  PROVE  \A j \in Text!LinesAt(Owner(k), n) :
           /\ j \in CodeLines(source) /\ Owner(j) = Owner(k)
           /\ Before(j) = Before(HeaderOf(source, k)) + n
<1> SUFFICES ASSUME NEW j \in Text!LinesAt(Owner(k), n)
             PROVE  /\ j \in CodeLines(source) /\ Owner(j) = Owner(k)
                    /\ Before(j) = Before(HeaderOf(source, k)) + n
  OBVIOUS
<1>1. j \in CodeLines(source) /\ Owner(j) = Owner(k) /\ Cardinality(Text!WordsAhead(j)) = n
  BY SameText, SameCardinality DEF Text!LinesAt
<1>2. HeaderOf(source, j) = HeaderOf(source, k)
  BY <1>1, OneHeader
<1> QED
  BY <1>1, <1>2, AheadCounted

\* The line behind one that does not end a subroutine
LEMMA LineBehind ==
  ASSUME source \in Seq(Lines), Text!WellFormed, NEW k \in CodeLines(source),
         source[k].op \notin {"RET", "HALT", "JUMP"}
  PROVE  LET next == Text!NextLine(k)
         IN  /\ next \in CodeLines(source) /\ Owner(next) = Owner(k)
             /\ Before(next) = Before(k) + 1 + Len(source[k].args)
<1> DEFINE Body == {i \in CodeLines(source) : Owner(i) = Owner(k)}
           last == Text!LastOf(Body)
           later == {j \in CodeLines(source) : j > k}
           next == Text!FirstOf(later)
<1>1. /\ k \in 1..Len(source) /\ Len(source) \in Nat
      /\ \A i \in CodeLines(source) : i \in 1..Len(source)
      /\ Owner(k) \in Text!Subroutines
  BY Lineparts, TextRules
<1>2. last \in Body /\ k <= last /\ last # k
  <2>1. k \in Body /\ Body # {} /\ Body \in SUBSET Nat
    <3>1. Body \in SUBSET (1..Len(source))
      BY <1>1
    <3> QED
      BY <1>1, <3>1
  <2>4. \A i \in Body : i <= Len(source)
    BY <1>1
  <2>2. source[last].op \in {"RET", "HALT", "JUMP"}
    <3>1. Text!BodyOf(Owner(k)) = Body
      BY SameText
    <3> QED
      BY <1>1, <3>1 DEF Text!WellFormed
  <2> HIDE DEF Body
  <2>3. last \in Body /\ k <= last
    BY <1>1, <2>1, <2>4, LastIs
  <2> QED
    BY <2>2, <2>3
<1>3. last \in later /\ later \in SUBSET Nat
  <2>2. later \in SUBSET (1..Len(source))
    BY <1>1
  <2> HIDE DEF last
  <2>3. last \in CodeLines(source)
    BY <1>2
  <2>1. last \in CodeLines(source) /\ last > k
    BY <1>1, <1>2, <2>3
  <2> QED
    BY <1>1, <2>1, <2>2
<1>4. next \in later /\ \A j \in later : next <= j
  <2> HIDE DEF later, last
  <2> QED
    BY <1>3, FirstIs
<1>5. Text!NextLine(k) = next
  BY SameText DEF Text!NextLine
<1> HIDE DEF next, last
<1>6. next \in CodeLines(source) /\ k < next /\ next <= last
  BY <1>3, <1>4
<1>7. Owner(next) = Owner(k)
  <2>1. Owner(last) = Owner(k) /\ last \in CodeLines(source)
    BY <1>2
  <2>2. HeaderOf(source, last) < k
    BY <1>2, <2>1, OneHeader
  <2>3. HeaderOf(source, last) < next
    <3>1. HeaderOf(source, last) \in Nat
      BY <1>1, <2>1, TextRules
    <3> QED
      BY <1>1, <1>6, <2>2, <3>1
  <2>4. Owner(next) = Owner(last)
    BY <1>6, <2>1, <2>3, OneHeader
  <2> QED
    BY <2>1, <2>4
<1>8. Before(next) = Before(k) + 1 + Len(source[k].args)
  <2>1. Before(k + 1) = Before(k) + (1 + Len(source[k].args))
    BY <1>1, BeforeNext DEF Length
  <2>2. CodeBefore(next) = CodeBefore(k + 1)
    <3>1. \A i \in CodeLines(source) : i < next <=> i < k + 1
      BY <1>1, <1>4, <1>6
    <3> QED
      BY <3>1 DEF CodeBefore
  <2>3. Before(next) = Before(k + 1)
    BY <2>2 DEF Before
  <2>4. Before(k) \in Nat /\ Len(source[k].args) \in Nat
    BY <1>1, <1>6, BeforeApart
  <2> QED
    BY <2>1, <2>3, <2>4
<1> QED
  BY <1>5, <1>6, <1>7, <1>8

\* The first line of a subroutine
LEMMA BodyStart ==
  ASSUME source \in Seq(Lines), Text!WellFormed, NEW sub \in Text!Subroutines
  PROVE  LET first == Text!FirstOf(Text!BodyOf(sub))
         IN  /\ first \in CodeLines(source) /\ Owner(first) = sub
             /\ \A h \in 1..Len(source) :
                  IsHeader(source[h]) /\ source[h].name = sub => Before(first) = Before(h)
<1> DEFINE Body == {i \in CodeLines(source) : Owner(i) = sub}
           first == Text!FirstOf(Body)
<1>1. Text!BodyOf(sub) = Body
  BY SameText
<1>2. Body # {}
  BY <1>1 DEF Text!WellFormed
<1>3. \A i \in CodeLines(source) : i \in 1..Len(source) /\ ~IsHeader(source[i])
  BY TextRules
<1>4. first \in Body /\ \A i \in Body : first <= i
  <2>1. Body \in SUBSET Nat
    BY <1>3
  <2> HIDE DEF Body
  <2> QED
    BY <1>2, <2>1, FirstIs
<1> HIDE DEF first
<1>5. ASSUME NEW h \in 1..Len(source), IsHeader(source[h]), source[h].name = sub
      PROVE  Before(first) = Before(h)
  <2>1. first \in CodeLines(source) /\ Owner(first) = sub /\ first \in 1..Len(source)
    BY <1>3, <1>4
  <2>2. HeaderOf(source, first) = h
    <3>1. /\ HeaderOf(source, first) \in 1..first /\ IsHeader(source[HeaderOf(source, first)])
          /\ Len(source) \in Nat /\ sub \notin DataSections
      BY <2>1, Lineparts, TextRules, SameText
    <3>2. HeaderOf(source, first) \in 1..Len(source)
      BY <2>1, <3>1
    <3>3. source[HeaderOf(source, first)].name = source[h].name
      BY <1>5, <2>1 DEF Owner
    <3> QED
      BY <1>5, <3>1, <3>2, <3>3, TextRules
  <2>3. \A i \in CodeLines(source) : i < first => ~(h < i)
    <3> SUFFICES ASSUME NEW i \in CodeLines(source), i < first PROVE ~(h < i)
      OBVIOUS
    <3>1. Owner(i) # sub
      BY <1>3, <1>4, <2>1
    <3> QED
      BY <1>3, <2>1, <2>2, <3>1, OneHeader
  <2>4. h <= first
    BY <2>1, <2>2, TextRules
  <2>5. CodeBefore(first) = CodeBefore(h)
    <3>1. \A i \in CodeLines(source) : i < first <=> i < h
      BY <1>3, <1>5, <2>1, <2>3, <2>4
    <3> QED
      BY <3>1 DEF CodeBefore
  <2> QED
    BY <2>5 DEF Before
<1> QED
  BY <1>1, <1>4, <1>5 DEF first

----------------------------------------------------------------------------
(* The data before a line.                                                  *)

DataWordsOf ==
  [j \in DOMAIN source |->
     IF j \in Text!Declarations THEN DOMAIN Text!WordsIn(source[j]) ELSE {}]
DataBefore(k) == {j \in Text!Declarations : j < k}
DataLength(k) == IF k \in Text!Declarations THEN Len(Text!WordsIn(source[k])) ELSE 0

\* The words of a declaration are a sequence.
LEMMA WordsInSeq ==
  ASSUME NEW line, line.values \in Seq(Int)
  PROVE  /\ Text!WordsIn(line) \in Seq(Int) /\ Len(Text!WordsIn(line)) \in Nat
         /\ DOMAIN Text!WordsIn(line) = 1..Len(Text!WordsIn(line))
<1>1. Text!WordsIn(line) \in Seq(Int)
  <2>1. Len(line.values) + 1 \in Int
    BY LenProperties
  <2>2. <<Len(line.values) + 1>> \in Seq(Int)
    BY <2>1
  <2> QED
    BY <2>2, ConcatProperties DEF Text!WordsIn
<1> QED
  BY <1>1, LenProperties

\* The address of a declaration is the number of data words on the lines before it.
LEMMA DataCounted ==
  ASSUME source \in Seq(Lines)
  PROVE  /\ Text!Address(1) = 0
         /\ \A k \in Nat : Text!Address(k) \in Nat
         /\ \A k \in 1..Len(source) :
              /\ DataLength(k) \in Nat
              /\ Text!Address(k + 1) = Text!Address(k) + DataLength(k)
         /\ Text!WordCount(Text!Declarations) = Text!Address(Len(source) + 1)
<1>1. Len(source) \in Nat /\ DOMAIN source = 1..Len(source)
      /\ Text!Declarations \in SUBSET (1..Len(source))
  BY Lineparts, SameText
<1>2. ASSUME NEW k \in 1..Len(source)
      PROVE  /\ IsFiniteSet(DataWordsOf[k]) /\ Cardinality(DataWordsOf[k]) = DataLength(k)
             /\ DataLength(k) \in Nat
  <2>1. CASE k \in Text!Declarations
    <3> DEFINE n == Len(Text!WordsIn(source[k]))
    <3>1. source[k].values \in Seq(Int)
      BY <1>1, <2>1, Lineparts, SameText
    <3>2. DataWordsOf[k] = 1..n /\ n \in Nat /\ n \in Int /\ 1 \in Int
      BY <1>1, <2>1, <3>1, WordsInSeq DEF DataWordsOf
    <3>3. DataLength(k) = n
      BY <2>1 DEF DataLength
    <3> HIDE DEF n
    <3>4. IsFiniteSet(1..n) /\ Cardinality(1..n) = IF 1 > n THEN 0 ELSE n - 1 + 1
      BY <3>2, FS_Interval, Zenon
    <3>5. Cardinality(1..n) = n
      BY <3>2, <3>4
    <3> QED
      BY <3>2, <3>3, <3>4, <3>5
  <2>2. CASE k \notin Text!Declarations
    <3>1. DataWordsOf[k] = {} /\ DataLength(k) = 0
      BY <1>1, <2>2 DEF DataWordsOf, DataLength
    <3> QED
      BY <3>1, FS_EmptySet
  <2> QED
    BY <2>1, <2>2
<1>3. \A S \in SUBSET (1..Len(source)) :
        IsFiniteSet(Tagged(DataWordsOf, S)) /\ Cardinality(Tagged(DataWordsOf, S)) \in Nat
  BY <1>1, <1>2, TaggedFinite
<1>4. \A S \in SUBSET Text!Declarations : Text!WordCount(S) = Cardinality(Tagged(DataWordsOf, S))
  <2> SUFFICES ASSUME NEW S \in SUBSET Text!Declarations
               PROVE  Text!WordCount(S) = Cardinality(Tagged(DataWordsOf, S))
    OBVIOUS
  <2>1. \A j \in S : DataWordsOf[j] = DOMAIN Text!WordsIn(source[j])
    BY <1>1 DEF DataWordsOf
  <2>2. UNION {{j} \X (DOMAIN Text!WordsIn(source[j])) : j \in S} = Tagged(DataWordsOf, S)
    BY <2>1 DEF Tagged
  <2> QED
    BY <2>2, SameCardinality DEF Text!WordCount
<1>5. \A k : DataBefore(k) \in SUBSET Text!Declarations
             /\ Text!Address(k) = Cardinality(Tagged(DataWordsOf, DataBefore(k)))
  BY <1>4 DEF DataBefore, Text!Address
<1>6. Text!Address(1) = 0
  <2>3. \A j \in Text!Declarations : ~(j < 1)
    BY <1>1
  <2>1. DataBefore(1) = {}
    BY <2>3 DEF DataBefore
  <2>2. Tagged(DataWordsOf, DataBefore(1)) = {}
    BY <2>1 DEF Tagged
  <2> QED
    BY <1>5, <2>2, FS_EmptySet
<1>7. \A k : Text!Address(k) \in Nat
  BY <1>1, <1>3, <1>5
<1>8. ASSUME NEW k \in 1..Len(source)
      PROVE  Text!Address(k + 1) = Text!Address(k) + DataLength(k)
  <2>1. CASE k \in Text!Declarations
    <3>4. \A j \in Text!Declarations : (j < k + 1 <=> j < k \/ j = k) /\ ~(k < k)
      BY <1>1
    <3>1. DataBefore(k + 1) = DataBefore(k) \cup {k} /\ DataBefore(k) \cap {k} = {}
      BY <2>1, <3>4 DEF DataBefore
    <3>2. /\ IsFiniteSet(Tagged(DataWordsOf, DataBefore(k)))
          /\ IsFiniteSet(Tagged(DataWordsOf, {k}))
          /\ Cardinality(Tagged(DataWordsOf, {k})) = DataLength(k)
      BY <1>1, <1>2, <1>3, <1>5, TaggedOne
    <3>3. Cardinality(Tagged(DataWordsOf, DataBefore(k) \cup {k})) =
            Cardinality(Tagged(DataWordsOf, DataBefore(k)))
              + Cardinality(Tagged(DataWordsOf, {k}))
      BY <3>1, <3>2, TaggedUnion
    <3> QED
      BY <1>5, <3>1, <3>2, <3>3
  <2>2. CASE k \notin Text!Declarations
    <3>2. \A j \in Text!Declarations : j < k + 1 <=> j < k
      <4>1. \A j \in Text!Declarations : j # k /\ j \in Nat
        BY <1>1, <2>2
      <4> QED
        BY <4>1
    <3>1. DataBefore(k + 1) = DataBefore(k)
      BY <3>2 DEF DataBefore
    <3> QED
      BY <1>5, <1>7, <2>2, <3>1 DEF DataLength
  <2> QED
    BY <2>1, <2>2
<1>9. Text!WordCount(Text!Declarations) = Text!Address(Len(source) + 1)
  <2>2. \A j \in Text!Declarations : j < Len(source) + 1
    BY <1>1
  <2>1. DataBefore(Len(source) + 1) = Text!Declarations
    BY <2>2 DEF DataBefore
  <2> QED
    BY <1>4, <1>5, <2>1
<1> QED
  BY <1>2, <1>6, <1>7, <1>8, <1>9

\* No two declarations have one name.
LEMMA NamesOnce ==
  ASSUME source \in Seq(Lines), Text!WellFormed, NEW j \in Text!Declarations,
         NEW k \in Text!Declarations, source[j].name = source[k].name
  PROVE  j = k
<1> DEFINE D == Text!Declarations
           N == Text!DataNames
           f == [i \in D |-> source[i].name]
<1>1. IsFiniteSet(D)
  <2>1. D \in SUBSET (1..Len(source)) /\ Len(source) \in Int
    BY Lineparts, SameText
  <2>2. IsFiniteSet(1..Len(source))
    BY <2>1, FS_Interval
  <2> QED
    BY <2>1, <2>2, FS_Subset
<1>2. Cardinality(N) = Cardinality(D)
  BY SameCardinality DEF Text!WellFormed
<1>3. N = {source[i].name : i \in D}
  BY DEF Text!DataNames
<1> HIDE DEF D, N
<1>4. f \in Surjection(D, N)
  BY <1>3 DEF Surjection
<1> HIDE DEF f
<1>5. f \in Injection(D, N)
  BY <1>1, <1>2, <1>4, FS_Surjection
<1>6. \A a, b \in D : f[a] = f[b] => a = b
  BY <1>5 DEF Injection, IsInjective
<1>7. f[j] = f[k] /\ j \in D /\ k \in D
  BY DEF D, f
<1> QED
  BY <1>6, <1>7

----------------------------------------------------------------------------
(* What the passes know of the lines before line n.                         *)

\* A text that stays the same means the same.
LEMMA SameRules ==
  ASSUME UNCHANGED source
  PROVE  /\ \A k : Owner(k)' = Owner(k)
         /\ \A k : Before(k)' = Before(k)
         /\ \A k : DataLength(k)' = DataLength(k)
         /\ \A k : Text!Address(k)' = Text!Address(k)
         /\ \A token : Text!ValueOf(token)' = Text!ValueOf(token)
         /\ \A sub : Text!BodyOf(sub)' = Text!BodyOf(sub)
         /\ \A sub, n : Text!LinesAt(sub, n)' = Text!LinesAt(sub, n)
         /\ \A sub : Text!NamedIn(sub)' = Text!NamedIn(sub)
         /\ Text!Declarations' = Text!Declarations
         /\ Text!Subroutines' = Text!Subroutines
         /\ Text!WellFormed' = Text!WellFormed
<1>1. \A k : Owner(k)' = Owner(k)
  BY DEF Owner
<1>2. \A k : Before(k)' = Before(k)
  BY DEF Before, CodeBefore, ArgWords
<1>3. \A sub : Text!BodyOf(sub)' = Text!BodyOf(sub)
  BY DEF Text!BodyOf, Text!SubroutineAt
<1>4. \A k : Text!Address(k)' = Text!Address(k)
  BY DEF Text!Address, Text!Declarations, Text!WordCount, Text!SubroutineAt
<1>5. \A token : Text!ValueOf(token)' = Text!ValueOf(token)
  BY DEF Text!ValueOf, Text!DataNames, Text!Address, Text!Declarations, Text!WordCount,
         Text!SubroutineAt
<1>6. \A sub, n : Text!LinesAt(sub, n)' = Text!LinesAt(sub, n)
  BY DEF Text!LinesAt, Text!WordsAhead, Text!BodyOf, Text!SubroutineAt
<1>7. \A sub : Text!NamedIn(sub)' = Text!NamedIn(sub)
  BY DEF Text!NamedIn, Text!BodyOf, Text!SubroutineAt
<1>8. Text!WellFormed' = Text!WellFormed
  BY DEF Text!WellFormed, Text!Subroutines, Text!BodyOf, Text!SubroutineAt, Text!LinesAt,
         Text!WordsAhead, Text!Declarations, Text!DataNames, Text!WordCount
<1>9. Text!Declarations' = Text!Declarations /\ Text!Subroutines' = Text!Subroutines
  BY DEF Text!Declarations, Text!SubroutineAt, Text!Subroutines
<1>10. \A k : DataLength(k)' = DataLength(k)
  BY DEF DataLength, Text!Declarations, Text!SubroutineAt
<1> QED
  BY <1>1, <1>2, <1>3, <1>4, <1>5, <1>6, <1>7, <1>8, <1>9, <1>10

\* Line h begins a subroutine.
Heads(h) == h \in DOMAIN source /\ IsHeader(source[h]) /\ source[h].name \notin DataSections

DataMapped(n) ==
  /\ Len(ramData) = Text!Address(n)
  /\ \A k \in Text!Declarations : k < n =>
       \A i \in 1..DataLength(k) :
         /\ Text!Address(k) + i \in 1..Len(ramData)
         /\ ramData[Text!Address(k) + i].val = Text!WordsIn(source[k])[i]

NamesMapped(n) ==
  /\ \A h : Heads(h) /\ h < n =>
       /\ source[h].name \in DOMAIN starts \cap DOMAIN symbols
       /\ starts[source[h].name] = Before(h) /\ symbols[source[h].name] = Before(h)
       /\ source[h].name = "_global" => globalStart = Before(h)
  /\ \A x \in DOMAIN symbols :
       \/ x \in Text!Subroutines
       \/ \E k \in Text!Declarations :
            k < n /\ source[k].name = x /\ symbols[x] = Text!Address(k)

\* The line a jump goes to
TargetLine(k) ==
  LET token == source[k].args[1]
  IN  Text!FirstOf(IF source[k].op = "CALL" THEN Text!BodyOf(token)
                   ELSE Text!LinesAt(Owner(k), Numerals[token]))

\* The words of a line of code are in their place.
Laid(k) ==
  LET line == source[k]
      p == Before(k) + 1
  IN  /\ program[p].line = k /\ program[p].op = line.op /\ line.op \in Mnemonics
      /\ line.op \in Jumps => program[p + 1].val = Before(TargetLine(k))
      /\ line.op = "PUSH" => program[p + 1].val = Text!ValueOf(line.args[1])
      /\ line.op = "ISTORE_L" =>
           line.args[1] \in DOMAIN Numerals /\ program[p + 1].val = Numerals[line.args[1]]

LaidOut(n) ==
  /\ Len(program) = Before(n)
  /\ \A k \in CodeLines(source) : k < n => Laid(k)

FirstRead ==
  /\ at = 1 => section = NoName
  /\ at > 1 => section = IF Owner(at - 1) \in DataSections THEN Owner(at - 1) ELSE "code"
  /\ counter = Before(at) /\ program = <<>>
  /\ DataMapped(at) /\ NamesMapped(at)

SecondRead ==
  /\ at = 1 => section = NoName
  /\ at > 1 => section = Owner(at - 1)
  /\ DataMapped(Len(source) + 1) /\ NamesMapped(Len(source) + 1)
  /\ LaidOut(at)

Finished ==
  /\ DataMapped(Len(source) + 1) /\ NamesMapped(Len(source) + 1)
  /\ LaidOut(Len(source) + 1)
  /\ \A h : Heads(h) => source[h].name \in DOMAIN locals
  /\ \A k \in CodeLines(source) : source[k].op \in LocalOps => NamesLocal(Before(k) + 1)

\* Every name in a subroutine's locals is one its code names.
OnlyNamed ==
  \A sub \in DOMAIN locals : \A i \in DOMAIN locals[sub] : locals[sub][i] \in Text!NamedIn(sub)

TextInv ==
  Text!WellFormed =>
    /\ OnlyNamed
    /\ pass = 1 => FirstRead
    /\ pass = 2 => SecondRead
    /\ pass \in 3..6 \/ (pass = 0 /\ file # Leftover) => Finished

\* The section in which a line stands
LEMMA SectionOf ==
  ASSUME source \in Seq(Lines), Text!WellFormed, NEW k \in 1..Len(source)
  PROVE  /\ IsHeader(source[k]) => Owner(k) = source[k].name
         /\ ~IsHeader(source[k]) => k > 1 /\ Owner(k) = Owner(k - 1)
         /\ k \in CodeLines(source) <=> ~IsHeader(source[k]) /\ Owner(k) \notin DataSections
         /\ k \in Text!Declarations <=> source[k].kind = "data" /\ Owner(k) \in DataSections
         /\ IsHeader(source[k]) => k \notin CodeLines(source) /\ k \notin Text!Declarations
         /\ \A h : Heads(h) => source[h].name \in Text!Subroutines /\ h \in 1..Len(source)
<1>1. k \in DOMAIN source /\ DOMAIN source = 1..Len(source) /\ k \in Nat /\ Len(source) \in Nat
  BY Lineparts
<1>2. IsHeader(source[k]) => Owner(k) = source[k].name
  <2> SUFFICES ASSUME IsHeader(source[k]) PROVE HeaderOf(source, k) = k
    BY DEF Owner
  <2>1. k \in 1..k /\ \A j \in (k + 1)..k : ~IsHeader(source[j])
    BY <1>1
  <2> QED
    BY <1>1, <2>1, HeaderIs
<1>3. ~IsHeader(source[k]) => k > 1 /\ Owner(k) = Owner(k - 1)
  <2> SUFFICES ASSUME ~IsHeader(source[k])
               PROVE  k > 1 /\ HeaderOf(source, k) = HeaderOf(source, k - 1)
    BY DEF Owner
  <2>1. k > 1
    BY <1>1, TextRules
  <2>2. k - 1 \in 1..k /\ 1 \in 1..(k - 1) /\ \A i \in ((k - 1) + 1)..k : ~IsHeader(source[i])
    BY <1>1, <2>1
  <2>3. IsHeader(source[1])
    BY TextRules
  <2> QED
    BY <1>1, <2>1, <2>2, <2>3, SameHeader
<1>4. k \in CodeLines(source) <=> ~IsHeader(source[k]) /\ Owner(k) \notin DataSections
  BY <1>1 DEF CodeLines, Owner
<1>5. k \in Text!Declarations <=> source[k].kind = "data" /\ Owner(k) \in DataSections
  BY <1>1, SameText
<1>6. IsHeader(source[k]) => k \notin CodeLines(source) /\ k \notin Text!Declarations
  BY <1>4, <1>5 DEF IsHeader
<1>7. \A h : Heads(h) => source[h].name \in Text!Subroutines /\ h \in 1..Len(source)
  BY <1>1, SameText DEF Heads
<1> QED
  BY <1>2, <1>3, <1>4, <1>5, <1>6, <1>7

\* Before the first line nothing is mapped, as the text wants it.
LEMMA TextInit == Init => TextInv
<1> SUFFICES ASSUME Init, Text!WellFormed
             PROVE  OnlyNamed /\ pass = 1 /\ FirstRead
  BY DEF Init, TextInv
<1>1. AsmInv /\ source \in Seq(Lines)
  BY AsmInit DEF AsmInv, Typed
<1>2. at = 1 /\ section = NoName /\ counter = 0 /\ program = <<>> /\ ramData = <<>> /\ pass = 1
  BY DEF Init
<1>3. DOMAIN symbols = {} /\ DOMAIN starts = {} /\ DOMAIN locals = {}
  BY DEF Init, NoEntries
<1>4. Before(1) = 0 /\ Text!Address(1) = 0
  BY <1>1, BeforeNext, DataCounted
<1>5. \A k : k \in Text!Declarations \/ Heads(k) => ~(k < 1)
  BY <1>1, Lineparts, SameText DEF Heads
<1>6. DataMapped(1) /\ NamesMapped(1)
  BY <1>2, <1>3, <1>4, <1>5 DEF DataMapped, NamesMapped
<1> QED
  BY <1>2, <1>3, <1>4, <1>6 DEF FirstRead, OnlyNamed

\* Nothing the passes have mapped is touched.
LEMMA MappedStill ==
  ASSUME UNCHANGED <<source, ramData, symbols, starts, globalStart>>
  PROVE  \A n : /\ DataMapped(n)' = DataMapped(n)
                /\ NamesMapped(n)' = NamesMapped(n)
<1>1. \A n : DataMapped(n)' = DataMapped(n)
  BY SameRules DEF DataMapped
<1>2. \A h : Heads(h)' = Heads(h)
  BY DEF Heads
<1>3. \A n : NamesMapped(n)' = NamesMapped(n)
  BY <1>2, SameRules DEF NamesMapped
<1> QED
  BY <1>1, <1>3

\* A line that is no declaration, or one without words, adds nothing to the data ...
LEMMA NoData ==
  ASSUME source \in Seq(Lines), Text!WellFormed, NEW k \in 1..Len(source), UNCHANGED source,
         UNCHANGED ramData, DataMapped(k), DataLength(k) = 0
  PROVE  DataMapped(k + 1)'
<1>1. Text!Address(k + 1) = Text!Address(k)
  BY DataCounted
<1>2. \A j \in Text!Declarations : j < k + 1 => j < k \/ j = k
  BY Lineparts, SameText
<1>3. 1..DataLength(k) = {}
  OBVIOUS
<1>4. DataMapped(k + 1)
  BY <1>1, <1>2, <1>3 DEF DataMapped
<1> QED
  BY <1>4, SameRules DEF DataMapped

\* ... and names nothing.
LEMMA NoNames ==
  ASSUME source \in Seq(Lines), Text!WellFormed, NEW k \in 1..Len(source), UNCHANGED source,
         UNCHANGED <<symbols, starts, globalStart>>, NamesMapped(k), ~Heads(k)
  PROVE  NamesMapped(k + 1)'
<1>1. \A h : Heads(h) /\ h < k + 1 => h < k
  BY Lineparts DEF Heads
<1>2. \A j \in Text!Declarations : j < k => j < k + 1
  BY Lineparts, SameText
<1>3. NamesMapped(k + 1)
  BY <1>1, <1>2 DEF NamesMapped
<1>4. \A h : Heads(h)' = Heads(h)
  BY DEF Heads
<1> QED
  BY <1>3, <1>4, SameRules DEF NamesMapped

\* The words of a line are as many in the first pass as in the text.
LEMMA SameLength ==
  ASSUME source \in Seq(Lines), Text!WellFormed, NEW k \in CodeLines(source)
  PROVE  /\ getInstructionWordCount(source[k]) = Length(k)
         /\ Len(source[k].args) = Fetches(source[k].op) /\ Fetches(source[k].op) \in 0..2
         /\ source[k].op \in OptionalOperand => source[k].args = <<>>
<1>1. Len(source[k].args) = Fetches(source[k].op) /\ source[k].args \in Seq(STRING)
  BY LineRules
<1>2. Fetches(source[k].op) \in 0..2
  BY DEF Fetches
<1>3. source[k].op \in OptionalOperand => Fetches(source[k].op) = 0
  BY DEF Fetches, OptionalOperand, StoresImmediate, StoresLocal, Pushes, Jumps, UsesLocal
<1>4. source[k].op \in OptionalOperand => source[k].args = <<>>
  BY <1>1, <1>3, EmptySeq
<1>5. getInstructionWordCount(source[k]) = 1 + Fetches(source[k].op)
  BY <1>4 DEF getInstructionWordCount, Fetches
<1> QED
  BY <1>1, <1>2, <1>4, <1>5 DEF Length

\* The first pass over a header, ...
LEMMA HeaderRead ==
  ASSUME AsmInv, Text!WellFormed, FirstRead, MapSection
  PROVE  FirstRead'
<1>0. PICK k : k = at
  OBVIOUS
<1>1. source \in Seq(Lines) /\ at \in 1..Len(source) /\ Len(source) \in Nat
  BY LineThere DEF AsmInv, Typed, MapSection
<1>2. IsHeader(source[at]) /\ at' = at + 1 /\ UNCHANGED <<source, program, ramData, counter>>
  BY DEF MapSection, Line
<1>3. at \notin CodeLines(source) /\ at \notin Text!Declarations /\ Owner(at) = source[at].name
  BY <1>1, <1>2, SectionOf
<1>4. at' > 1 /\ at' - 1 = at
  BY <1>1, <1>2
<1>5. section' = IF Owner(at) \in DataSections THEN Owner(at) ELSE "code"
  BY <1>3 DEF MapSection, Line
<1>6. section' = IF Owner(at - 1)' \in DataSections THEN Owner(at - 1)' ELSE "code"
  BY <1>2, <1>4, <1>5, SameRules
<1>7. counter' = Before(at)'
  <2>1. Before(at + 1) = Before(at) + 0 /\ Before(at) \in Nat
    BY <1>1, <1>3, BeforeNext, CodeFinite DEF Length
  <2>2. counter' = Before(at + 1)
    BY <1>2, <2>1 DEF FirstRead
  <2> QED
    BY <1>2, <2>2, SameRules
<1>8. DataMapped(k + 1)'
  <2>1. DataMapped(k) /\ DataLength(k) = 0 /\ k \in 1..Len(source) /\ UNCHANGED ramData
    BY <1>0, <1>1, <1>2, <1>3 DEF FirstRead, DataLength
  <2> QED
    BY <1>1, <1>2, <2>1, NoData
<1>9. NamesMapped(k + 1)'
  <2>1. CASE Line.name \in DataSections
    <3>1. ~Heads(k) /\ UNCHANGED <<symbols, starts, globalStart>>
      BY <1>0, <2>1 DEF Heads, Line, MapSection
    <3> QED
      <4>1. NamesMapped(k) /\ k \in 1..Len(source)
        BY <1>0, <1>1 DEF FirstRead
      <4> QED
        BY <1>1, <1>2, <3>1, <4>1, NoNames
  <2>2. CASE Line.name \notin DataSections
    <3> DEFINE name == source[k].name
    <3>1. /\ starts' = Put(starts, name, counter) /\ symbols' = Put(symbols, name, counter)
          /\ globalStart' = IF name = "_global" THEN counter ELSE globalStart
      BY <1>0, <2>2 DEF MapSection, Line
    <3>2. counter = Before(k) /\ NamesMapped(k)
      BY <1>0 DEF FirstRead
    <3>3. Heads(k) /\ name \in Text!Subroutines
      BY <1>0, <1>1, <1>2, <2>2, Lineparts, SectionOf DEF Heads, Line
    <3>4. \A h : Heads(h) /\ h < k + 1 /\ h # k => h < k /\ source[h].name # name
      <4>1. \A h : Heads(h) => h \in 1..Len(source) /\ IsHeader(source[h])
                               /\ source[h].name \notin DataSections
        BY Lineparts, <1>1 DEF Heads
      <4>2. k \in 1..Len(source) /\ IsHeader(source[k]) /\ name \notin DataSections
        BY <1>0, <1>1, <1>2, <2>2 DEF Line
      <4> SUFFICES ASSUME NEW h, Heads(h), h < k + 1, h # k
                   PROVE  h < k /\ source[h].name # name
        OBVIOUS
      <4>3. h \in 1..Len(source) /\ IsHeader(source[h])
        BY <4>1
      <4>4. source[h].name # name
        BY <1>1, <4>2, <4>3, TextRules
      <4> QED
        BY <1>1, <4>2, <4>3, <4>4
    <3>5. ASSUME NEW h, Heads(h), h < k + 1
          PROVE  /\ source[h].name \in DOMAIN starts' \cap DOMAIN symbols'
                 /\ starts'[source[h].name] = Before(h) /\ symbols'[source[h].name] = Before(h)
                 /\ source[h].name = "_global" => globalStart' = Before(h)
      <4>1. CASE h = k
        BY <3>1, <3>2, <4>1 DEF Put
      <4>2. CASE h # k
        <5>1. h < k /\ source[h].name # name
          BY <3>4, <3>5, <4>2
        <5>2. /\ source[h].name \in DOMAIN starts \cap DOMAIN symbols
              /\ starts[source[h].name] = Before(h) /\ symbols[source[h].name] = Before(h)
              /\ source[h].name = "_global" => globalStart = Before(h)
          BY <3>2, <3>5, <5>1 DEF NamesMapped
        <5> QED
          BY <3>1, <5>1, <5>2 DEF Put
      <4> QED
        BY <4>1, <4>2
    <3>6. ASSUME NEW x \in DOMAIN symbols'
          PROVE  \/ x \in Text!Subroutines
                 \/ \E j \in Text!Declarations :
                      j < k + 1 /\ source[j].name = x /\ symbols'[x] = Text!Address(j)
      <4>1. CASE x = name
        BY <3>3, <4>1
      <4>2. CASE x # name
        <5>1. x \in DOMAIN symbols /\ symbols'[x] = symbols[x]
          BY <3>1, <4>2 DEF Put
        <5>2. \A j \in Text!Declarations : j < k => j < k + 1
          BY <1>0, <1>1, Lineparts, SameText
        <5> QED
          BY <3>2, <5>1, <5>2 DEF NamesMapped
      <4> QED
        BY <4>1, <4>2
    <3>7. \A h : Heads(h)' = Heads(h)
      BY <1>2 DEF Heads
    <3> QED
      BY <1>2, <3>5, <3>6, <3>7, SameRules DEF NamesMapped
  <2> QED
    BY <2>1, <2>2
<1>10. program' = <<>>
  BY <1>2 DEF FirstRead
<1>11. at' = k + 1
  BY <1>0, <1>2
<1> QED
  BY <1>4, <1>6, <1>7, <1>8, <1>9, <1>10, <1>11 DEF FirstRead

\* The words of a declaration are those of the text.
LEMMA SameWords ==
  ASSUME NEW line \in Lines, line.kind = "data"
  PROVE  /\ DataWords(line) \in Seq(Data)
         /\ Len(DataWords(line)) = Len(Text!WordsIn(line))
         /\ \A i \in 1..Len(Text!WordsIn(line)) : DataWords(line)[i].val = Text!WordsIn(line)[i]
<1> DEFINE elements == Text!WordsIn(line)
           state == IF section = "_const_data" THEN WORD_CONSTANT ELSE WORD_OPEN
<1>1. Len(elements) \in Nat /\ DOMAIN elements = 1..Len(elements)
  <2>1. line.values \in Seq(Int)
    BY DEF Lines
  <2> QED
    BY <2>1, WordsInSeq
<1>2. DataWords(line) \in Seq(Data)
  BY DataWordsTyped DEF IsHeader
<1>3. DataWords(line) = [i \in DOMAIN elements |-> [val |-> elements[i], word_state |-> state]]
  BY DEF DataWords, Elements, Text!WordsIn
<1> HIDE DEF elements, state
<1>4. DOMAIN DataWords(line) = 1..Len(DataWords(line)) /\ Len(DataWords(line)) \in Nat
  BY <1>2, LenProperties
<1>5. DOMAIN DataWords(line) = 1..Len(elements)
  BY <1>1, <1>3
<1>6. Len(DataWords(line)) = Len(elements)
  <2>1. ASSUME NEW a \in Nat, NEW b \in Nat, 1..a = 1..b PROVE a <= b
    <3>1. a = 0 \/ a \in 1..a
      OBVIOUS
    <3>2. a = 0 \/ a \in 1..b
      BY <2>1, <3>1
    <3> QED
      BY <3>2
  <2>2. Len(DataWords(line)) <= Len(elements) /\ Len(elements) <= Len(DataWords(line))
    BY <1>1, <1>4, <1>5, <2>1
  <2>3. \A a, b \in Nat : a <= b /\ b <= a => a = b
    OBVIOUS
  <2> QED
    BY <1>1, <1>4, <2>2, <2>3, Zenon
<1>7. \A i \in 1..Len(elements) : DataWords(line)[i].val = elements[i]
  BY <1>1, <1>3
<1> QED
  BY <1>2, <1>6, <1>7 DEF elements

\* ... over a line of a data section, ...
LEMMA DataRead ==
  ASSUME AsmInv, Text!WellFormed, FirstRead, MapData
  PROVE  FirstRead'
<1>0. PICK k : k = at
  OBVIOUS
<1>1. source \in Seq(Lines) /\ k \in 1..Len(source) /\ Len(source) \in Nat /\ ramData \in Seq(Data)
  BY <1>0, LineThere DEF AsmInv, Typed, MapData
<1>2. /\ ~IsHeader(source[k]) /\ at' = k + 1 /\ section \in DataSections
      /\ UNCHANGED <<source, program, counter, section, starts, globalStart>>
  BY <1>0 DEF MapData, Line
<1>3. k > 1 /\ section = Owner(k)
  <2>1. k > 1 /\ Owner(k) = Owner(k - 1)
    BY <1>1, <1>2, SectionOf
  <2>2. section = IF Owner(k - 1) \in DataSections THEN Owner(k - 1) ELSE "code"
    BY <1>0, <2>1 DEF FirstRead
  <2> QED
    BY <1>2, <2>1, <2>2 DEF DataSections
<1>4. k \notin CodeLines(source) /\ (k \in Text!Declarations <=> source[k].kind = "data")
  BY <1>1, <1>2, <1>3, SectionOf
<1>5. at' > 1 /\ at' - 1 = k
  BY <1>1, <1>2
<1>6. section' = IF Owner(at - 1)' \in DataSections THEN Owner(at - 1)' ELSE "code"
  BY <1>2, <1>3, <1>5, SameRules
<1>7. counter' = Before(at)'
  <2>1. Before(k + 1) = Before(k) + 0 /\ Before(k) \in Nat
    BY <1>1, <1>4, BeforeNext, CodeFinite DEF Length
  <2>2. counter' = Before(k + 1)
    BY <1>0, <1>2, <2>1 DEF FirstRead
  <2> QED
    BY <1>2, <2>2, SameRules
<1>8. ~Heads(k) /\ DataMapped(k) /\ NamesMapped(k)
  BY <1>0, <1>2 DEF Heads, FirstRead
<1>9. DataMapped(k + 1)' /\ NamesMapped(k + 1)'
  <2>1. CASE source[k].kind = "data" /\ DataWords(source[k]) # <<>>
    <3> DEFINE name == source[k].name
               words == DataWords(source[k])
    <3>1. /\ symbols' = PutIfAbsent(symbols, name, Len(ramData))
          /\ ramData' = ramData \o words
      BY <1>0, <2>1 DEF MapData, Line, DeclaredName
    <3>2. k \in Text!Declarations /\ source[k].values \in Seq(Int) /\ name \in Text!DataNames
      BY <1>1, <1>4, <2>1, Lineparts DEF Text!DataNames
    <3>3. /\ words \in Seq(Data) /\ Len(words) = DataLength(k) /\ DataLength(k) \in Nat
          /\ \A i \in 1..DataLength(k) : words[i].val = Text!WordsIn(source[k])[i]
      BY <1>1, <2>1, <3>2, ElementOfSeq, SameWords, WordsInSeq DEF DataLength
    <3> HIDE DEF words
    <3>4. /\ Len(ramData) \in Nat /\ Len(ramData') = Len(ramData) + DataLength(k)
          /\ \A i \in 1..Len(ramData) : ramData'[i] = ramData[i]
          /\ \A i \in 1..DataLength(k) : ramData'[Len(ramData) + i] = words[i]
      <4>1. IsSeq(ramData) /\ IsSeq(words)
        BY <1>1, <3>3, SeqOfItsOwn
      <4> QED
        BY <3>1, <3>3, <4>1, Concatenated
    <3>5. Len(ramData) = Text!Address(k) /\ Text!Address(k + 1) = Text!Address(k) + DataLength(k)
      BY <1>1, <1>8, DataCounted DEF DataMapped
    <3>6. DataMapped(k + 1)'
      <4>1. ASSUME NEW j \in Text!Declarations, j < k + 1, NEW i \in 1..DataLength(j)
            PROVE  /\ Text!Address(j) + i \in 1..Len(ramData')
                   /\ ramData'[Text!Address(j) + i].val = Text!WordsIn(source[j])[i]
        <5>1. CASE j = k
          <6>1. i \in 1..DataLength(k)
            BY <5>1
          <6>2. Text!Address(j) + i \in 1..Len(ramData')
            BY <3>3, <3>4, <3>5, <5>1, <6>1
          <6> QED
            BY <3>3, <3>4, <3>5, <5>1, <6>1, <6>2
        <5>2. CASE j # k
          <6>1. j < k
            BY <1>1, <4>1, <5>2, Lineparts, SameText
          <6>2. /\ Text!Address(j) + i \in 1..Len(ramData)
                /\ ramData[Text!Address(j) + i].val = Text!WordsIn(source[j])[i]
            BY <1>8, <4>1, <6>1 DEF DataMapped
          <6> QED
            BY <3>3, <3>4, <6>2
        <5> QED
          BY <5>1, <5>2
      <4>2. Len(ramData') = Text!Address(k + 1)
        BY <3>4, <3>5
      <4> QED
        BY <1>2, <4>1, <4>2, SameRules DEF DataMapped
    <3>7. name \notin Text!Subroutines
      BY <3>2 DEF Text!WellFormed
    <3>8. name \notin DOMAIN symbols
      <4> SUFFICES ASSUME name \in DOMAIN symbols PROVE FALSE
        OBVIOUS
      <4>1. PICK j \in Text!Declarations : j < k /\ source[j].name = name
        BY <1>8, <3>7 DEF NamesMapped
      <4>2. j = k
        BY <1>1, <3>2, <4>1, NamesOnce
      <4> QED
        BY <1>1, <4>1, <4>2
    <3>9. symbols' = Put(symbols, name, Text!Address(k))
      BY <3>1, <3>5, <3>8 DEF PutIfAbsent
    <3>10. NamesMapped(k + 1)'
      <4>1. ASSUME NEW h, Heads(h), h < k + 1
            PROVE  /\ source[h].name \in DOMAIN starts' \cap DOMAIN symbols'
                   /\ starts'[source[h].name] = Before(h) /\ symbols'[source[h].name] = Before(h)
                   /\ source[h].name = "_global" => globalStart' = Before(h)
        <5>1. h < k
          BY <1>1, <1>8, <4>1, Lineparts DEF Heads
        <5>2. source[h].name # name
          BY <1>1, <3>7, <4>1, SectionOf
        <5>3. /\ source[h].name \in DOMAIN starts \cap DOMAIN symbols
              /\ starts[source[h].name] = Before(h) /\ symbols[source[h].name] = Before(h)
              /\ source[h].name = "_global" => globalStart = Before(h)
          BY <1>8, <4>1, <5>1 DEF NamesMapped
        <5> QED
          BY <1>2, <3>9, <5>2, <5>3 DEF Put
      <4>2. ASSUME NEW x \in DOMAIN symbols'
            PROVE  \/ x \in Text!Subroutines
                   \/ \E j \in Text!Declarations :
                        j < k + 1 /\ source[j].name = x /\ symbols'[x] = Text!Address(j)
        <5>1. CASE x = name
          <6>1. k < k + 1 /\ symbols'[x] = Text!Address(k)
            BY <1>1, <3>9, <5>1 DEF Put
          <6> QED
            BY <3>2, <5>1, <6>1
        <5>2. CASE x # name
          <6>1. x \in DOMAIN symbols /\ symbols'[x] = symbols[x]
            BY <3>9, <5>2 DEF Put
          <6>2. \A j \in Text!Declarations : j < k => j < k + 1
            BY <1>1, Lineparts, SameText
          <6> QED
            BY <1>8, <6>1, <6>2 DEF NamesMapped
        <5> QED
          BY <5>1, <5>2
      <4>3. \A h : Heads(h)' = Heads(h)
        BY <1>2 DEF Heads
      <4> QED
        BY <1>2, <4>1, <4>2, <4>3, SameRules DEF NamesMapped
    <3> QED
      BY <3>6, <3>10
  <2>2. CASE ~(source[k].kind = "data" /\ DataWords(source[k]) # <<>>)
    <3>0. DataWords(source[k]) = <<>>
      <4>1. CASE source[k].kind = "data"
        BY <2>2, <4>1
      <4>2. CASE source[k].kind # "data"
        <5>1. source[k] \in Lines
          BY <1>1, ElementOfSeq
        <5>2. source[k].kind = "code" /\ source[k].args \in Seq(STRING)
          BY <1>2, <4>2, <5>1 DEF Lines, IsHeader
        <5>3. Len(source[k].args) <= 2 /\ Len(source[k].args) \in Nat
          <6>1. \A j \in DOMAIN source \ CodeLines(source) :
                  source[j].kind = "code" => Len(source[j].args) <= 2
            BY SameText DEF Text!WellFormed
          <6>2. k \in DOMAIN source \ CodeLines(source)
            BY <1>1, <1>4, LenProperties
          <6> QED
            BY <5>2, <6>1, <6>2, LenProperties
        <5>4. ~(Len(source[k].args) > 2)
          BY <5>3
        <5>5. Elements(source[k]) = <<>>
          BY <5>2, <5>4 DEF Elements
        <5> QED
          BY <5>5 DEF DataWords
      <4> QED
        BY <4>1, <4>2
    <3>1. UNCHANGED <<symbols, ramData>>
      BY <1>0, <3>0 DEF MapData, Line
    <3>2. DataLength(k) = 0
      <4>1. CASE source[k].kind # "data"
        BY <1>4, <4>1 DEF DataLength
      <4>2. CASE source[k].kind = "data"
        <5>1. source[k] \in Lines
          BY <1>1, ElementOfSeq
        <5>2. Len(Text!WordsIn(source[k])) = Len(DataWords(source[k]))
          BY <4>2, <5>1, SameWords
        <5>3. Len(<<>>) = 0
          OBVIOUS
        <5> QED
          BY <3>0, <5>2, <5>3 DEF DataLength
      <4> QED
        BY <4>1, <4>2
    <3>3. DataMapped(k + 1)'
      BY <1>1, <1>2, <1>8, <3>1, <3>2, NoData
    <3>4. NamesMapped(k + 1)'
      BY <1>1, <1>2, <1>8, <3>1, NoNames
    <3> QED
      BY <3>3, <3>4
  <2> QED
    BY <2>1, <2>2
<1>10. program' = <<>>
  BY <1>2 DEF FirstRead
<1> QED
  BY <1>2, <1>5, <1>6, <1>7, <1>9, <1>10 DEF FirstRead

\* ... and over a line of code.
LEMMA CodeRead ==
  ASSUME AsmInv, Text!WellFormed, FirstRead, MapCode
  PROVE  FirstRead'
<1>0. PICK k : k = at
  OBVIOUS
<1>1. source \in Seq(Lines) /\ k \in 1..Len(source) /\ Len(source) \in Nat
  BY <1>0, LineThere DEF AsmInv, Typed, MapCode
<1>2. /\ ~IsHeader(source[k]) /\ at' = k + 1 /\ section \notin DataSections
      /\ UNCHANGED <<source, program, section, starts, globalStart, symbols, ramData>>
      /\ counter' = IF section = "code" THEN counter + getInstructionWordCount(source[k]) ELSE counter
  BY <1>0 DEF MapCode, Line, addresses
<1>3. k > 1 /\ section = "code" /\ Owner(k) \notin DataSections
  <2>1. k > 1 /\ Owner(k) = Owner(k - 1)
    BY <1>1, <1>2, SectionOf
  <2>2. section = IF Owner(k - 1) \in DataSections THEN Owner(k - 1) ELSE "code"
    BY <1>0, <2>1 DEF FirstRead
  <2> QED
    BY <1>2, <2>1, <2>2
<1>4. k \in CodeLines(source) /\ k \notin Text!Declarations
  BY <1>1, <1>2, <1>3, SectionOf
<1>5. at' > 1 /\ at' - 1 = k
  BY <1>1, <1>2
<1>6. section' = IF Owner(at - 1)' \in DataSections THEN Owner(at - 1)' ELSE "code"
  BY <1>2, <1>3, <1>5, SameRules
<1>7. counter' = Before(at)'
  <2>1. Before(k + 1) = Before(k) + Length(k)
    BY <1>1, BeforeNext
  <2>2. counter' = Before(k + 1)
    BY <1>0, <1>1, <1>2, <1>3, <1>4, <2>1, SameLength DEF FirstRead
  <2> QED
    BY <1>2, <2>2, SameRules
<1>8. ~Heads(k) /\ DataMapped(k) /\ NamesMapped(k) /\ DataLength(k) = 0
  BY <1>0, <1>2, <1>4 DEF Heads, FirstRead, DataLength
<1>9. DataMapped(k + 1)'
  BY <1>1, <1>2, <1>8, NoData
<1>10. NamesMapped(k + 1)'
  BY <1>1, <1>2, <1>8, NoNames
<1>11. program' = <<>>
  BY <1>2 DEF FirstRead
<1> QED
  BY <1>2, <1>5, <1>6, <1>7, <1>9, <1>10, <1>11 DEF FirstRead

\* At the end of the first pass all names are mapped, and the second finds them so.
LEMMA MapRead ==
  ASSUME AsmInv, Text!WellFormed, FirstRead, EndOfMap
  PROVE  SecondRead'
<1>1. source \in Seq(Lines) /\ at = Len(source) + 1 /\ Len(source) \in Nat
  <2>1. source \in Seq(Lines) /\ at \in 1..(Len(source) + 1) /\ ~(at <= Len(source))
    BY DEF AsmInv, Typed, TypeOK, EndOfMap
  <2> QED
    BY <2>1, Lineparts
<1>2. at' = 1 /\ section' = NoName
      /\ UNCHANGED <<source, ramData, symbols, starts, globalStart, program>>
  BY DEF EndOfMap, addresses
<1>3. DataMapped(Len(source) + 1) /\ NamesMapped(Len(source) + 1)
  BY <1>1 DEF FirstRead
<1>4. DataMapped(Len(source) + 1)' /\ NamesMapped(Len(source) + 1)'
  BY <1>2, <1>3, MappedStill
<1>5. LaidOut(at)'
  <2>1. program' = <<>> /\ Before(1) = 0
    BY <1>1, <1>2, BeforeNext DEF FirstRead
  <2>2. \A k \in CodeLines(source) : ~(k < 1)
    BY <1>1, Lineparts DEF CodeLines
  <2> QED
    BY <1>2, <2>1, <2>2, SameRules DEF LaidOut
<1> QED
  BY <1>2, <1>4, <1>5 DEF SecondRead

\* A line that stands where it did does so among more words.
LEMMA LaidStill ==
  ASSUME UNCHANGED source, source \in Seq(Lines), Text!WellFormed, NEW n \in Nat, LaidOut(n),
         \A p \in 1..Len(program) : program'[p] = program[p]
  PROVE  \A k \in CodeLines(source) : k < n => Laid(k)'
<1> SUFFICES ASSUME NEW k \in CodeLines(source), k < n PROVE Laid(k)'
  OBVIOUS
<1>1. Laid(k)
  BY DEF LaidOut
<1>2. /\ Before(k) \in Nat /\ Len(source[k].args) \in Nat
      /\ Len(program) \in Nat /\ Before(k) + 1 + Len(source[k].args) <= Len(program)
  BY BeforeApart DEF LaidOut
<1>3. program'[Before(k) + 1] = program[Before(k) + 1]
  <2>1. Before(k) + 1 \in 1..Len(program)
    BY <1>2
  <2> QED
    BY <2>1
<1>4. TargetLine(k)' = TargetLine(k)
  BY SameRules DEF TargetLine
<1>5. Len(source[k].args) = Fetches(source[k].op)
  BY LineRules
<1>6. source[k].op \in Jumps \cup {"PUSH", "ISTORE_L"} => Fetches(source[k].op) >= 1
  BY DEF Fetches, Pushes, Jumps, StoresLocal
<1>7. source[k].op \in Jumps \cup {"PUSH", "ISTORE_L"} =>
        program'[Before(k) + 1 + 1] = program[Before(k) + 1 + 1]
  <2> SUFFICES ASSUME source[k].op \in Jumps \cup {"PUSH", "ISTORE_L"}
               PROVE  Before(k) + 1 + 1 \in 1..Len(program)
    OBVIOUS
  <2> QED
    BY <1>2, <1>5, <1>6
<1>8. Before(k)' = Before(k) /\ Before(TargetLine(k))' = Before(TargetLine(k))
      /\ \A token : Text!ValueOf(token)' = Text!ValueOf(token)
  BY <1>4, SameRules
<1> QED
  BY <1>1, <1>3, <1>7, <1>8 DEF Laid

\* The operand of an instruction, in the words of the text
LEMMA OperandMeant ==
  ASSUME AsmInv, LocalInv, Text!WellFormed, SecondRead, EmitCode, NEW k, k = at
  PROVE  /\ k \in CodeLines(source) /\ source[k] = Line
         /\ WordsOf(Line) = 1 + Len(Line.args)
         /\ Line.op \in Mnemonics
         /\ Line.op \in Jumps => OperandWord(Line, 1) = Before(TargetLine(k))
         /\ Line.op = "PUSH" => OperandWord(Line, 1) = Text!ValueOf(Line.args[1])
         /\ Line.op = "ISTORE_L" =>
              Line.args[1] \in DOMAIN Numerals /\ OperandWord(Line, 1) = Numerals[Line.args[1]]
<1>1. source \in Seq(Lines) /\ k \in 1..Len(source) /\ Len(source) \in Nat /\ source[k] = Line
  BY LineThere DEF AsmInv, Typed, EmitCode, Line
<1>2. /\ pass = 2 /\ ~IsHeader(source[k]) /\ section \notin DataSections /\ ~Malformed(Line)
  BY <1>1 DEF EmitCode, Reading
<1>3. k > 1 /\ section = Owner(k) /\ Owner(k) \notin DataSections
  <2>1. k > 1 /\ Owner(k) = Owner(k - 1)
    BY <1>1, <1>2, SectionOf
  <2>2. section = Owner(k - 1)
    BY <2>1 DEF SecondRead
  <2> QED
    BY <1>2, <2>1, <2>2
<1>4. k \in CodeLines(source)
  BY <1>1, <1>2, <1>3, SectionOf
<1> DEFINE h == HeaderOf(source, k)
<1>5. h \in 1..k /\ Heads(h) /\ h < Len(source) + 1 /\ source[h].name = Owner(k)
  <2>1. h \in 1..k /\ IsHeader(source[h])
    BY <1>1, TextRules
  <2> QED
    BY <1>1, <1>3, <2>1, Lineparts DEF Heads, Owner
<1>6. current = Owner(k) /\ current # NoName
  <2>1. current = section
    BY <1>2 DEF LocalInv, UnderHeader
  <2>2. source[h].name # NoName
    BY <1>1, <1>5, Lineparts DEF Heads
  <2> QED
    BY <1>3, <1>5, <2>1, <2>2
<1>7. NamesMapped(Len(source) + 1)
  BY DEF SecondRead
<1>8. starts[current] = Before(h)
  BY <1>5, <1>6, <1>7 DEF NamesMapped
<1> HIDE DEF h
<1>9. \A x \in DOMAIN symbols : x \in Text!Subroutines \cup Text!DataNames
  BY <1>7 DEF NamesMapped, Text!DataNames
<1>10. \A x \in DOMAIN Numerals : x \notin DOMAIN symbols /\ x \notin Text!DataNames
  BY <1>9 DEF Text!WellFormed
<1>11. /\ Line.args \in Seq(STRING) /\ Len(Line.args) = Fetches(Line.op) /\ Fetches(Line.op) \in 0..2
       /\ Line.op \in OptionalOperand => Line.args = <<>>
  BY <1>1, <1>4, SameLength, LineRules
<1>12. WordsOf(Line) = 1 + Len(Line.args)
  BY <1>2, <1>11, FetchesAll
<1>13. Line.op \in Mnemonics
  BY <1>2 DEF Malformed
<1>14. Fetches(Line.op) >= 1 =>
         /\ 1 \in DOMAIN OperandTokens(Line) /\ OperandTokens(Line)[1] = Line.args[1]
  <2>1. /\ Len(OperandTokens(Line)) \in Nat
        /\ DOMAIN OperandTokens(Line) = 1..Len(OperandTokens(Line))
        /\ \A i \in 1..Len(OperandTokens(Line)) : OperandTokens(Line)[i] = Line.args[i]
    BY <1>11, OperandsTaken
  <2>2. Len(OperandTokens(Line)) = Len(Line.args)
    BY <1>11, <1>12, <2>1 DEF WordsOf
  <2> QED
    BY <1>11, <2>1, <2>2
<1> DEFINE token == Line.args[1]
<1>15. ASSUME Line.op \in Jumps PROVE OperandWord(Line, 1) = Before(TargetLine(k))
  <2>1. Fetches(Line.op) >= 1
    BY <1>15 DEF Fetches
  <2>2. OperandWord(Line, 1) = resolveJumpTarget(token)
    BY <1>14, <1>15, <2>1 DEF OperandWord
  <2>3. CASE Line.op = "CALL"
    <3>1. token \in Text!Subroutines
      BY <1>1, <1>4, <2>3, LineRules
    <3>2. PICK g \in DOMAIN source : IsHeader(source[g]) /\ source[g].name = token
      BY <3>1, SameText
    <3>3. Heads(g) /\ g < Len(source) + 1 /\ g \in 1..Len(source)
      BY <1>1, <3>1, <3>2, Lineparts, SameText DEF Heads
    <3>4. token \in DOMAIN symbols /\ symbols[token] = Before(g)
      BY <1>7, <3>2, <3>3 DEF NamesMapped
    <3>5. Before(Text!FirstOf(Text!BodyOf(token))) = Before(g)
      BY <1>1, <3>1, <3>2, <3>3, BodyStart
    <3>6. TargetLine(k) = Text!FirstOf(Text!BodyOf(token))
      BY <1>1, <2>3 DEF TargetLine
    <3> QED
      BY <2>2, <3>4, <3>5, <3>6 DEF resolveJumpTarget
  <2>4. CASE Line.op # "CALL"
    <3> DEFINE lines == Text!LinesAt(Owner(k), Numerals[token])
    <3>1. token \in DOMAIN Numerals /\ lines # {}
      BY <1>1, <1>4, <1>15, <2>4, LineRules
    <3>2. Numerals[token] \in Int
      BY <3>1, AssemblerAssumption
    <3>3. \A j \in lines : j \in CodeLines(source) /\ Before(j) = Before(h) + Numerals[token]
      BY <1>1, <1>4, <3>2, JumpLines DEF h
    <3>4. Text!FirstOf(lines) \in lines
      <4>1. lines \in SUBSET Nat
        BY <1>1, <3>3, Lineparts DEF CodeLines
      <4> HIDE DEF lines
      <4> QED
        BY <3>1, <4>1, FirstIs
    <3>5. TargetLine(k) = Text!FirstOf(lines)
      BY <1>1, <2>4 DEF TargetLine
    <3>6. resolveJumpTarget(token) = Before(h) + Numerals[token]
      BY <1>6, <1>8, <1>10, <3>1 DEF resolveJumpTarget
    <3> QED
      BY <2>2, <3>3, <3>4, <3>5, <3>6
  <2> QED
    BY <2>3, <2>4
<1>16. ASSUME Line.op = "PUSH" PROVE OperandWord(Line, 1) = Text!ValueOf(token)
  <2>1. Fetches(Line.op) >= 1
    BY <1>16 DEF Fetches, Pushes
  <2>2. ~UsesLocals(Line) /\ ~TakesNumber(Line) /\ Line.op \notin Jumps
    BY <1>16 DEF UsesLocals, TakesNumber, StoresLocal, StoresImmediate, UsesLocal, Jumps
  <2>3. OperandWord(Line, 1) = resolveVal(token) /\ Known(token)
    BY <1>2, <1>14, <2>1, <2>2 DEF OperandWord, Malformed
  <2>4. token \in Text!DataNames \cup DOMAIN Numerals
    BY <1>1, <1>4, <1>16, LineRules
  <2>5. CASE token \in Text!DataNames
    <3>1. token \in DOMAIN symbols /\ token \notin Text!Subroutines
      BY <1>10, <2>3, <2>5 DEF Known, Text!WellFormed
    <3>2. PICK j \in Text!Declarations : source[j].name = token /\ symbols[token] = Text!Address(j)
      BY <1>7, <3>1 DEF NamesMapped
    <3> DEFINE i == CHOOSE i \in Text!Declarations : source[i].name = token
    <3>3. i \in Text!Declarations /\ source[i].name = token
      BY <3>2
    <3>4. i = j
      BY <1>1, <3>2, <3>3, NamesOnce
    <3>5. Text!ValueOf(token) = Text!Address(i)
      BY <2>5 DEF Text!ValueOf
    <3> QED
      BY <2>3, <3>1, <3>2, <3>4, <3>5 DEF resolveVal
  <2>6. CASE token \notin Text!DataNames
    BY <1>10, <2>3, <2>4, <2>6 DEF resolveVal, Text!ValueOf
  <2> QED
    BY <2>5, <2>6
<1>17. ASSUME Line.op = "ISTORE_L"
       PROVE  token \in DOMAIN Numerals /\ OperandWord(Line, 1) = Numerals[token]
  <2>1. Fetches(Line.op) >= 1 /\ TakesNumber(Line) /\ Line.op \notin Jumps
    BY <1>17 DEF Fetches, StoresLocal, TakesNumber, Jumps
  <2> QED
    BY <1>2, <1>14, <2>1 DEF OperandWord, Malformed
<1> QED
  BY <1>1, <1>4, <1>12, <1>13, <1>15, <1>16, <1>17

\* The second pass over one line
LEMMA SecondReadStep ==
  ASSUME AsmInv, LocalInv, Text!WellFormed, SecondRead, EmitSection \/ EmitNothing \/ EmitCode
  PROVE  SecondRead'
<1>0. PICK k : k = at
  OBVIOUS
<1>1. /\ source \in Seq(Lines) /\ k \in 1..Len(source) /\ Len(source) \in Nat /\ Line = source[k]
      /\ UNCHANGED <<source, ramData, symbols, starts, globalStart>> /\ at' = k + 1
  <2>1. /\ Reading(2) /\ at' = at + 1
        /\ UNCHANGED <<source, ramData, symbols, starts, globalStart>>
    BY DEF EmitSection, EmitNothing, EmitCode, addresses
  <2> QED
    BY <1>0, <2>1, LineThere DEF AsmInv, Typed, Line
<1>2. DataMapped(Len(source) + 1)' /\ NamesMapped(Len(source) + 1)'
  BY <1>1, MappedStill DEF SecondRead
<1>3. at' > 1 /\ at' - 1 = k
  BY <1>1
<1>4. section' = Owner(k)
  <2>1. CASE EmitSection
    <3>1. IsHeader(source[k]) /\ section' = source[k].name
      BY <1>1, <2>1 DEF EmitSection
    <3> QED
      BY <1>1, <3>1, SectionOf
  <2>2. CASE EmitNothing \/ EmitCode
    <3>1. ~IsHeader(source[k]) /\ section' = section
      BY <1>1, <2>2 DEF EmitNothing, EmitCode
    <3>2. k > 1 /\ Owner(k) = Owner(k - 1)
      BY <1>1, <3>1, SectionOf
    <3> QED
      BY <1>0, <3>1, <3>2 DEF SecondRead
  <2> QED
    BY <2>1, <2>2
<1>5. section' = Owner(at - 1)'
  BY <1>1, <1>3, <1>4, SameRules
<1>6. LaidOut(k) /\ \A j \in CodeLines(source) : j < k + 1 => j < k \/ j = k
  BY <1>0, <1>1, Lineparts DEF SecondRead, CodeLines
<1>7. LaidOut(k + 1)'
  <2>1. CASE EmitSection \/ EmitNothing
    <3>1. k \notin CodeLines(source)
      <4>1. CASE IsHeader(source[k])
        BY <1>1, <4>1, SectionOf
      <4>2. CASE ~IsHeader(source[k])
        <5>1. section' \in DataSections
          BY <1>1, <2>1, <4>2 DEF EmitSection, EmitNothing
        <5> QED
          BY <1>1, <1>4, <5>1, SectionOf
      <4> QED
        BY <4>1, <4>2
    <3>2. UNCHANGED program
      BY <2>1 DEF EmitSection, EmitNothing
    <3>3. Before(k + 1) = Before(k)
      <4>1. Before(k + 1) = Before(k) + 0 /\ Before(k) \in Nat
        BY <1>1, <3>1, BeforeNext, CodeFinite DEF Length
      <4> QED
        BY <4>1
    <3>4. \A j \in CodeLines(source) : j < k => Laid(j)'
      <4>1. k \in Nat
        BY <1>1
      <4> QED
        BY <1>1, <1>6, <3>2, <4>1, LaidStill
    <3>5. Len(program') = Before(k + 1)
      BY <1>6, <3>2, <3>3 DEF LaidOut
    <3>6. \A j \in CodeLines(source) : j < k + 1 => Laid(j)'
      BY <1>6, <3>1, <3>4
    <3> QED
      BY <1>1, <3>5, <3>6, SameRules DEF LaidOut
  <2>2. CASE EmitCode
    <3> DEFINE p == Before(k) + 1
    <3>1. /\ k \in CodeLines(source) /\ WordsOf(Line) = 1 + Len(Line.args)
          /\ Line.op \in Mnemonics
          /\ Line.op \in Jumps => OperandWord(Line, 1) = Before(TargetLine(k))
          /\ Line.op = "PUSH" => OperandWord(Line, 1) = Text!ValueOf(Line.args[1])
          /\ Line.op = "ISTORE_L" =>
               Line.args[1] \in DOMAIN Numerals /\ OperandWord(Line, 1) = Numerals[Line.args[1]]
      BY <1>0, <2>2, OperandMeant
    <3>2. /\ Len(program') = Len(program) + WordsOf(Line) /\ Len(program) \in Nat
          /\ \A q \in 1..Len(program) : program'[q] = program[q]
          /\ \A q \in (Len(program) + 1)..(Len(program) + WordsOf(Line)) : program'[q].line = at
          /\ program'[Len(program) + 1].op = Line.op
          /\ \A i \in 1..(WordsOf(Line) - 1) :
               program'[Len(program) + 1 + i].val = OperandWord(Line, i)
          /\ WordsOf(Line) \in Nat \ {0}
      BY <2>2, EmitCodeStep DEF AsmInv
    <3>3. Len(program) = Before(k) /\ Before(k) \in Nat
      BY <1>6, <3>2 DEF LaidOut
    <3>4. Before(k + 1) = Before(k) + WordsOf(Line)
      BY <1>1, <3>1, BeforeNext DEF Length
    <3>5. program'[p].line = k /\ program'[p].op = source[k].op
      <4>1. p \in (Len(program) + 1)..(Len(program) + WordsOf(Line))
        BY <3>2, <3>3
      <4>2. p = Len(program) + 1
        BY <3>3
      <4> QED
        BY <1>0, <1>1, <3>2, <4>1, <4>2
    <3>6. Line.op \in Jumps \cup {"PUSH", "ISTORE_L"} => program'[p + 1].val = OperandWord(Line, 1)
      <4> SUFFICES ASSUME Line.op \in Jumps \cup {"PUSH", "ISTORE_L"}
                   PROVE  program'[p + 1].val = OperandWord(Line, 1)
        OBVIOUS
      <4>1. Len(Line.args) = Fetches(Line.op)
        BY <1>1, <3>1, LineRules
      <4>2. Fetches(Line.op) >= 1
        BY DEF Fetches, Pushes, Jumps, StoresLocal
      <4>3. 1 \in 1..(WordsOf(Line) - 1) /\ p + 1 = Len(program) + 1 + 1
        BY <3>1, <3>2, <3>3, <4>1, <4>2
      <4> QED
        BY <3>2, <4>3
    <3>7. TargetLine(k)' = TargetLine(k)
      BY <1>1, SameRules DEF TargetLine
    <3>8. Laid(k)'
      <4>1. Before(k)' = Before(k) /\ Before(TargetLine(k))' = Before(TargetLine(k))
            /\ \A token : Text!ValueOf(token)' = Text!ValueOf(token)
        BY <1>1, <3>7, SameRules
      <4> HIDE DEF p
      <4> QED
        BY <1>1, <3>1, <3>5, <3>6, <4>1 DEF Laid, p
    <3>9. \A j \in CodeLines(source) : j < k => Laid(j)'
      <4>1. k \in Nat
        BY <1>1
      <4> QED
        BY <1>1, <1>6, <3>2, <4>1, LaidStill
    <3>10. Len(program') = Before(k + 1)
      BY <3>2, <3>3, <3>4
    <3>11. \A j \in CodeLines(source) : j < k + 1 => Laid(j)'
      BY <1>6, <3>8, <3>9
    <3> QED
      BY <1>1, <3>10, <3>11, SameRules DEF LaidOut
  <2> QED
    BY <2>1, <2>2
<1> QED
  BY <1>1, <1>2, <1>3, <1>5, <1>7 DEF SecondRead

\* A local enters the list of its subroutine with an instruction that names it.
LEMMA NamedStep ==
  ASSUME AsmInv, LocalInv, Text!WellFormed, pass = 2 => SecondRead, OnlyNamed, [Next]_vars
  PROVE  OnlyNamed'
<1>1. UNCHANGED source
  BY DEF Next, vars, MapSection, MapData, MapFails, MapCode, EndOfMap, EmitSection,
         EmitNothing,
         EmitCode, EmitFails, OpenOutput, WriteHeader, WriteProgram, WriteData, CloseOutput,
         WriteFails, Writes
<1>2. CASE UNCHANGED locals
  BY <1>1, <1>2, SameRules DEF OnlyNamed
<1>3. CASE MapSection
  <2>1. CASE Line.name \in DataSections
    BY <1>2, <1>3, <2>1 DEF MapSection
  <2>2. CASE Line.name \notin DataSections
    <3>1. locals' = Put(locals, Line.name, <<>>)
      BY <1>3, <2>2 DEF MapSection
    <3>2. ASSUME NEW sub \in DOMAIN locals', NEW i \in DOMAIN locals'[sub]
          PROVE  locals'[sub][i] \in Text!NamedIn(sub)
      <4>1. CASE sub = Line.name
        <5>1. locals'[sub] = <<>>
          BY <3>1, <3>2, <4>1 DEF Put
        <5>2. DOMAIN <<>> = {}
          OBVIOUS
        <5> QED
          BY <3>2, <5>1, <5>2
      <4>2. CASE sub # Line.name
        BY <3>1, <3>2, <4>2 DEF Put, OnlyNamed
      <4> QED
        BY <4>1, <4>2
    <3> QED
      BY <1>1, <3>2, SameRules DEF OnlyNamed
  <2> QED
    BY <2>1, <2>2
<1>4. CASE EmitCode
  <2>1. CASE ~UsesLocals(Line)
    BY <1>2, <1>4, <2>1 DEF EmitCode
  <2>2. CASE UsesLocals(Line)
    <3> DEFINE name == LocalToken(Line)
    <3>1. locals' = getOrCreateLocal(name)
      BY <1>4, <2>2 DEF EmitCode
    <3>2. PICK k : k = at
      OBVIOUS
    <3>3. k \in CodeLines(source) /\ source[k] = Line
      BY <1>4, <3>2, OperandMeant DEF EmitCode, Reading
    <3>4. Owner(k) = current /\ current \in DOMAIN locals
      <4>1. section \notin DataSections /\ ~IsHeader(source[k]) /\ pass = 2
        BY <1>4, <3>3 DEF EmitCode, Reading
      <4>2. current = section
        BY <4>1 DEF LocalInv, UnderHeader
      <4>3. source \in Seq(Lines) /\ k \in 1..Len(source)
        BY <3>2, <1>4, LineThere DEF AsmInv, Typed, EmitCode
      <4>4. k > 1 /\ Owner(k) = Owner(k - 1)
        BY <4>1, <4>3, SectionOf
      <4>5. Owner(k) = section
        BY <3>2, <4>1, <4>4 DEF SecondRead
      <4> QED
        BY <1>4, <2>2, <4>2, <4>5, UseNamed
    <3>5. name \in Text!NamedIn(current)
      BY <2>2, <3>3, <3>4, SameText DEF Text!NamedIn
    <3> HIDE DEF name
    <3>6. ASSUME NEW sub \in DOMAIN locals', NEW i \in DOMAIN locals'[sub]
          PROVE  locals'[sub][i] \in Text!NamedIn(sub)
      <4>1. CASE HasLocal(name)
        <5>1. locals' = locals
          BY <3>1, <4>1 DEF getOrCreateLocal
        <5> QED
          BY <3>6, <5>1 DEF OnlyNamed
      <4>2. CASE ~HasLocal(name)
        <5>1. locals' = [locals EXCEPT ![current] = Append(@, name)]
          BY <3>1, <4>2 DEF getOrCreateLocal
        <5>2. CASE sub # current
          BY <3>6, <5>1, <5>2 DEF OnlyNamed
        <5>3. CASE sub = current
          <6> DEFINE old == locals[current]
          <6>1. locals'[sub] = Append(old, name)
            BY <3>4, <5>1, <5>3
          <6>2. IsSeq(old)
            BY <3>4 DEF LocalInv, Distinct
          <6>3. \A j \in DOMAIN old : old[j] \in Text!NamedIn(current)
            BY <3>4 DEF OnlyNamed
          <6> HIDE DEF old
          <6>4. /\ Len(old) \in Nat /\ DOMAIN old = 1..Len(old)
                /\ old \in Seq(Text!NamedIn(current))
            <7>1. /\ old \in Seq({old[j] : j \in DOMAIN old})
              BY <6>2 DEF IsSeq
            <7>2. Len(old) \in Nat /\ DOMAIN old = 1..Len(old)
              BY <7>1, LenProperties
            <7>3. old \in [1..Len(old) -> Text!NamedIn(current)]
              BY <6>3, <7>1, <7>2
            <7> QED
              BY <7>2, <7>3, FunctionIsSeq
          <6>5. Append(old, name) \in Seq(Text!NamedIn(current))
            BY <3>5, <6>4, AppendProperties
          <6>6. \A j \in DOMAIN Append(old, name) : Append(old, name)[j] \in Text!NamedIn(current)
            BY <6>5, ElementOfSeq, LenProperties
          <6> QED
            BY <3>6, <5>3, <6>1, <6>6
        <5> QED
          BY <5>2, <5>3
      <4> QED
        BY <4>1, <4>2
    <3> QED
      BY <1>1, <3>6, SameRules DEF OnlyNamed
  <2> QED
    BY <2>1, <2>2
<1> QED
  BY <1>2, <1>3, <1>4
     DEF Next, vars, MapData, MapFails, MapCode, EndOfMap, EmitSection, EmitNothing,
         EmitFails, OpenOutput, WriteHeader, WriteProgram, WriteData, CloseOutput,
         WriteFails, Writes, addresses

\* What has been finished stays.
LEMMA FinishedStill ==
  ASSUME source \in Seq(Lines), Text!WellFormed, Finished,
         UNCHANGED <<source, ramData, symbols, starts, globalStart, locals, program>>
  PROVE  Finished'
<1>1. DataMapped(Len(source) + 1)' /\ NamesMapped(Len(source) + 1)'
  BY MappedStill DEF Finished
<1>2. LaidOut(Len(source) + 1)'
  <2>1. PICK n : n = Len(source) + 1
    OBVIOUS
  <2>2. n \in Nat /\ LaidOut(n)
    BY <2>1, Lineparts DEF Finished
  <2>3. \A k \in CodeLines(source) : k < n => Laid(k)'
    BY <2>2, LaidStill
  <2>4. LaidOut(n)'
    BY <2>2, <2>3, SameRules DEF LaidOut
  <2> QED
    BY <2>1, <2>4
<1>3. \A h : Heads(h)' = Heads(h)
  BY DEF Heads
<1>4. \A p : NamesLocal(p)' = NamesLocal(p)
  BY DEF NamesLocal
<1>5. \A k \in CodeLines(source) : source[k].op \in LocalOps => NamesLocal(Before(k) + 1)'
  BY <1>4, SameRules DEF Finished
<1> QED
  BY <1>1, <1>2, <1>3, <1>5 DEF Finished

\* With the last line all words are there.
LEMMA ReadFinished ==
  ASSUME AsmInv, LocalInv, Text!WellFormed, SecondRead, pass = 2, at > Len(source)
  PROVE  Finished
<1>1. source \in Seq(Lines) /\ at = Len(source) + 1 /\ Len(source) \in Nat
  <2>1. source \in Seq(Lines) /\ at \in 1..(Len(source) + 1)
    BY DEF AsmInv, Typed, TypeOK
  <2> QED
    BY <2>1, Lineparts
<1>2. LaidOut(Len(source) + 1)
  BY <1>1 DEF SecondRead
<1>3. \A h : Heads(h) => source[h].name \in DOMAIN locals
  BY DEF LocalInv, HeadersKnown, Heads
<1>4. ASSUME NEW k \in CodeLines(source), source[k].op \in LocalOps
      PROVE  NamesLocal(Before(k) + 1)
  <2>1. k < Len(source) + 1
    BY <1>1, Lineparts DEF CodeLines
  <2>2. program[Before(k) + 1].op = source[k].op
    BY <1>2, <2>1 DEF LaidOut, Laid
  <2>3. Before(k) + 1 \in DOMAIN program
    <3>1. /\ Before(k) \in Nat /\ Len(source[k].args) \in Nat /\ Before(Len(source) + 1) \in Nat
          /\ Before(k) + 1 + Len(source[k].args) <= Before(Len(source) + 1)
      BY <1>1, <2>1, BeforeApart
    <3>2. DOMAIN program = 1..Len(program)
      BY LenProperties DEF AsmInv, Typed, IsSeq
    <3> QED
      BY <1>2, <3>1, <3>2 DEF LaidOut
  <2> QED
    BY <1>4, <2>2, <2>3 DEF LocalInv
<1> QED
  BY <1>2, <1>3, <1>4 DEF SecondRead, Finished

\* Every step of the assembler keeps its state what the text says.
LEMMA TextStep == AsmInv /\ LocalInv /\ TextInv /\ [Next]_vars => TextInv'
<1> SUFFICES ASSUME AsmInv, LocalInv, TextInv, [Next]_vars, Text!WellFormed'
             PROVE  /\ OnlyNamed'
                    /\ pass' = 1 => FirstRead'
                    /\ pass' = 2 => SecondRead'
                    /\ pass' \in 3..6 \/ (pass' = 0 /\ file' # Leftover) => Finished'
  BY DEF TextInv
<1>1. UNCHANGED source
  BY DEF Next, vars, MapSection, MapData, MapFails, MapCode, EndOfMap, EmitSection,
         EmitNothing,
         EmitCode, EmitFails, OpenOutput, WriteHeader, WriteProgram, WriteData, CloseOutput,
         WriteFails, Writes
<1>2. source \in Seq(Lines) /\ Text!WellFormed
  BY <1>1, SameRules DEF AsmInv, Typed
<1>3. /\ OnlyNamed
      /\ pass = 1 => FirstRead
      /\ pass = 2 => SecondRead
      /\ pass \in 3..6 \/ (pass = 0 /\ file # Leftover) => Finished
  BY <1>2 DEF TextInv
<1>4. OnlyNamed'
  BY <1>2, <1>3, NamedStep
<1>5. CASE MapSection \/ MapData \/ MapCode
  <2>1. pass = 1 /\ pass' = 1
    BY <1>5 DEF MapSection, MapData, MapCode, Reading
  <2>2. FirstRead'
    BY <1>2, <1>3, <1>5, <2>1, HeaderRead, DataRead, CodeRead
  <2> QED
    BY <1>4, <2>1, <2>2
<1>6. CASE MapFails \/ EmitFails
  <2>1. pass \in {1, 2} /\ pass' = 0 /\ file' = file
    BY <1>6 DEF MapFails, EmitFails, Reading
  <2>2. file' = Leftover
    BY <2>1 DEF AsmInv, FileInv
  <2> QED
    BY <1>4, <2>1, <2>2
<1>7. CASE EndOfMap
  <2>1. pass = 1 /\ pass' \in {0, 2} /\ file' = file
    BY <1>7 DEF EndOfMap
  <2>2. file' = Leftover
    BY <2>1 DEF AsmInv, FileInv
  <2>3. SecondRead'
    BY <1>2, <1>3, <1>7, <2>1, MapRead
  <2> QED
    BY <1>4, <2>1, <2>2, <2>3
<1>8. CASE EmitSection \/ EmitNothing \/ EmitCode
  <2>1. pass = 2 /\ pass' = 2
    BY <1>8 DEF EmitSection, EmitNothing, EmitCode, Reading
  <2>2. SecondRead'
    BY <1>2, <1>3, <1>8, <2>1, SecondReadStep
  <2> QED
    BY <1>4, <2>1, <2>2
<1>9. CASE OpenOutput \/ WriteHeader \/ WriteProgram \/ WriteData \/ CloseOutput \/ WriteFails
  <2>1. UNCHANGED <<source, ramData, symbols, starts, globalStart, locals, program>>
    BY <1>9
       DEF OpenOutput, WriteHeader, WriteProgram, WriteData, CloseOutput, WriteFails,
           Writes,
                addresses
  <2>2. pass' \in 3..6 \cup {0} /\ pass \in 2..5
    BY <1>9
       DEF OpenOutput, WriteHeader, WriteProgram, WriteData, CloseOutput, WriteFails, Writes
  <2>3. pass = 2 => at > Len(source)
    BY <1>9
       DEF OpenOutput, WriteHeader, WriteProgram, WriteData, CloseOutput, WriteFails, Writes
  <2>4. Finished
    BY <1>2, <1>3, <2>2, <2>3, ReadFinished
  <2>5. Finished'
    BY <1>2, <2>1, <2>4, FinishedStill
  <2> QED
    BY <1>4, <2>2, <2>5
<1>10. CASE UNCHANGED vars
  <2>1. UNCHANGED <<source, ramData, symbols, starts, globalStart, locals, program, pass, at,
                    section, counter, current, file>>
    BY <1>10 DEF vars, addresses
  <2>2. pass = 1 => FirstRead'
    BY <1>3, <2>1, MappedStill, SameRules DEF FirstRead
  <2>3. pass = 2 => SecondRead'
    <3> SUFFICES ASSUME pass = 2 PROVE SecondRead'
      OBVIOUS
    <3>1. DataMapped(Len(source) + 1)' /\ NamesMapped(Len(source) + 1)'
      BY <1>3, <2>1, MappedStill DEF SecondRead
    <3>2. PICK n : n = at
      OBVIOUS
    <3>3. LaidOut(n) /\ n \in Nat
      BY <1>3, <3>2 DEF SecondRead, AsmInv, Typed, TypeOK
    <3>4. \A k \in CodeLines(source) : k < n => Laid(k)'
      BY <1>2, <2>1, <3>3, LaidStill
    <3>5. LaidOut(n)'
      BY <2>1, <3>3, <3>4, SameRules DEF LaidOut
    <3> QED
      BY <1>3, <2>1, <3>1, <3>2, <3>5, SameRules DEF SecondRead
  <2>4. Finished => Finished'
    BY <1>2, <2>1, FinishedStill
  <2> QED
    BY <1>3, <1>4, <2>1, <2>2, <2>3, <2>4
<1> QED
  BY <1>5, <1>6, <1>7, <1>8, <1>9, <1>10 DEF Next

----------------------------------------------------------------------------
(* Where the execution is in the text.                                      *)

\* What one frame holds, by the names of the subroutine's locals
LocalsOf(sub, held) ==
  LET named == locals[sub]
      kept == {o \in DOMAIN named : o - 1 \in Offsets /\ held[o - 1] # {}}
  IN  [name \in {named[o] : o \in kept} |->
         CHOOSE word \in Words : word \in held[OffsetOf(named, name)]]

\* The locals named in the first n activations, which stand on these lines
NamesOn(lines) == [i \in DOMAIN lines |-> Text!NamedIn(Owner(lines[i]))]
Room(lines, n) == Cardinality(Tagged(NamesOn(lines), 1..n))

\* The frames stand on these lines: all but the last on the CALL they will return
\* behind.
Path(lines) ==
  /\ lines \in [1..(sfp + 1) -> CodeLines(source)]
  /\ pc = Before(lines[sfp + 1])
  /\ \A i \in 1..sfp :
       source[lines[i]].op = "CALL" /\ call_stack[i - 1] = Before(lines[i]) + 2
  /\ \A i \in 1..(sfp + 1) :
       /\ stack_frame[i - 1].start <= Room(lines, i - 1)
       /\ stack_frame[i - 1].count <= Cardinality(Text!NamedIn(Owner(lines[i])))

PathInv ==
  /\ machine \notin {"executing", "wild"} => stack = <<>>
  /\ Running /\ Text!WellFormed => \E lines : Path(lines)

\* The binary that is executed is that of the text.
LEMMA Loaded ==
  ASSUME MachineInv, TextInv, machine \in {"loaded", "executing"}, Fresh, Text!WellFormed
  PROVE  /\ source \in Seq(Lines) /\ Finished /\ OnlyNamed
         /\ code = program /\ ram = ramData /\ file.header[1] = globalStart
         /\ Len(code) \in Nat /\ DOMAIN code = 1..Len(code) /\ Len(code) < WORD_MOD
         /\ \A x \in Nat : x < WORD_MOD => x % WORD_MOD = x
<1>1. source \in Seq(Lines) /\ pass \in {0, 6}
  BY DEF MachineInv, RunInv, AsmInv, Typed
<1>2. code = program /\ ram = ramData /\ file.header[1] = globalStart
  BY DEF MachineInv, RunInv, RunsWholeBinary, Fresh
<1>3. Finished /\ OnlyNamed
  BY <1>1 DEF TextInv, Fresh
<1>4. Len(code) \in Nat /\ DOMAIN code = 1..Len(code) /\ Len(code) < WORD_MOD
  <2>1. Len(code) \in Nat /\ DOMAIN code = 1..Len(code) /\ Len(code) <= VM_PROGRAM_MEM
    BY LenProperties DEF MachineInv, IsSeq
  <2> QED
    BY <2>1, MachineAssumption, AssemblerAssumption
<1>5. \A x \in Nat : x < WORD_MOD => x % WORD_MOD = x
  BY FrameSizes, SMTT(30)
<1> QED
  BY <1>1, <1>2, <1>3, <1>4, <1>5

\* A line of code and its words
LEMMA LineInCode ==
  ASSUME MachineInv, TextInv, machine \in {"loaded", "executing"}, Fresh, Text!WellFormed,
         NEW k \in CodeLines(source)
  PROVE  LET p == Before(k) + 1
             op == source[k].op
         IN  /\ Before(k) \in Nat /\ Before(k) % WORD_MOD = Before(k)
             /\ Before(k) + 1 + Fetches(op) <= Len(code)
             /\ LineOf(Before(k)) = k
             /\ code[p].op = op /\ op \in Mnemonics
             /\ op \in Jumps => code[p + 1].val = Before(TargetLine(k))
             /\ op = "PUSH" => code[p + 1].val = Text!ValueOf(source[k].args[1])
             /\ op = "ISTORE_L" => code[p + 1].val = Numerals[source[k].args[1]]
             /\ op \in LocalOps => NamesLocal(p)
<1>1. /\ source \in Seq(Lines) /\ Finished /\ code = program /\ Len(code) \in Nat
      /\ Len(code) < WORD_MOD /\ \A x \in Nat : x < WORD_MOD => x % WORD_MOD = x
  BY Loaded
<1>2. k < Len(source) + 1 /\ Len(source) \in Nat
  BY <1>1, Lineparts DEF CodeLines
<1>3. Laid(k) /\ Len(code) = Before(Len(source) + 1)
  BY <1>1, <1>2 DEF Finished, LaidOut
<1>4. /\ Before(k) \in Nat /\ Before(k) + 1 + Len(source[k].args) <= Len(code)
      /\ Len(source[k].args) = Fetches(source[k].op) /\ Len(source[k].args) \in Nat
  <2>1. /\ Before(k) + 1 + Len(source[k].args) <= Before(Len(source) + 1)
        /\ Before(k) \in Nat /\ Len(source[k].args) \in Nat
    BY <1>1, <1>2, BeforeApart
  <2> QED
    BY <1>1, <1>3, <2>1, LineRules
<1>5. LineOf(Before(k)) = k
  <2>1. Before(k) < Len(code)
    BY <1>1, <1>4
  <2>2. code[Before(k) + 1].line = k
    BY <1>1, <1>3 DEF Laid
  <2> QED
    BY <2>1, <2>2 DEF LineOf
<1>6. Before(k) % WORD_MOD = Before(k)
  <2>1. Before(k) < WORD_MOD
    BY <1>1, <1>4, FrameSizes
  <2> QED
    BY <1>1, <1>4, <2>1
<1>7. source[k].op \in LocalOps => NamesLocal(Before(k) + 1)
  BY <1>1 DEF Finished
<1> QED
  BY <1>1, <1>3, <1>4, <1>5, <1>6, <1>7 DEF Laid

\* Where a jump goes there is an instruction of the same subroutine, where a CALL
\* goes the first of another.
LEMMA TargetThere ==
  ASSUME source \in Seq(Lines), Text!WellFormed, NEW k \in CodeLines(source), source[k].op \in Jumps
  PROVE  /\ TargetLine(k) \in CodeLines(source)
         /\ Owner(TargetLine(k)) = IF source[k].op = "CALL" THEN source[k].args[1] ELSE Owner(k)
<1> DEFINE token == source[k].args[1]
<1>1. CASE source[k].op = "CALL"
  <2>1. token \in Text!Subroutines
    BY <1>1, LineRules
  <2>2. TargetLine(k) = Text!FirstOf(Text!BodyOf(token))
    BY <1>1 DEF TargetLine
  <2> QED
    BY <1>1, <2>1, <2>2, BodyStart
<1>2. CASE source[k].op # "CALL"
  <2> DEFINE lines == Text!LinesAt(Owner(k), Numerals[token])
  <2>1. token \in DOMAIN Numerals /\ lines # {}
    BY <1>2, LineRules
  <2>2. Numerals[token] \in Int
    BY <2>1, AssemblerAssumption
  <2>3. \A j \in lines : j \in CodeLines(source) /\ Owner(j) = Owner(k)
    BY <2>2, JumpLines
  <2>4. lines \in SUBSET Nat
    <3>1. \A j \in CodeLines(source) : j \in Nat
      BY Lineparts DEF CodeLines
    <3> QED
      BY <2>3, <3>1
  <2>5. TargetLine(k) = Text!FirstOf(lines)
    BY <1>2 DEF TargetLine
  <2> HIDE DEF lines
  <2>6. Text!FirstOf(lines) \in lines
    BY <2>1, <2>4, FirstIs
  <2> QED
    BY <1>2, <2>3, <2>5, <2>6
<1> QED
  BY <1>1, <1>2

\* What SourceRun sees of the execution
THere == IF Running THEN LineOf(pc) ELSE 0
TActs ==
  IF Running
  THEN [i \in 1..(sfp + 1) |->
          [sub |-> FrameSub(i - 1), locals |-> FrameLocals(i - 1),
           back |-> IF i = 1 THEN 0 ELSE LineOf(call_stack[i - 2])]]
  ELSE <<>>

\* The same, from the lines on which the frames stand
ActOn(lines, i) ==
  [sub |-> Owner(lines[i]), locals |-> LocalsOf(Owner(lines[i]), stored[i - 1]),
   back |-> IF i = 1 THEN 0 ELSE Text!NextLine(lines[i - 1])]
ActsOn(lines) == [i \in 1..(sfp + 1) |-> ActOn(lines, i)]

\* What the execution looks like from the text: the instruction at pc is that of the
\* line, and the frames are the activations.
LEMMA Seen ==
  ASSUME MachineInv, TextInv, Running, Text!WellFormed, NEW lines, Path(lines)
  PROVE  LET k == lines[sfp + 1]
         IN  /\ machine = "executing" /\ Fresh /\ running /\ status = VM!THREAD_ACTIVE
             /\ sfp \in Nat /\ sfp = csp + 1
             /\ \A i \in 1..(sfp + 1) : lines[i] \in CodeLines(source)
             /\ k \in CodeLines(source)
             /\ pc = Before(k) /\ pc < Len(code) /\ Opcode = source[k].op
             /\ pc + 1 + Fetches(Opcode) <= Len(code)
             /\ THere = k /\ TActs = ActsOn(lines)
<1> DEFINE k == lines[sfp + 1]
<1>1. machine = "executing" /\ Fresh /\ running /\ status = VM!THREAD_ACTIVE
  BY DEF Running, Executing
<1>2. VMP!TypeOK /\ VMP!LockStep /\ VM!THREAD_ACTIVE = VMP!THREAD_ACTIVE
  BY DEF MachineInv, VMP!FrameInv, VM!THREAD_ACTIVE, VMP!THREAD_ACTIVE
<1>3. sfp \in Nat /\ sfp = csp + 1
  BY <1>1, <1>2, VMP!FrameThere, FrameSizes DEF VMP!Activations
<1>4. \A i \in 1..(sfp + 1) : lines[i] \in CodeLines(source)
  BY DEF Path
<1>5. k \in CodeLines(source) /\ pc = Before(k)
  <2>1. sfp + 1 \in 1..(sfp + 1)
    BY <1>3
  <2> QED
    BY <1>4, <2>1 DEF Path
<1>6. source \in Seq(Lines) /\ Len(code) \in Nat
  BY <1>1, Loaded
<1>7. /\ pc < Len(code) /\ Opcode = source[k].op /\ pc + 1 + Fetches(Opcode) <= Len(code)
      /\ LineOf(pc) = k
  <2>1. /\ Before(k) \in Nat /\ Before(k) + 1 + Fetches(source[k].op) <= Len(code)
        /\ LineOf(Before(k)) = k /\ code[Before(k) + 1].op = source[k].op
    BY <1>1, <1>5, LineInCode
  <2>2. Fetches(source[k].op) \in Nat
    BY DEF Fetches
  <2> QED
    BY <1>5, <1>6, <2>1, <2>2 DEF Opcode
<1> HIDE DEF k
<1>8. \A i \in 1..sfp : LineOf(call_stack[i - 1] - 2) = lines[i]
                        /\ LineOf(call_stack[i - 1]) = Text!NextLine(lines[i])
  <2> SUFFICES ASSUME NEW i \in 1..sfp
               PROVE  /\ LineOf(call_stack[i - 1] - 2) = lines[i]
                      /\ LineOf(call_stack[i - 1]) = Text!NextLine(lines[i])
    OBVIOUS
  <2> DEFINE c == lines[i]
             next == Text!NextLine(c)
  <2>1. c \in CodeLines(source) /\ source[c].op = "CALL" /\ call_stack[i - 1] = Before(c) + 2
    BY <1>3, <1>4 DEF Path
  <2>2. Before(c) \in Nat /\ LineOf(Before(c)) = c
    BY <1>1, <2>1, LineInCode
  <2>3. Len(source[c].args) = 1
    BY <1>6, <2>1, LineRules DEF Fetches, Jumps, StoresImmediate, StoresLocal
  <2> HIDE DEF c
  <2>4. next \in CodeLines(source) /\ Before(next) = Before(c) + 2
    <3>1. source[c].op \notin {"RET", "HALT", "JUMP"}
      BY <2>1
    <3>2. next \in CodeLines(source) /\ Before(next) = Before(c) + 1 + Len(source[c].args)
      BY <1>6, <2>1, <3>1, LineBehind
    <3> QED
      BY <2>2, <2>3, <3>2
  <2> HIDE DEF next
  <2>5. LineOf(Before(next)) = next
    BY <1>1, <2>4, LineInCode
  <2> QED
    BY <2>1, <2>2, <2>4, <2>5 DEF c, next
<1>9. ASSUME NEW i \in 1..(sfp + 1)
      PROVE  /\ FrameSub(i - 1) = Owner(lines[i])
             /\ FrameLocals(i - 1) = LocalsOf(Owner(lines[i]), stored[i - 1])
             /\ (IF i = 1 THEN 0 ELSE LineOf(call_stack[i - 2]))
                  = (IF i = 1 THEN 0 ELSE Text!NextLine(lines[i - 1]))
  <2>1. FrameLine(i - 1) = lines[i]
    <3>1. CASE i = sfp + 1
      <4>1. i - 1 = sfp
        BY <1>3, <3>1
      <4> QED
        BY <1>7, <3>1, <4>1 DEF FrameLine, k
    <3>2. CASE i # sfp + 1
      <4>1. i \in 1..sfp /\ i - 1 # sfp
        BY <1>3, <3>2
      <4> QED
        BY <1>8, <4>1 DEF FrameLine
    <3> QED
      BY <3>1, <3>2
  <2>2. FrameSub(i - 1) = Owner(lines[i])
    BY <2>1 DEF FrameSub, Owner
  <2>3. FrameLocals(i - 1) = LocalsOf(Owner(lines[i]), stored[i - 1])
    BY <2>2 DEF FrameLocals, LocalsOf
  <2>4. i # 1 => LineOf(call_stack[i - 2]) = Text!NextLine(lines[i - 1])
    <3> SUFFICES ASSUME i # 1 PROVE LineOf(call_stack[i - 2]) = Text!NextLine(lines[i - 1])
      OBVIOUS
    <3>1. i - 1 \in 1..sfp /\ i - 1 - 1 = i - 2
      BY <1>3
    <3>2. LineOf(call_stack[i - 1 - 1]) = Text!NextLine(lines[i - 1])
      BY <1>8, <3>1
    <3> QED
      BY <3>1, <3>2
  <2> QED
    BY <2>2, <2>3, <2>4
<1>10. TActs = ActsOn(lines)
  <2>1. \A i \in 1..(sfp + 1) :
          [sub |-> FrameSub(i - 1), locals |-> FrameLocals(i - 1),
           back |-> IF i = 1 THEN 0 ELSE LineOf(call_stack[i - 2])] = ActOn(lines, i)
    BY <1>9 DEF ActOn
  <2> QED
    BY <2>1 DEF TActs, ActsOn
<1>11. THere = k
  BY <1>7 DEF THere
<1> QED
  BY <1>1, <1>3, <1>4, <1>5, <1>7, <1>10, <1>11 DEF k

\* A subroutine names finitely many locals.
LEMMA NamedFinite ==
  ASSUME source \in Seq(Lines), NEW sub
  PROVE  IsFiniteSet(Text!NamedIn(sub)) /\ Cardinality(Text!NamedIn(sub)) \in Nat
<1> DEFINE S == {j \in Text!BodyOf(sub) : Text!UsesLocals(source[j])}
           T == Text!NamedIn(sub)
           f == [k \in S |-> Text!LocalToken(source[k])]
<1>1. S \in SUBSET (1..Len(source)) /\ Len(source) \in Int
  <2>1. \A k \in S : k \in 1..Len(source)
    BY Lineparts, SameText DEF CodeLines
  <2> QED
    BY <2>1, Lineparts
<1>2. IsFiniteSet(S)
  <2>1. IsFiniteSet(1..Len(source))
    BY <1>1, FS_Interval
  <2> QED
    BY <1>1, <2>1, FS_Subset
<1>3. T = {Text!LocalToken(source[k]) : k \in S}
  BY DEF Text!NamedIn
<1> HIDE DEF S, T
<1>4. f \in Surjection(S, T)
  BY <1>3 DEF Surjection
<1> HIDE DEF f
<1> QED
  BY <1>2, <1>4, FS_Surjection, FS_CardinalityType DEF T

\* The room the first activations need is what each of them needs.
LEMMA RoomAdds ==
  ASSUME source \in Seq(Lines), NEW n \in Nat, NEW lines, DOMAIN lines = 1..n
  PROVE  /\ Room(lines, 0) = 0
         /\ \A i \in 0..n : Room(lines, i) \in Nat
         /\ \A i \in 1..n :
              Room(lines, i) = Room(lines, i - 1) + Cardinality(Text!NamedIn(Owner(lines[i])))
<1> DEFINE w == NamesOn(lines)
<1>1. \A i \in 1..n : w[i] = Text!NamedIn(Owner(lines[i]))
  BY DEF NamesOn
<1> HIDE DEF w
<1>2. \A i \in 1..n : IsFiniteSet(w[i])
  BY <1>1, NamedFinite
<1>3. \A S \in SUBSET (1..n) : IsFiniteSet(Tagged(w, S)) /\ Cardinality(Tagged(w, S)) \in Nat
  BY <1>2, TaggedFinite
<1>4. Room(lines, 0) = 0
  <2>1. 1..0 = {} /\ Tagged(w, {}) = {}
    BY DEF Tagged
  <2> QED
    BY <2>1, FS_EmptySet DEF Room, w
<1>5. \A i \in 0..n : Room(lines, i) \in Nat
  <2> SUFFICES ASSUME NEW i \in 0..n PROVE Room(lines, i) \in Nat
    OBVIOUS
  <2>1. 1..i \in SUBSET (1..n)
    OBVIOUS
  <2> QED
    BY <1>3, <2>1 DEF Room, w
<1>6. ASSUME NEW i \in 1..n
      PROVE  Room(lines, i) = Room(lines, i - 1) + Cardinality(w[i])
  <2>1. 1..i = (1..(i - 1)) \cup {i} /\ (1..(i - 1)) \cap {i} = {}
    OBVIOUS
  <2>2. (1..(i - 1)) \in SUBSET (1..n)
    OBVIOUS
  <2>3. /\ IsFiniteSet(Tagged(w, 1..(i - 1))) /\ IsFiniteSet(Tagged(w, {i}))
        /\ Cardinality(Tagged(w, {i})) = Cardinality(w[i])
    BY <1>2, <1>3, <2>2, TaggedOne
  <2>4. Cardinality(Tagged(w, (1..(i - 1)) \cup {i})) =
          Cardinality(Tagged(w, 1..(i - 1))) + Cardinality(Tagged(w, {i}))
    BY <2>1, <2>3, TaggedUnion
  <2> QED
    BY <2>1, <2>3, <2>4 DEF Room, w
<1> QED
  BY <1>1, <1>4, <1>5, <1>6

\* It is the same on other lines of the same subroutines.
LEMMA RoomSame ==
  ASSUME NEW lines, NEW other, NEW n \in Nat,
         \A i \in 1..n : /\ i \in DOMAIN lines /\ i \in DOMAIN other
                         /\ Owner(other[i]) = Owner(lines[i])
  PROVE  Room(other, n) = Room(lines, n)
<1>1. \A i \in 1..n : NamesOn(other)[i] = NamesOn(lines)[i]
  BY DEF NamesOn
<1>2. Tagged(NamesOn(other), 1..n) = Tagged(NamesOn(lines), 1..n)
  BY <1>1 DEF Tagged
<1> QED
  BY <1>2 DEF Room

TState ==
  IF ~Fresh \/ machine \notin {"executing", "wild"} THEN "idle"
  ELSE IF machine = "wild" THEN "wild"
  ELSE IF Executing THEN "running" ELSE "over"
TStack == IF Running THEN stack ELSE <<>>
TVars == <<source, TState, THere, TActs, TStack>>

\* An instruction as SourceRun has it
Does(ops, pops, pushes) ==
  /\ TState = "running" /\ source[THere].op \in ops
  /\ Len(TStack) >= pops /\ Len(TStack) - pops + pushes <= VM_STACK_SIZE
  /\ source' = source /\ TState' = TState
Leaves(pops, words) == TStack' = SubSeq(TStack, 1, Len(TStack) - pops) \o words
Proceeds == THere' = Text!NextLine(THere)
SameActs == TActs' = TActs
Arrives ==
  THere' = Text!FirstOf(Text!LinesAt(TActs[Len(TActs)].sub, Numerals[source[THere].args[1]]))
Stores(name, word) ==
  TActs' = [TActs EXCEPT ![Len(TActs)].locals =
              [x \in DOMAIN @ \cup {name} |-> IF x = name THEN word ELSE @[x]]]
Holds(name) == name \in DOMAIN TActs[Len(TActs)].locals

\* The steps of SourceRun in these terms.  PUSH leaves the value of its operand.
LEMMA PushStep ==
  ASSUME Does({"PUSH"}, 0, 1), Leaves(0, <<Text!ValueOf(source[THere].args[1]) % WORD_MOD>>),
         Proceeds, SameActs
  PROVE  Text!Push
BY DEF Text!Push, Text!Instruction, Text!Yields, Text!Goes, Text!Pop, Text!Depth, Text!Line,
       Does, Leaves, Proceeds, SameActs, TState, THere, TActs, TStack

\* POP drops a word.
LEMMA DropStep ==
  ASSUME Does({"POP"}, 1, 0), Leaves(1, <<>>), Proceeds, SameActs
  PROVE  Text!Drop
BY DEF Text!Drop, Text!Instruction, Text!Yields, Text!Goes, Text!Pop, Text!Depth, Text!Line,
       Does, Leaves, Proceeds, SameActs, TState, THere, TActs, TStack

\* DUP pushes the last word once more.
LEMMA DuplicateStep ==
  ASSUME Does({"DUP"}, 1, 2), Leaves(0, <<TStack[Len(TStack)]>>), Proceeds, SameActs
  PROVE  Text!Duplicate
BY DEF Text!Duplicate, Text!Instruction, Text!Yields, Text!Goes, Text!Pop, Text!Depth,
       Text!Line,
       Does, Leaves, Proceeds, SameActs, TState, THere, TActs, TStack

\* SUB and CMPEQ put their result in place of two words.
LEMMA CombineStep ==
  ASSUME Does({"SUB", "CMPEQ"}, 2, 1), Proceeds, SameActs, NEW a, NEW b,
         a = TStack[Len(TStack) - 1], b = TStack[Len(TStack)],
         \/ source[THere].op = "SUB" /\ Leaves(2, <<(a - b) % WORD_MOD>>)
         \/ source[THere].op = "CMPEQ" /\ Leaves(2, <<IF a = b THEN 1 ELSE 0>>)
  PROVE  Text!Combine
BY DEF Text!Combine, Text!Arithmetic, Text!Instruction, Text!Yields, Text!Goes, Text!Pop,
       Text!Depth, Text!Line,
       Does, Leaves, Proceeds, SameActs, TState, THere, TActs, TStack

\* LOAD replaces an address by what was declared there.
LEMMA LoadStep ==
  ASSUME Does({"LOAD"}, 1, 1), Proceeds, SameActs, NEW word \in Words, Leaves(1, <<word>>),
         \A value \in Text!DataAt(TStack[Len(TStack)]) : word = value % WORD_MOD
  PROVE  Text!Load
BY DEF Text!Load, Text!Instruction, Text!Yields, Text!Goes, Text!Pop, Text!Depth, Text!Line,
       Does, Leaves, Proceeds, SameActs, TState, THere, TActs, TStack, Words

\* JUMP goes to its target.
LEMMA JumpStep ==
  ASSUME Does({"JUMP"}, 0, 0), Arrives, SameActs, TStack' = TStack
  PROVE  Text!Jump
BY DEF Text!Jump, Text!Instruction, Text!Goes, Text!Target, Text!Top, Text!Line, Text!Depth,
       Does, Arrives, SameActs, TState, THere, TActs, TStack

\* JZ and JNZ go to their target or on.
LEMMA BranchStep ==
  ASSUME Does({"JZ", "JNZ"}, 1, 0), Leaves(1, <<>>), SameActs,
         IF (source[THere].op = "JZ") = (TStack[Len(TStack)] = 0) THEN Arrives ELSE Proceeds
  PROVE  Text!Branch
BY DEF Text!Branch, Text!Instruction, Text!Yields, Text!Goes, Text!Pop, Text!Target,
       Text!Top,
       Text!Line, Text!Depth,
       Does, Leaves, Arrives, Proceeds, SameActs, TState, THere, TActs, TStack

\* CALL opens an activation without locals at the first line of its subroutine.
LEMMA CalleeStep ==
  ASSUME Does({"CALL"}, 0, 0), Len(TActs) <= CALL_STACK_MEM, TStack' = TStack,
         THere' = Text!FirstOf(Text!BodyOf(source[THere].args[1])),
         TActs' = Append(TActs, [sub |-> source[THere].args[1], locals |-> [x \in {} |-> 0],
                                 back |-> Text!NextLine(THere)])
  PROVE  Text!Call
BY DEF Text!Call, Text!Instruction, Text!Goes, Text!Enter, Text!Top, Text!Line, Text!Depth,
       Does, TState, THere, TActs, TStack

\* RET goes back behind the CALL and drops the activation.
LEMMA ReturnStep ==
  ASSUME Does({"RET"}, 0, 0), Len(TActs) > 1, TStack' = TStack,
         THere' = TActs[Len(TActs)].back,
         TActs' = SubSeq(TActs, 1, Len(TActs) - 1)
  PROVE  Text!Return
BY DEF Text!Return, Text!Instruction, Text!Goes, Text!Top, Text!Line, Text!Depth,
       Does, TState, THere, TActs, TStack

\* STORE_L gives a local of this activation the word from the stack, ...
LEMMA StoreLocalStep ==
  ASSUME Does({"STORE_L"}, 1, 0), Leaves(1, <<>>), Proceeds,
         Stores(Text!LocalToken(source[THere]), TStack[Len(TStack)])
  PROVE  Text!StoreLocal
BY DEF Text!StoreLocal, Text!Instruction, Text!Yields, Text!Goes, Text!Pop, Text!StoreAs,
       Text!Top, Text!Line, Text!Depth,
       Does, Leaves, Proceeds, Stores, TState, THere, TActs, TStack

\* ... ISTORE_L the number on its line.
LEMMA StoreImmediateStep ==
  ASSUME Does({"ISTORE_L"}, 0, 0), TStack' = TStack, Proceeds,
         Stores(Text!LocalToken(source[THere]), Numerals[source[THere].args[1]] % WORD_MOD)
  PROVE  Text!StoreImmediate
BY DEF Text!StoreImmediate, Text!Instruction, Text!Goes, Text!StoreAs,
       Text!Top, Text!Line, Text!Depth,
       Does, Proceeds, Stores, TState, THere, TActs, TStack

\* LOAD_L pushes what this activation has stored, or anything.
LEMMA LoadLocalStep ==
  ASSUME Does({"LOAD_L"}, 0, 1), Proceeds, SameActs, NEW word \in Words, Leaves(0, <<word>>),
         Holds(Text!LocalToken(source[THere])) =>
           word = TActs[Len(TActs)].locals[Text!LocalToken(source[THere])]
  PROVE  Text!LoadLocal
BY DEF Text!LoadLocal, Text!Instruction, Text!Yields, Text!Goes, Text!Pop,
       Text!Top, Text!Line, Text!Depth,
       Does, Leaves, Proceeds, SameActs, Holds, TState, THere, TActs, TStack, Words

\* A run that is over has ended or failed where the text may.
LEMMA StopStep ==
  ASSUME TState = "running", source' = source, THere' = 0, TActs' = <<>>, TStack' = <<>>
  PROVE  /\ source[THere].op = "HALT" \/ (source[THere].op = "RET" /\ Len(TActs) = 1) =>
              (TState' = "over" => Text!Ends)
         /\ \/ source[THere].op = "CALL" /\ Len(TActs) > CALL_STACK_MEM
            \/ /\ source[THere].op = "LOAD" /\ Len(TStack) > 0
               /\ TStack[Len(TStack)] >= VM_RAM_SIZE
            \/ source[THere].op = "LOAD_L" /\ ~Holds(Text!LocalToken(source[THere]))
            => (TState' = "over" => Text!Fails)
<1>1. /\ Text!Line = source[THere] /\ Text!Top = Len(TActs) /\ Text!Depth = Len(TStack)
      /\ TState' = "over" => Text!Stop("over")
  BY DEF Text!Line, Text!Top, Text!Depth, Text!Stop, TState, THere, TActs, TStack
<1> QED
  BY <1>1 DEF Text!Ends, Text!Fails, Holds, TState, TActs, TStack

\* A frame stands on each of these lines, in a run of a text that keeps the rules.
Under(lines) ==
  MachineInv /\ TextInv /\ Running /\ Text!WellFormed /\ Path(lines)

SeenOn(lines) ==
  LET k == lines[sfp + 1]
  IN  /\ source \in Seq(Lines)
      /\ machine = "executing" /\ Fresh /\ running /\ status = VM!THREAD_ACTIVE
      /\ sfp \in Nat /\ sfp = csp + 1
      /\ \A i \in 1..(sfp + 1) : lines[i] \in CodeLines(source)
      /\ k \in CodeLines(source)
      /\ pc = Before(k) /\ pc < Len(code) /\ Opcode = source[k].op
      /\ pc + 1 + Fetches(Opcode) <= Len(code)
      /\ TState = "running" /\ TStack = stack
      /\ THere = k /\ TActs = ActsOn(lines) /\ Len(TActs) = sfp + 1

AllSeen == \A lines : Under(lines) => SeenOn(lines)

\* Lines on which the frames stand show the state of the text, before a step ...
LEMMA SeenAlways == AllSeen
<1> SUFFICES ASSUME NEW lines, Under(lines) PROVE SeenOn(lines)
  BY DEF AllSeen
<1> DEFINE k == lines[sfp + 1]
<1>1. /\ machine = "executing" /\ Fresh /\ running /\ status = VM!THREAD_ACTIVE
      /\ sfp \in Nat /\ sfp = csp + 1
      /\ \A i \in 1..(sfp + 1) : lines[i] \in CodeLines(source)
      /\ k \in CodeLines(source)
      /\ pc = Before(k) /\ pc < Len(code) /\ Opcode = source[k].op
      /\ pc + 1 + Fetches(Opcode) <= Len(code)
      /\ THere = k /\ TActs = ActsOn(lines)
  BY Seen DEF Under
<1> HIDE DEF k
<1>2. Len(TActs) = sfp + 1
  <2>1. sfp + 1 \in Nat
    BY <1>1
  <2>2. ActsOn(lines) = [i \in 1..(sfp + 1) |-> ActsOn(lines)[i]]
    BY DEF ActsOn
  <2> QED
    BY <1>1, <2>1, <2>2, FirstNumbers
<1>3. source \in Seq(Lines)
  BY <1>1, Loaded DEF Under
<1>4. TState = "running" /\ TStack = stack
  BY <1>1 DEF TState, TStack, Under, Running
<1> QED
  BY <1>1, <1>2, <1>3, <1>4 DEF SeenOn, k

\* ... and after it.
LEMMA SeenNext == AllSeen'
BY SeenAlways, PTL

\* One more step in the same subroutine: its frame stands on another line, the
\* others where they stood, and only its own locals may have changed.
LEMMA GoesOn ==
  ASSUME NEW lines, Under(lines), MachineInv', TextInv', NEW n, n = sfp + 1,
         UNCHANGED <<assembly, code, ram, machine, status, running, csp, sfp, call_stack>>,
         NEW j \in CodeLines(source), Owner(j) = Owner(lines[n]), pc' = Before(j),
         \A i \in 1..n :
           /\ stack_frame'[i - 1].start = stack_frame[i - 1].start
           /\ i # n => stack_frame'[i - 1] = stack_frame[i - 1] /\ stored'[i - 1] = stored[i - 1],
         stack_frame'[n - 1].count <= Cardinality(Text!NamedIn(Owner(j)))
  PROVE  /\ Under([lines EXCEPT ![n] = j])'
         /\ TState' = "running" /\ TStack' = stack' /\ THere' = j
         /\ TActs' = [TActs EXCEPT ![Len(TActs)].locals = LocalsOf(Owner(j), stored'[n - 1])]
<1> DEFINE moved == [lines EXCEPT ![n] = j]
<1>1. SeenOn(lines)
  BY SeenAlways DEF AllSeen
<1>2. n \in Nat \ {0} /\ n \in 1..n /\ sfp \in Nat /\ sfp' = sfp /\ source' = source
      /\ source \in Seq(Lines) /\ Text!WellFormed
  BY <1>1 DEF SeenOn, assembly, vars, Under
<1>3. lines \in [1..n -> CodeLines(source)]
  BY DEF Under, Path
<1>4. /\ moved \in [1..n -> CodeLines(source)] /\ moved[n] = j
      /\ \A i \in 1..n : Owner(moved[i]) = Owner(lines[i]) /\ (i # n => moved[i] = lines[i])
  BY <1>2, <1>3
<1> HIDE DEF moved
<1>5. Running' /\ Text!WellFormed'
  BY <1>2, SameRules DEF Under, Running, Executing, Fresh, assembly, vars
<1>6. \A i \in 0..n : Room(moved, i) = Room(lines, i)
  <2> SUFFICES ASSUME NEW i \in 0..n PROVE Room(moved, i) = Room(lines, i)
    OBVIOUS
  <2>1. \A m \in 1..i : m \in DOMAIN lines /\ m \in DOMAIN moved /\ Owner(moved[m]) = Owner(lines[m])
    BY <1>2, <1>3, <1>4
  <2> QED
    BY <2>1, RoomSame
<1>7. \A i : Room(moved, i)' = Room(moved, i)
  BY <1>2, SameRules DEF Room, NamesOn
<1>8. Path(moved)'
  <2>1. \A i \in 1..sfp : i \in 1..n /\ i # n
    BY <1>2
  <2>2. \A i \in 1..sfp :
          source[moved[i]].op = "CALL" /\ call_stack'[i - 1] = Before(moved[i]) + 2
    BY <1>4, <2>1 DEF Under, Path
  <2>3. ASSUME NEW i \in 1..n
        PROVE  /\ stack_frame'[i - 1].start <= Room(moved, i - 1)
               /\ stack_frame'[i - 1].count <= Cardinality(Text!NamedIn(Owner(moved[i])))
    <3>1. /\ stack_frame[i - 1].start <= Room(lines, i - 1)
          /\ stack_frame[i - 1].count <= Cardinality(Text!NamedIn(Owner(lines[i])))
      BY DEF Under, Path
    <3>2. i - 1 \in 0..n
      BY <1>2
    <3>3. stack_frame'[i - 1].start <= Room(moved, i - 1)
      BY <1>6, <3>1, <3>2
    <3>4. i # n => stack_frame'[i - 1].count <= Cardinality(Text!NamedIn(Owner(moved[i])))
      BY <1>4, <3>1
    <3> QED
      BY <1>4, <3>3, <3>4
  <2>4. sfp' + 1 = n /\ CodeLines(source)' = CodeLines(source)
    BY <1>2
  <2> QED
    BY <1>2, <1>4, <1>7, <2>2, <2>3, <2>4, SameRules DEF Path
<1>9. Under(moved)'
  BY <1>5, <1>8 DEF Under
<1>10. SeenOn(moved)'
  BY <1>9, SeenNext DEF AllSeen
<1>11. THere' = j /\ TState' = "running" /\ TStack' = stack'
  BY <1>2, <1>4, <1>10 DEF SeenOn
<1>12. TActs' = [TActs EXCEPT ![Len(TActs)].locals = LocalsOf(Owner(j), stored'[n - 1])]
  <2>1. /\ TActs = [i \in 1..n |-> ActOn(lines, i)] /\ Len(TActs) = n
    BY <1>1 DEF SeenOn, ActsOn
  <2>2. TActs' = [i \in 1..n |-> ActOn(moved, i)']
    BY <1>2, <1>10 DEF SeenOn, ActsOn
  <2>3. ASSUME NEW i \in 1..n
        PROVE  ActOn(moved, i)' =
                 IF i = n THEN [ActOn(lines, i) EXCEPT !.locals = LocalsOf(Owner(j), stored'[n - 1])]
                 ELSE ActOn(lines, i)
    <3>1. i # 1 => i - 1 \in 1..n /\ i - 1 # n
      BY <1>2
    <3>2. i # 1 => moved[i - 1] = lines[i - 1]
      BY <1>4, <3>1
    <3>3. \A k : Text!NextLine(k)' = Text!NextLine(k)
      BY <1>2 DEF Text!NextLine
    <3>4. \A sub, held : LocalsOf(sub, held)' = LocalsOf(sub, held)
      BY DEF LocalsOf, assembly, vars
    <3>5. ActOn(moved, i)' = [sub |-> Owner(lines[i]), locals |-> LocalsOf(Owner(lines[i]), stored'[i - 1]),
                              back |-> IF i = 1 THEN 0 ELSE Text!NextLine(lines[i - 1])]
      BY <1>2, <1>4, <3>2, <3>3, <3>4, SameRules DEF ActOn
    <3> QED
      BY <3>5 DEF ActOn
  <2> DEFINE e == LocalsOf(Owner(j), stored'[n - 1])
  <2>4. \A i \in 1..n : TActs[i] = ActOn(lines, i)
    BY <2>1
  <2> HIDE DEF e
  <2>5. [TActs EXCEPT ![n].locals = e] =
          [i \in 1..n |-> IF i = n THEN [TActs[i] EXCEPT !.locals = e] ELSE TActs[i]]
    <3>1. DOMAIN TActs = 1..n
      BY <2>1
    <3> QED
      BY <3>1
  <2>6. \A i \in 1..n : ActOn(lines, i) = TActs[i]
    BY <2>4
  <2>7. TActs' = [i \in 1..n |-> IF i = n THEN [TActs[i] EXCEPT !.locals = e] ELSE TActs[i]]
    BY <2>2, <2>3, <2>6 DEF e
  <2> QED
    BY <2>1, <2>5, <2>7 DEF e
<1> QED
  BY <1>9, <1>11, <1>12 DEF moved

\* A step to a line of the same subroutine that leaves the frames alone
LEMMA GoesTo ==
  ASSUME NEW lines, Under(lines), MachineInv', TextInv',
         UNCHANGED <<assembly, code, ram, machine>>,
         UNCHANGED <<status, csp, sfp, call_stack, stack_frame, ram_stack, running, stored>>,
         NEW j \in CodeLines(source), Owner(j) = Owner(lines[sfp + 1]), pc' = Before(j)
  PROVE  /\ \E other : Under(other)'
         /\ source' = source /\ TState' = "running" /\ TStack' = stack' /\ THere' = j /\ SameActs
<1>1. PICK n : n = sfp + 1
  OBVIOUS
<1>2. SeenOn(lines)
  BY SeenAlways DEF AllSeen
<1>3. n \in 1..n /\ Len(TActs) = n /\ TActs = [i \in 1..n |-> ActOn(lines, i)]
  BY <1>1, <1>2 DEF SeenOn, ActsOn
<1>4. \A i \in 1..n :
        /\ stack_frame'[i - 1].start = stack_frame[i - 1].start
        /\ i # n => stack_frame'[i - 1] = stack_frame[i - 1] /\ stored'[i - 1] = stored[i - 1]
  OBVIOUS
<1>5. stack_frame'[n - 1].count <= Cardinality(Text!NamedIn(Owner(j)))
  BY <1>1, <1>3 DEF Under, Path
<1>6. /\ Under([lines EXCEPT ![n] = j])'
      /\ TState' = "running" /\ TStack' = stack' /\ THere' = j
      /\ TActs' = [TActs EXCEPT ![Len(TActs)].locals = LocalsOf(Owner(j), stored'[n - 1])]
  BY <1>1, <1>4, <1>5, GoesOn
<1>7. TActs[n].locals = LocalsOf(Owner(j), stored'[n - 1])
  <2>1. TActs[n] = ActOn(lines, n)
    BY <1>3
  <2> QED
    BY <1>1, <2>1 DEF ActOn
<1>8. SameActs
  <2> DEFINE e == LocalsOf(Owner(j), stored'[n - 1])
  <2>1. \A i \in 1..n : ActOn(lines, i) = [sub |-> ActOn(lines, i).sub,
                           locals |-> ActOn(lines, i).locals, back |-> ActOn(lines, i).back]
    BY DEF ActOn
  <2>2. TActs[n] = [sub |-> TActs[n].sub, locals |-> e, back |-> TActs[n].back]
    BY <1>3, <1>7, <2>1
  <2>3. TActs' = [TActs EXCEPT ![n].locals = e]
    BY <1>3, <1>6
  <2>4. DOMAIN TActs = 1..n /\ TActs = [i \in 1..n |-> TActs[i]]
    BY <1>3
  <2> HIDE DEF e
  <2>5. [TActs EXCEPT ![n].locals = e] = [i \in 1..n |-> IF i = n THEN [TActs[n] EXCEPT !.locals = e]
                                                        ELSE TActs[i]]
    BY <2>4
  <2>6. [TActs[n] EXCEPT !.locals = e] = TActs[n]
    BY <2>2
  <2> QED
    BY <2>3, <2>4, <2>5, <2>6 DEF SameActs
<1>9. source' = source
  BY DEF assembly, vars
<1> QED
  BY <1>6, <1>8, <1>9

\* The line behind comes next if as many words are fetched as the instruction has ...
LEMMA GoesBehind ==
  ASSUME NEW lines, Under(lines), MachineInv', TextInv',
         UNCHANGED <<assembly, code, ram, machine>>,
         UNCHANGED <<status, csp, sfp, call_stack, stack_frame, ram_stack, running, stored>>,
         Opcode \notin {"RET", "HALT", "JUMP"}, pc' = pc + 1 + Fetches(Opcode)
  PROVE  /\ \E other : Under(other)'
         /\ source' = source /\ TState' = "running" /\ TStack' = stack' /\ Proceeds /\ SameActs
<1> DEFINE k == lines[sfp + 1]
           j == Text!NextLine(k)
<1>1. SeenOn(lines) /\ Text!WellFormed
  BY SeenAlways DEF AllSeen, Under
<1>2. k \in CodeLines(source) /\ Opcode = source[k].op /\ pc = Before(k) /\ THere = k
      /\ source \in Seq(Lines)
  BY <1>1 DEF SeenOn
<1> HIDE DEF k
<1>3. j \in CodeLines(source) /\ Owner(j) = Owner(k)
      /\ Before(j) = Before(k) + 1 + Fetches(source[k].op)
  <2>1. /\ j \in CodeLines(source) /\ Owner(j) = Owner(k)
        /\ Before(j) = Before(k) + 1 + Len(source[k].args)
    BY <1>1, <1>2, LineBehind
  <2> QED
    BY <1>1, <1>2, <2>1, LineRules
<1>4. pc' = Before(j)
  BY <1>2, <1>3
<1> HIDE DEF j
<1>5. /\ \E other : Under(other)'
      /\ source' = source /\ TState' = "running" /\ TStack' = stack' /\ THere' = j /\ SameActs
  BY <1>3, <1>4, GoesTo DEF k
<1> QED
  BY <1>2, <1>5 DEF Proceeds, j

\* ... and a jump arrives where the text says.
LEMMA GoesAway ==
  ASSUME NEW lines, Under(lines), MachineInv', TextInv',
         UNCHANGED <<assembly, code, ram, machine>>,
         UNCHANGED <<status, csp, sfp, call_stack, stack_frame, ram_stack, running, stored>>,
         Opcode \in Jumps \ {"CALL"}, pc' = Operand(1)
  PROVE  /\ \E other : Under(other)'
         /\ source' = source /\ TState' = "running" /\ TStack' = stack' /\ Arrives /\ SameActs
<1> DEFINE k == lines[sfp + 1]
           j == TargetLine(k)
<1>1. SeenOn(lines) /\ Text!WellFormed /\ MachineInv /\ TextInv
  BY SeenAlways DEF AllSeen, Under
<1>2. k \in CodeLines(source) /\ Opcode = source[k].op /\ pc = Before(k) /\ THere = k
      /\ source \in Seq(Lines) /\ machine = "executing" /\ Fresh
  BY <1>1 DEF SeenOn
<1>3. Len(TActs) = sfp + 1 /\ sfp + 1 \in 1..(sfp + 1) /\ TActs = ActsOn(lines)
  BY <1>1 DEF SeenOn
<1>4. TActs[Len(TActs)].sub = Owner(k)
  BY <1>3 DEF ActsOn, ActOn
<1> HIDE DEF k
<1>5. j \in CodeLines(source) /\ Owner(j) = Owner(k)
  BY <1>1, <1>2, TargetThere
<1>6. pc' = Before(j)
  <2>1. code[Before(k) + 1 + 1].val = Before(j)
    BY <1>1, <1>2, LineInCode
  <2>2. Before(j) % WORD_MOD = Before(j)
    BY <1>1, <1>2, <1>5, LineInCode
  <2> HIDE DEF j
  <2> QED
    BY <1>2, <2>1, <2>2 DEF Operand
<1>7. j = Text!FirstOf(Text!LinesAt(TActs[Len(TActs)].sub, Numerals[source[THere].args[1]]))
  BY <1>2, <1>4 DEF TargetLine
<1> HIDE DEF j
<1>8. /\ \E other : Under(other)'
      /\ source' = source /\ TState' = "running" /\ TStack' = stack' /\ THere' = j /\ SameActs
  BY <1>5, <1>6, GoesTo DEF k
<1> QED
  BY <1>7, <1>8 DEF Arrives

\* What one instruction has to be in SourceRun
Keeps == \E other : Under(other)'

\* The instruction that is fetched is that of the line.
LEMMA FetchedIs ==
  ASSUME NEW lines, Under(lines), NEW ops, NEW pops, NEW pushes, Instruction(ops, pops, pushes)
  PROVE  /\ Opcode \in ops /\ source[THere].op = Opcode /\ THere \in CodeLines(source)
         /\ UNCHANGED <<assembly, code, ram, machine>>
         /\ TStack = stack /\ Len(stack) \in Nat /\ pc \in Nat
         /\ pops <= Len(stack) /\ Len(stack) - pops + pushes <= VM_STACK_SIZE
         /\ (source' = source /\ TState' = "running") => Does(ops, pops, pushes)
<1>1. SeenOn(lines)
  BY SeenAlways DEF AllSeen
<1>2. Opcode \in ops /\ source[THere].op = Opcode /\ TState = "running" /\ TStack = stack
      /\ THere \in CodeLines(source)
  BY <1>1 DEF SeenOn, Instruction
<1>3. Len(stack) \in Nat /\ pc \in Nat
  BY LenProperties DEF Under, MachineInv, VMP!FrameInv, VMP!TypeOK
<1> QED
  BY <1>2, <1>3 DEF Instruction, Does, Depth

\* An instruction that only fetches and works on the stack
LEMMA FetchesOn ==
  ASSUME NEW lines, Under(lines), MachineInv', TextInv',
         UNCHANGED <<assembly, code, ram, machine>>,
         Opcode \notin {"RET", "HALT", "JUMP"}, Fetch(1 + Fetches(Opcode))
  PROVE  Keeps /\ source' = source /\ TState' = "running" /\ TStack' = stack' /\ Proceeds /\ SameActs
<1>1. pc \in Nat /\ Fetches(Opcode) \in Nat
  BY DEF Under, MachineInv, VMP!FrameInv, VMP!TypeOK, Fetches
<1>2. /\ UNCHANGED <<status, csp, sfp, call_stack, stack_frame, ram_stack, running, stored>>
      /\ pc' = pc + 1 + Fetches(Opcode)
  BY <1>1 DEF Fetch
<1> QED
  BY <1>2, GoesBehind DEF Keeps

\* The static data is where the text says.
LEMMA DataThere ==
  ASSUME MachineInv, TextInv, machine = "executing", Fresh, Text!WellFormed, NEW a \in Nat,
         NEW value \in Text!DataAt(a)
  PROVE  a < Len(ram) /\ ram[a + 1].val = value
<1>1. source \in Seq(Lines) /\ Finished /\ ram = ramData
  BY Loaded
<1>2. PICK k \in Text!Declarations :
        /\ a - Text!Address(k) + 1 \in DOMAIN Text!WordsIn(source[k])
        /\ value = Text!WordsIn(source[k])[a - Text!Address(k) + 1]
  BY DEF Text!DataAt
<1> DEFINE i == a - Text!Address(k) + 1
<1>3. /\ k \in 1..Len(source) /\ Len(source) \in Nat /\ k < Len(source) + 1
      /\ source[k].values \in Seq(Int)
  BY <1>1, Lineparts, SameText
<1>4. i \in 1..DataLength(k) /\ Text!Address(k) \in Nat
  <2>1. Text!WordsIn(source[k]) \in Seq(Int)
    BY <1>3, WordsInSeq
  <2>2. DOMAIN Text!WordsIn(source[k]) = 1..Len(Text!WordsIn(source[k]))
    BY <2>1, LenProperties
  <2>3. k \in Nat
    BY <1>3
  <2>4. Text!Address(k) \in Nat
    BY <1>1, <2>3, DataCounted
  <2> QED
    BY <1>2, <2>2, <2>4 DEF DataLength
<1>5. /\ Text!Address(k) + i \in 1..Len(ramData)
      /\ ramData[Text!Address(k) + i].val = Text!WordsIn(source[k])[i]
  BY <1>1, <1>3, <1>4 DEF Finished, DataMapped
<1>6. Text!Address(k) + i = a + 1
  BY <1>4
<1>7. Len(ramData) \in Nat
  BY LenProperties DEF MachineInv, RunInv, AsmInv, Typed
<1> HIDE DEF i
<1> QED
  BY <1>1, <1>2, <1>5, <1>6, <1>7 DEF i

\* An instruction that computes goes on behind its line, with the stack of the text.
LEMMA StraightStep ==
  ASSUME NEW lines, Under(lines), MachineInv', TextInv',
         PUSH \/ POP \/ DUP \/ SUB \/ CMPEQ \/ LOAD
  PROVE  Keeps /\ Text!Next
<1>1. SeenOn(lines) /\ MachineInv /\ TextInv /\ Text!WellFormed
  BY SeenAlways DEF AllSeen, Under
<1>2. machine = "executing" /\ Fresh /\ THere = lines[sfp + 1] /\ pc = Before(THere)
  BY <1>1 DEF SeenOn
<1>3. CASE PUSH
  <2>1. Instruction({"PUSH"}, 0, 1) /\ Fetch(2) /\ Yields(0, <<Operand(1)>>)
    BY <1>3 DEF PUSH
  <2>2. Opcode = "PUSH" /\ source[THere].op = "PUSH" /\ THere \in CodeLines(source)
        /\ UNCHANGED <<assembly, code, ram, machine>> /\ TStack = stack
        /\ ((source' = source /\ TState' = "running") => Does({"PUSH"}, 0, 1))
    BY <2>1, FetchedIs
  <2>3. Fetch(1 + Fetches(Opcode))
    BY <2>1, <2>2 DEF Fetches, StoresImmediate, StoresLocal, Pushes
  <2>4. Keeps /\ source' = source /\ TState' = "running" /\ TStack' = stack' /\ Proceeds /\ SameActs
    BY <1>1, <2>2, <2>3, FetchesOn
  <2>5. Operand(1) = Text!ValueOf(source[THere].args[1]) % WORD_MOD
    <3>1. code[Before(THere) + 1 + 1].val = Text!ValueOf(source[THere].args[1])
      BY <1>1, <1>2, <2>2, LineInCode
    <3> QED
      BY <1>2, <3>1 DEF Operand
  <2>6. Leaves(0, <<Text!ValueOf(source[THere].args[1]) % WORD_MOD>>)
    BY <2>1, <2>2, <2>4, <2>5 DEF Leaves, Yields, Depth
  <2>7. Text!Push
    BY <2>2, <2>4, <2>6, PushStep
  <2> QED
    BY <2>4, <2>7 DEF Text!Next
<1>4. CASE POP
  <2>1. Instruction({"POP"}, 1, 0) /\ Fetch(1) /\ Yields(1, <<>>)
    BY <1>4 DEF POP
  <2>2. Opcode = "POP" /\ UNCHANGED <<assembly, code, ram, machine>> /\ TStack = stack
        /\ ((source' = source /\ TState' = "running") => Does({"POP"}, 1, 0))
    BY <2>1, FetchedIs
  <2>3. Fetch(1 + Fetches(Opcode))
    BY <2>1, <2>2 DEF Fetches, StoresImmediate, StoresLocal, Pushes, Jumps, UsesLocal
  <2>4. Keeps /\ source' = source /\ TState' = "running" /\ TStack' = stack' /\ Proceeds /\ SameActs
    BY <1>1, <2>2, <2>3, FetchesOn
  <2>5. Leaves(1, <<>>)
    BY <2>1, <2>2, <2>4 DEF Leaves, Yields, Depth
  <2>6. Text!Drop
    BY <2>2, <2>4, <2>5, DropStep
  <2> QED
    BY <2>4, <2>6 DEF Text!Next
<1>5. CASE DUP
  <2>1. Instruction({"DUP"}, 1, 2) /\ Fetch(1) /\ Yields(0, <<stack[Depth]>>)
    BY <1>5 DEF DUP
  <2>2. Opcode = "DUP" /\ UNCHANGED <<assembly, code, ram, machine>> /\ TStack = stack
        /\ ((source' = source /\ TState' = "running") => Does({"DUP"}, 1, 2))
    BY <2>1, FetchedIs
  <2>3. Fetch(1 + Fetches(Opcode))
    BY <2>1, <2>2 DEF Fetches, StoresImmediate, StoresLocal, Pushes, Jumps, UsesLocal
  <2>4. Keeps /\ source' = source /\ TState' = "running" /\ TStack' = stack' /\ Proceeds /\ SameActs
    BY <1>1, <2>2, <2>3, FetchesOn
  <2>5. Leaves(0, <<TStack[Len(TStack)]>>)
    BY <2>1, <2>2, <2>4 DEF Leaves, Yields, Depth
  <2>6. Text!Duplicate
    BY <2>2, <2>4, <2>5, DuplicateStep
  <2> QED
    BY <2>4, <2>6 DEF Text!Next
<1>6. CASE SUB \/ CMPEQ
  <2> DEFINE a == TStack[Len(TStack) - 1]
             b == TStack[Len(TStack)]
  <2>1. PICK op \in {"SUB", "CMPEQ"} :
          /\ Instruction({op}, 2, 1) /\ Fetch(1)
          /\ op = "SUB" => Yields(2, <<(stack[Depth - 1] - stack[Depth]) % WORD_MOD>>)
          /\ op = "CMPEQ" => Yields(2, <<IF stack[Depth - 1] = stack[Depth] THEN 1 ELSE 0>>)
    BY <1>6 DEF SUB, CMPEQ
  <2>2. Opcode = op /\ source[THere].op = op
        /\ UNCHANGED <<assembly, code, ram, machine>> /\ TStack = stack
        /\ ((source' = source /\ TState' = "running") => Does({op}, 2, 1))
    BY <2>1, FetchedIs
  <2>3. Fetch(1 + Fetches(Opcode))
    BY <2>1, <2>2 DEF Fetches, StoresImmediate, StoresLocal, Pushes, Jumps, UsesLocal
  <2>4. Keeps /\ source' = source /\ TState' = "running" /\ TStack' = stack' /\ Proceeds /\ SameActs
    BY <1>1, <2>2, <2>3, FetchesOn
  <2>5. Does({"SUB", "CMPEQ"}, 2, 1)
    BY <2>2, <2>4 DEF Does
  <2>6. \/ source[THere].op = "SUB" /\ Leaves(2, <<(a - b) % WORD_MOD>>)
        \/ source[THere].op = "CMPEQ" /\ Leaves(2, <<IF a = b THEN 1 ELSE 0>>)
    BY <2>1, <2>2, <2>4 DEF Leaves, Yields, Depth
  <2>7. Text!Combine
    BY <2>4, <2>5, <2>6, CombineStep
  <2> QED
    BY <2>4, <2>7 DEF Text!Next
<1>7. CASE LOAD
  <2>1. /\ Instruction({"LOAD"}, 1, 1) /\ Fetch(1)
        /\ \E word \in Words :
             /\ stack[Depth] < Len(ram) => word = ram[stack[Depth] + 1].val % WORD_MOD
             /\ Yields(1, <<word>>)
    BY <1>7 DEF LOAD
  <2>2. Opcode = "LOAD" /\ UNCHANGED <<assembly, code, ram, machine>> /\ TStack = stack
        /\ ((source' = source /\ TState' = "running") => Does({"LOAD"}, 1, 1))
        /\ Len(stack) \in Nat /\ 1 <= Len(stack)
    BY <2>1, FetchedIs
  <2>3. Fetch(1 + Fetches(Opcode))
    BY <2>1, <2>2 DEF Fetches, StoresImmediate, StoresLocal, Pushes, Jumps, UsesLocal
  <2>4. Keeps /\ source' = source /\ TState' = "running" /\ TStack' = stack' /\ Proceeds /\ SameActs
    BY <1>1, <2>2, <2>3, FetchesOn
  <2>5. stack[Depth] \in Nat
    <3>1. stack \in Seq(Words) /\ Depth \in 1..Len(stack)
      BY <1>1, <2>2 DEF MachineInv, Depth
    <3>2. stack[Depth] \in Words
      BY <3>1, ElementOfSeq
    <3> QED
      BY <3>2 DEF Words
  <2>6. PICK word \in Words :
          /\ stack[Depth] < Len(ram) => word = ram[stack[Depth] + 1].val % WORD_MOD
          /\ Yields(1, <<word>>)
    BY <2>1
  <2>7. \A value \in Text!DataAt(TStack[Len(TStack)]) : word = value % WORD_MOD
    <3> SUFFICES ASSUME NEW value \in Text!DataAt(stack[Depth]) PROVE word = value % WORD_MOD
      BY <2>2 DEF Depth
    <3>1. stack[Depth] < Len(ram) /\ ram[stack[Depth] + 1].val = value
      BY <1>1, <1>2, <2>5, DataThere
    <3> QED
      BY <2>6, <3>1
  <2>8. Leaves(1, <<word>>)
    BY <2>2, <2>4, <2>6 DEF Leaves, Yields, Depth
  <2>9. Text!Load
    BY <2>2, <2>4, <2>7, <2>8, LoadStep
  <2> QED
    BY <2>4, <2>9 DEF Text!Next
<1> QED
  BY <1>3, <1>4, <1>5, <1>6, <1>7

\* A jump arrives at the line the text counts to, in the same subroutine.
LEMMA JumpsStep ==
  ASSUME NEW lines, Under(lines), MachineInv', TextInv', JUMP \/ Branch
  PROVE  Keeps /\ Text!Next
<1>1. CASE JUMP
  <2>1. Instruction({"JUMP"}, 0, 0) /\ VM!JUMP(Operand(1)) /\ UNCHANGED stack
    BY <1>1 DEF JUMP
  <2>2. Opcode = "JUMP" /\ UNCHANGED <<assembly, code, ram, machine>> /\ TStack = stack
        /\ ((source' = source /\ TState' = "running") => Does({"JUMP"}, 0, 0))
    BY <2>1, FetchedIs
  <2>3. /\ UNCHANGED <<status, csp, sfp, call_stack, stack_frame, ram_stack, running, stored>>
        /\ pc' = Operand(1)
    BY <2>1 DEF VM!JUMP
  <2>4. Keeps /\ source' = source /\ TState' = "running" /\ TStack' = stack' /\ Arrives /\ SameActs
    <3>1. Opcode \in Jumps \ {"CALL"}
      BY <2>2 DEF Jumps
    <3> QED
      BY <2>2, <2>3, <3>1, GoesAway DEF Keeps
  <2>5. Text!Jump
    BY <2>1, <2>2, <2>4, JumpStep
  <2> QED
    BY <2>4, <2>5 DEF Text!Next
<1>2. CASE Branch
  <2> DEFINE taken == (Opcode = "JZ") = (stack[Depth] = 0)
  <2>1. /\ Instruction({"JZ", "JNZ"}, 1, 0) /\ Yields(1, <<>>)
        /\ IF taken THEN VM!JUMP(Operand(1)) ELSE VM!NoJump
    BY <1>2 DEF Branch
  <2>2. Opcode \in {"JZ", "JNZ"} /\ UNCHANGED <<assembly, code, ram, machine>> /\ TStack = stack
        /\ source[THere].op = Opcode
        /\ ((source' = source /\ TState' = "running") => Does({"JZ", "JNZ"}, 1, 0))
    BY <2>1, FetchedIs
  <2>3. /\ UNCHANGED <<status, csp, sfp, call_stack, stack_frame, ram_stack, running, stored>>
        /\ pc' = IF taken THEN Operand(1) ELSE pc + 2
    <3> HIDE DEF taken
    <3> QED
      BY <2>1 DEF VM!JUMP, VM!NoJump
  <2>4. taken <=> ((source[THere].op = "JZ") = (TStack[Len(TStack)] = 0))
    BY <2>2 DEF Depth
  <2> HIDE DEF taken
  <2>5. /\ Keeps /\ source' = source /\ TState' = "running" /\ TStack' = stack' /\ SameActs
        /\ IF taken THEN Arrives ELSE Proceeds
    <3>1. Opcode \in Jumps \ {"CALL"} /\ Fetches(Opcode) = 1 /\ Opcode \notin {"RET", "HALT", "JUMP"}
      BY <2>2 DEF Jumps, Fetches, StoresImmediate, StoresLocal
    <3>2. CASE taken
      <4>1. pc' = Operand(1)
        BY <2>3, <3>2
      <4> QED
        BY <2>2, <2>3, <3>1, <3>2, <4>1, GoesAway DEF Keeps
    <3>3. CASE ~taken
      <4>1. pc' = pc + 1 + Fetches(Opcode)
        <5>1. pc \in Nat
          BY DEF Under, MachineInv, VMP!FrameInv, VMP!TypeOK
        <5> QED
          BY <2>3, <3>1, <3>3, <5>1
      <4> QED
        BY <2>2, <2>3, <3>1, <3>3, <4>1, GoesBehind DEF Keeps
    <3> QED
      BY <3>2, <3>3
  <2>6. Leaves(1, <<>>)
    BY <2>1, <2>2, <2>5 DEF Leaves, Yields, Depth
  <2>7. Text!Branch
    BY <2>2, <2>4, <2>5, <2>6, BranchStep
  <2> QED
    BY <2>5, <2>7 DEF Text!Next
<1> QED
  BY <1>1, <1>2

----------------------------------------------------------------------------
(* Locals.                                                                  *)

\* The offset the instruction has is that of the local its line names.
LEMMA LocalHere ==
  ASSUME NEW lines, Under(lines), NEW n, n = sfp + 1, Opcode \in LocalOps
  PROVE  LET sub == Owner(lines[n])
             o == Operand(Fetches(Opcode))
         IN  /\ o \in Offsets /\ o \in Nat /\ sub \in DOMAIN locals /\ Distinct(locals[sub])
             /\ o + 1 \in DOMAIN locals[sub]
             /\ locals[sub][o + 1] = Text!LocalToken(source[THere])
             /\ o + 1 <= Cardinality(Text!NamedIn(sub))
             /\ n \in 1..n /\ Len(TActs) = n /\ TActs[n] = ActOn(lines, n)
             /\ DOMAIN TActs = 1..n
<1> DEFINE sub == Owner(lines[n])
           o == Operand(Fetches(Opcode))
           name == Text!LocalToken(source[THere])
<1>1. SeenOn(lines) /\ MachineInv /\ TextInv /\ Text!WellFormed
  BY SeenAlways DEF AllSeen, Under
<1>2. PICK k \in CodeLines(source) : k = lines[n]
  BY <1>1 DEF SeenOn
<1>3. /\ machine = "executing" /\ Fresh /\ source \in Seq(Lines) /\ Opcode = source[k].op
      /\ pc = Before(k) /\ pc < Len(code) /\ THere = k
      /\ n \in 1..n /\ Len(TActs) = n /\ TActs = ActsOn(lines) /\ sfp + 1 = n
  BY <1>1, <1>2 DEF SeenOn
<1>4. /\ code = program /\ OnlyNamed /\ Len(code) \in Nat /\ DOMAIN code = 1..Len(code)
      /\ \A x \in Nat : x < WORD_MOD => x % WORD_MOD = x
  BY <1>1, <1>3, Loaded
<1>5. /\ Before(k) \in Nat /\ LineOf(Before(k)) = k /\ code[Before(k) + 1].op = source[k].op
      /\ Before(k) + 1 + Fetches(source[k].op) <= Len(code)
      /\ NamesLocal(Before(k) + 1)
  BY <1>1, <1>3, LineInCode
<1>6. code[pc + 1].line = k /\ pc + 1 \in DOMAIN code /\ code[pc + 1].op = Opcode
  BY <1>3, <1>4, <1>5 DEF LineOf
<1>7. sub = source[HeaderOf(source, k)].name
  BY <1>2 DEF Owner
<1>8. PICK i \in DOMAIN locals[sub] :
        code[pc + 1 + Fetches(Opcode)].val = i - 1 /\ locals[sub][i] = LocalToken(source[k])
  BY <1>3, <1>4, <1>5, <1>6, <1>7 DEF NamesLocal
<1>9. sub \in DOMAIN locals /\ Distinct(locals[sub])
  <2>1. sub \in DOMAIN locals
    BY <1>3, <1>4, <1>5, <1>6, <1>7 DEF NamesLocal
  <2> QED
    BY <1>1, <2>1 DEF MachineInv, LocalInv
<1>10. Len(locals[sub]) \in Nat /\ DOMAIN locals[sub] = 1..Len(locals[sub])
  BY <1>9, LenProperties DEF Distinct, IsSeq
<1>11. i - 1 \in Offsets
  BY <1>1, <1>6, <1>8 DEF MachineInv, Assembled, LocalOps
<1>12. o = i - 1
  <2>1. i - 1 \in Nat /\ i - 1 < WORD_MOD
    <3>1. \A offset \in Offsets : offset \in Nat /\ offset < WORD_MOD
      BY FrameSizes
    <3> HIDE DEF sub
    <3> QED
      BY <1>11, <3>1
  <2>2. (i - 1) % WORD_MOD = i - 1
    BY <1>4, <2>1
  <2> QED
    BY <1>8, <2>2 DEF Operand
<1> HIDE DEF o
<1>13. o + 1 = i /\ o \in Nat
  BY <1>10, <1>11, <1>12
<1>14. name = LocalToken(source[k])
  BY <1>3, SameText
<1>15. i <= Cardinality(Text!NamedIn(sub))
  <2> DEFINE s == locals[sub]
             T == Text!NamedIn(sub)
             f == [m \in 1..Len(s) |-> s[m]]
  <2>1. \A m \in 1..Len(s) : s[m] \in T
    BY <1>4, <1>9, <1>10 DEF OnlyNamed
  <2>2. \A m, j \in 1..Len(s) : s[m] = s[j] => m = j
    BY <1>9, <1>10 DEF Distinct
  <2>3. IsFiniteSet(T) /\ Cardinality(T) \in Nat
    BY <1>3, NamedFinite
  <2> HIDE DEF s, T
  <2>4. f \in Injection(1..Len(s), T)
    BY <2>1, <2>2 DEF Injection, IsInjective
  <2> HIDE DEF f
  <2>5. Cardinality(1..Len(s)) <= Cardinality(T)
    BY <2>3, <2>4, FS_Injection
  <2>6. Cardinality(1..Len(s)) = Len(s)
    <3>1. 1 \in Int /\ Len(s) \in Int /\ (1 > Len(s) => Len(s) = 0)
      BY <1>10 DEF s
    <3> QED
      BY <3>1, FS_Interval
  <2>7. i <= Len(s) /\ Len(s) \in Nat /\ i \in Nat
    BY <1>10 DEF s
  <2> QED
    BY <2>3, <2>5, <2>6, <2>7 DEF T
<1>16. TActs[n] = ActOn(lines, n) /\ DOMAIN TActs = 1..n
  BY <1>3 DEF ActsOn
<1> QED
  BY <1>3, <1>8, <1>9, <1>11, <1>12, <1>13, <1>14, <1>15, <1>16 DEF o

\* Of one frame: the local with this offset has a value if something is held there, ...
LEMMA HeldThere ==
  ASSUME NEW sub, Distinct(locals[sub]), NEW o \in Offsets, o \in Nat, o + 1 \in DOMAIN locals[sub],
         NEW held
  PROVE  LET name == locals[sub][o + 1]
         IN  /\ name \in DOMAIN LocalsOf(sub, held) <=> held[o] # {}
             /\ OffsetOf(locals[sub], name) = o
             /\ \A w \in Words : held[o] # {} /\ (\A v \in held[o] : v = w) =>
                  LocalsOf(sub, held)[name] = w
<1> DEFINE s == locals[sub]
           name == s[o + 1]
           kept == {m \in DOMAIN s : m - 1 \in Offsets /\ held[m - 1] # {}}
<1>1. \A m \in DOMAIN s : m \in Nat /\ (s[m] = name => m = o + 1)
  BY LenProperties DEF Distinct, IsSeq
<1> HIDE DEF s
<1>2. o + 1 - 1 = o /\ o + 1 \in DOMAIN s
  BY DEF s
<1>3. o + 1 \in kept <=> held[o] # {}
  BY <1>2
<1>4. name \in {s[m] : m \in kept} <=> o + 1 \in kept
  BY <1>1
<1>5. OffsetOf(s, name) = o
  <2>1. (CHOOSE m \in DOMAIN s : s[m] = name) = o + 1
    BY <1>1, <1>2
  <2>2. OffsetOf(s, name) = (CHOOSE m \in DOMAIN s : s[m] = name) - 1
    BY DEF OffsetOf
  <2>3. \A c : c = o + 1 => c - 1 = o
    BY <1>2
  <2> QED
    BY <2>1, <2>2, <2>3
<1>6. LocalsOf(sub, held) =
        [x \in {s[m] : m \in kept} |-> CHOOSE word \in Words : word \in held[OffsetOf(s, x)]]
  BY DEF LocalsOf, s
<1> HIDE DEF kept, name
<1>7. ASSUME NEW w \in Words, held[o] # {}, \A v \in held[o] : v = w
      PROVE  LocalsOf(sub, held)[name] = w
  <2>1. (CHOOSE word \in Words : word \in held[o]) = w
    BY <1>7
  <2> QED
    BY <1>3, <1>4, <1>5, <1>6, <1>7, <2>1
<1> QED
  BY <1>3, <1>4, <1>5, <1>6, <1>7 DEF name, s

\* ... and storing there changes that local and no other.
LEMMA HeldAfter ==
  ASSUME NEW sub, Distinct(locals[sub]), NEW o \in Offsets, o \in Nat, o + 1 \in DOMAIN locals[sub],
         NEW held, DOMAIN held = Offsets, NEW w \in Words
  PROVE  LET name == locals[sub][o + 1]
             before == LocalsOf(sub, held)
         IN  LocalsOf(sub, [held EXCEPT ![o] = {w}]) =
               [x \in DOMAIN before \cup {name} |-> IF x = name THEN w ELSE before[x]]
<1> DEFINE s == locals[sub]
           name == s[o + 1]
           after == [held EXCEPT ![o] = {w}]
           Kept(h) == {m \in DOMAIN s : m - 1 \in Offsets /\ h[m - 1] # {}}
           Names(h) == {s[m] : m \in Kept(h)}
           At(h, x) == CHOOSE word \in Words : word \in h[OffsetOf(s, x)]
<1>1. /\ \A m \in DOMAIN s : m \in Nat
      /\ \A m, j \in DOMAIN s : s[m] = s[j] => m = j
  BY LenProperties DEF Distinct, IsSeq
<1>2. \A h : LocalsOf(sub, h) = [x \in Names(h) |-> At(h, x)]
  BY DEF LocalsOf
<1>3. o + 1 \in DOMAIN s /\ o + 1 - 1 = o
  OBVIOUS
<1> HIDE DEF s
<1>4. /\ \A m \in DOMAIN s : m - 1 \in Offsets => (m - 1 = o <=> m = o + 1)
      /\ after[o] = {w} /\ \A j \in Offsets : j # o => after[j] = held[j]
  BY <1>1
<1> HIDE DEF after
<1>5. Kept(after) = Kept(held) \cup {o + 1}
  <2>1. \A m \in DOMAIN s :
          (m - 1 \in Offsets /\ after[m - 1] # {})
            <=> ((m - 1 \in Offsets /\ held[m - 1] # {}) \/ m = o + 1)
    <3> SUFFICES ASSUME NEW m \in DOMAIN s
                 PROVE  (m - 1 \in Offsets /\ after[m - 1] # {})
                          <=> ((m - 1 \in Offsets /\ held[m - 1] # {}) \/ m = o + 1)
      OBVIOUS
    <3>1. CASE m = o + 1
      BY <1>3, <1>4, <3>1
    <3>2. CASE m # o + 1
      BY <1>4, <3>2
    <3> QED
      BY <3>1, <3>2
  <2> QED
    BY <1>3, <2>1
<1>6. Names(after) = Names(held) \cup {name}
  BY <1>5
<1>7. \A m \in DOMAIN s : OffsetOf(s, s[m]) = m - 1
  <2> SUFFICES ASSUME NEW m \in DOMAIN s PROVE OffsetOf(s, s[m]) = m - 1
    OBVIOUS
  <2>1. (CHOOSE j \in DOMAIN s : s[j] = s[m]) = m
    BY <1>1
  <2> QED
    BY <2>1 DEF OffsetOf
<1>8. ASSUME NEW x \in Names(after)
      PROVE  At(after, x) = IF x = name THEN w ELSE At(held, x)
  <2>1. CASE x = name
    <3>1. OffsetOf(s, x) = o
      BY <1>3, <1>7, <2>1
    <3>2. (CHOOSE word \in Words : word \in {w}) = w
      OBVIOUS
    <3> QED
      BY <1>4, <2>1, <3>1, <3>2
  <2>2. CASE x # name
    <3>1. PICK m \in Kept(after) : x = s[m]
      OBVIOUS
    <3>2. m # o + 1 /\ m - 1 \in Offsets /\ m \in DOMAIN s
      BY <2>2, <3>1
    <3>3. OffsetOf(s, x) = m - 1 /\ m - 1 # o
      BY <1>4, <1>7, <3>1, <3>2
    <3>4. after[m - 1] = held[m - 1]
      BY <1>4, <3>2, <3>3
    <3> QED
      BY <2>2, <3>3, <3>4
  <2> QED
    BY <2>1, <2>2
<1> HIDE DEF Kept, Names, At, name
<1>9. LocalsOf(sub, after) = [x \in Names(held) \cup {name} |-> IF x = name THEN w ELSE At(held, x)]
  BY <1>2, <1>6, <1>8
<1>10. /\ DOMAIN LocalsOf(sub, held) = Names(held)
       /\ \A x \in Names(held) : LocalsOf(sub, held)[x] = At(held, x)
  BY <1>2
<1>11. LocalsOf(sub, after) =
         [x \in Names(held) \cup {name} |-> IF x = name THEN w ELSE LocalsOf(sub, held)[x]]
  BY <1>9, <1>10
<1> QED
  BY <1>10, <1>11 DEF after, name, s

\* The end of the thread, or of the process
LEMMA Ended ==
  ASSUME NEW lines, Under(lines), UNCHANGED <<assembly, code, ram, machine>>,
         running' = FALSE \/ status' = VM!THREAD_FREE
  PROVE  /\ ~Running' /\ TState = "running" /\ source' = source
         /\ TState' = "over" /\ THere' = 0 /\ TActs' = <<>> /\ TStack' = <<>>
<1>1. SeenOn(lines)
  BY SeenAlways DEF AllSeen
<1>2. machine = "executing" /\ file' = file /\ source' = source /\ Fresh /\ TState = "running"
  BY <1>1 DEF SeenOn, assembly, vars
<1>3. ~Executing'
  BY DEF Executing, VM!THREAD_FREE, VM!THREAD_ACTIVE
<1> QED
  BY <1>2, <1>3 DEF Running, TState, THere, TActs, TStack, Fresh

\* What is held of the local at this offset is in the frame, and no store or load
\* of it wraps around.
LEMMA FrameHas ==
  ASSUME NEW lines, Under(lines), NEW o \in Offsets, o \in Nat
  PROVE  LET frame == stack_frame[sfp]
         IN  /\ sfp \in VMP!Activations /\ sfp = csp + 1
             /\ frame.start \in Nat /\ frame.count \in Nat /\ THREAD_STACK_SIZE \in Nat
             /\ frame.start + frame.count <= THREAD_STACK_SIZE
             /\ VM!Address(o) = frame.start + o /\ (o + 1) % WORD_MOD = o + 1
             /\ (frame.start + frame.count) % WORD_MOD = frame.start + frame.count
             /\ stored \in [VMP!Activations -> [Offsets -> SUBSET Words]]
             /\ stack_frame \in [VMP!Activations -> VMP!Frames]
             /\ \A v \in stored[sfp][o] :
                  v \in Words /\ o < frame.count /\ ram_stack[frame.start + o] = v
<1>1. SeenOn(lines)
  BY SeenAlways DEF AllSeen
<1>2. VMP!TypeOK /\ VMP!LockStep /\ VMP!FramesApart /\ VMP!LocalsKept /\ status = VMP!THREAD_ACTIVE
  BY <1>1 DEF SeenOn, Under, MachineInv, VMP!FrameInv, VM!THREAD_ACTIVE, VMP!THREAD_ACTIVE
<1>3. /\ sfp \in VMP!Activations /\ sfp = csp + 1
      /\ stack_frame[sfp].start \in Nat /\ stack_frame[sfp].count \in Nat
  BY <1>2, VMP!FrameThere, FrameSizes
<1>4. /\ (stack_frame[sfp].start + stack_frame[sfp].count) % WORD_MOD
            = stack_frame[sfp].start + stack_frame[sfp].count
      /\ VMP!Address(o) = stack_frame[sfp].start + o /\ (o + 1) % WORD_MOD = o + 1
  BY <1>2, VMP!NoWrap, FrameSizes
<1>5. sfp \in 0..sfp
  BY <1>3, FrameSizes DEF VMP!Activations
<1>6. stack_frame[sfp].start + stack_frame[sfp].count <= THREAD_STACK_SIZE
  BY <1>2, <1>5 DEF VMP!FramesApart
<1>7. \A v \in stored[sfp][o] :
        o < stack_frame[sfp].count /\ ram_stack[stack_frame[sfp].start + o] = v
  BY <1>2, <1>5 DEF VMP!LocalsKept
<1>8. /\ stored \in [VMP!Activations -> [Offsets -> SUBSET Words]]
      /\ stack_frame \in [VMP!Activations -> VMP!Frames]
  BY <1>2 DEF VMP!TypeOK
<1>9. \A v \in stored[sfp][o] : v \in Words
  BY <1>3, <1>8
<1> QED
  BY <1>3, <1>4, <1>6, <1>7, <1>8, <1>9, SameVM, FrameSizes

\* LOAD_L finds under the offset what the activation has stored under the name.
LEMMA LoadsStep ==
  ASSUME NEW lines, Under(lines), MachineInv', TextInv', LOAD_L
  PROVE  (Running' => Keeps) /\ Text!Next
<1> DEFINE o == Operand(1)
<1>1. PICK n : n = sfp + 1
  OBVIOUS
<1>2. /\ Instruction({"LOAD_L"}, 0, 1)
      /\ \/ VM!LOAD_L(o) /\ Yields(0, <<ram_stack[VM!Address(o)]>>)
         \/ VM!LoadFails(o) /\ UNCHANGED stack
  BY DEF LOAD_L
<1>3. /\ Opcode = "LOAD_L" /\ UNCHANGED <<assembly, code, ram, machine>> /\ TStack = stack
      /\ source[THere].op = "LOAD_L"
      /\ ((source' = source /\ TState' = "running") => Does({"LOAD_L"}, 0, 1))
  BY <1>2, FetchedIs
<1>4. Fetches(Opcode) = 1 /\ Opcode \in LocalOps
  BY <1>3 DEF Fetches, StoresImmediate, StoresLocal, Pushes, Jumps, UsesLocal, LocalOps
<1> DEFINE sub == Owner(lines[n])
           name == Text!LocalToken(source[THere])
           held == stored[sfp]
<1> HIDE DEF o
<1>5. /\ o \in Offsets /\ o \in Nat /\ sub \in DOMAIN locals /\ Distinct(locals[sub])
      /\ o + 1 \in DOMAIN locals[sub] /\ locals[sub][o + 1] = name
      /\ Len(TActs) = n /\ TActs[n] = ActOn(lines, n) /\ n \in 1..n
  BY <1>1, <1>4, LocalHere DEF o
<1>6. LET frame == stack_frame[sfp]
      IN  /\ sfp \in VMP!Activations
          /\ frame.start \in Nat /\ frame.count \in Nat /\ THREAD_STACK_SIZE \in Nat
          /\ frame.start + frame.count <= THREAD_STACK_SIZE
          /\ VM!Address(o) = frame.start + o
          /\ \A v \in stored[sfp][o] :
               v \in Words /\ o < frame.count /\ ram_stack[frame.start + o] = v
  BY <1>5, FrameHas
<1>7. TActs[Len(TActs)].locals = LocalsOf(sub, held)
  <2>1. n - 1 = sfp
    BY <1>1, <1>6, FrameSizes DEF VMP!Activations
  <2> QED
    BY <1>5, <2>1 DEF ActOn
<1>8. /\ Holds(name) <=> held[o] # {}
      /\ \A w \in Words : held[o] # {} /\ (\A v \in held[o] : v = w) =>
           LocalsOf(sub, held)[name] = w
  BY <1>5, <1>7, HeldThere DEF Holds
<1>9. CASE VM!LOAD_L(o) /\ Yields(0, <<ram_stack[VM!Address(o)]>>)
  <2> DEFINE w == ram_stack[VM!Address(o)]
  <2>1. VM!Address(o) \in 0..(THREAD_STACK_SIZE - 1)
    BY <1>5, <1>6, <1>9 DEF VM!LOAD_L
  <2>2. w \in Words
    <3>1. ram_stack \in [0..(THREAD_STACK_SIZE - 1) -> Words \cup Residue]
      BY DEF Under, MachineInv, VMP!FrameInv, VMP!TypeOK
    <3>2. Residue \subseteq Words
      BY MachineAssumption
    <3> QED
      BY <2>1, <3>1, <3>2
  <2>3. Fetch(1 + Fetches(Opcode))
    BY <1>4, <1>9 DEF VM!LOAD_L, Fetch
  <2>4. Keeps /\ source' = source /\ TState' = "running" /\ TStack' = stack' /\ Proceeds /\ SameActs
    BY <1>3, <2>3, FetchesOn
  <2>5. Holds(name) => w = TActs[Len(TActs)].locals[name]
    <3>1. \A v \in held[o] : v = w
      BY <1>6
    <3> QED
      BY <1>7, <1>8, <2>2, <3>1
  <2>6. Leaves(0, <<w>>)
    BY <1>3, <1>9, <2>4 DEF Leaves, Yields, Depth
  <2> HIDE DEF w
  <2>7. Text!LoadLocal
    BY <1>3, <2>2, <2>4, <2>5, <2>6, LoadLocalStep
  <2> QED
    BY <2>4, <2>7 DEF Text!Next
<1>10. CASE VM!LoadFails(o)
  <2>1. running' = FALSE
    BY <1>10 DEF VM!LoadFails, VM!Exit
  <2>2. held[o] = {}
    <3>1. o >= stack_frame[sfp].count \/ VM!Address(o) >= THREAD_STACK_SIZE
      BY <1>10 DEF VM!LoadFails
    <3>2. ASSUME NEW v \in held[o] PROVE FALSE
      BY <1>5, <1>6, <3>1
    <3> QED
      BY <3>2
  <2>3. /\ ~Running' /\ TState = "running" /\ source' = source
        /\ TState' = "over" /\ THere' = 0 /\ TActs' = <<>> /\ TStack' = <<>>
    BY <1>3, <2>1, Ended
  <2>4. Text!Fails
    BY <1>3, <1>8, <2>2, <2>3, StopStep
  <2> QED
    BY <2>3, <2>4 DEF Text!Next
<1> QED
  BY <1>2, <1>9, <1>10

\* A store may fail when the locals of all activations do not fit in the frames.
LEMMA NoRoomStep ==
  ASSUME TState = "running", source' = source, THere' = 0, TActs' = <<>>, TStack' = <<>>,
         TState' = "over", source[THere].op \in {"STORE_L", "ISTORE_L"},
         THREAD_STACK_SIZE
           < Cardinality(UNION {{i} \X Text!NamedIn(TActs[i].sub) : i \in 1..Len(TActs)})
  PROVE  Text!Fails
<1>1. Text!Line = source[THere] /\ Text!Stop("over")
  BY DEF Text!Line, Text!Stop, TState, THere, TActs, TStack
<1>2. Text!NoRoom
  BY SameCardinality DEF Text!NoRoom, Text!Top, TActs
<1> QED
  BY <1>1, <1>2 DEF Text!Fails, TState

\* The frame under which a local is stored, and the line that comes next
LEMMA StoresOn ==
  ASSUME NEW lines, Under(lines), MachineInv', TextInv',
         UNCHANGED <<assembly, code, ram, machine>>,
         Opcode \in {"STORE_L", "ISTORE_L"}, NEW o, o = Operand(Fetches(Opcode)),
         NEW w \in Words, VM!LocalStore(1 + Fetches(Opcode), o, w)
  PROVE  /\ Keeps /\ source' = source /\ TState' = "running" /\ TStack' = stack' /\ Proceeds
         /\ Stores(Text!LocalToken(source[THere]), w)
<1>1. PICK n : n = sfp + 1
  OBVIOUS
<1> DEFINE k == lines[n]
           j == Text!NextLine(k)
           sub == Owner(k)
           name == Text!LocalToken(source[THere])
<1>2. SeenOn(lines) /\ Text!WellFormed
  BY SeenAlways DEF AllSeen, Under
<1>3. k \in CodeLines(source) /\ Opcode = source[k].op /\ pc = Before(k) /\ THere = k
      /\ source \in Seq(Lines)
  BY <1>1, <1>2 DEF SeenOn
<1>4. /\ o \in Offsets /\ o \in Nat /\ sub \in DOMAIN locals /\ Distinct(locals[sub])
      /\ o + 1 \in DOMAIN locals[sub] /\ locals[sub][o + 1] = name
      /\ o + 1 <= Cardinality(Text!NamedIn(sub))
      /\ n \in 1..n /\ Len(TActs) = n /\ TActs[n] = ActOn(lines, n) /\ DOMAIN TActs = 1..n
  <2>1. Opcode \in LocalOps
    BY DEF LocalOps, StoresLocal, UsesLocal
  <2> QED
    BY <1>1, <2>1, LocalHere
<1> HIDE DEF k
<1>5. j \in CodeLines(source) /\ Owner(j) = sub
      /\ Before(j) = Before(k) + 1 + Fetches(source[k].op)
  <2>1. /\ j \in CodeLines(source) /\ Owner(j) = Owner(k)
        /\ Before(j) = Before(k) + 1 + Len(source[k].args)
    BY <1>2, <1>3, LineBehind
  <2> QED
    BY <1>2, <1>3, <2>1, LineRules
<1> HIDE DEF j, sub, name
<1>6. /\ sfp \in VMP!Activations /\ (o + 1) % WORD_MOD = o + 1 /\ sfp = n - 1
      /\ stored \in [VMP!Activations -> [Offsets -> SUBSET Words]]
      /\ stack_frame \in [VMP!Activations -> VMP!Frames]
      /\ stack_frame[sfp].count \in Nat
  <2>1. /\ sfp \in VMP!Activations /\ (o + 1) % WORD_MOD = o + 1
        /\ stored \in [VMP!Activations -> [Offsets -> SUBSET Words]]
        /\ stack_frame \in [VMP!Activations -> VMP!Frames]
        /\ stack_frame[sfp].count \in Nat
    BY <1>4, FrameHas
  <2>2. sfp = n - 1
    BY <1>1, <2>1, FrameSizes DEF VMP!Activations
  <2> QED
    BY <2>1, <2>2
<1>7. /\ UNCHANGED <<status, running, csp, sfp, call_stack>>
      /\ pc' = pc + (1 + Fetches(Opcode))
      /\ stack_frame' = [stack_frame EXCEPT ![sfp] = VM!Grown(@, o)]
      /\ stored' = [stored EXCEPT ![sfp][o] = {w}]
  BY DEF VM!LocalStore
<1>8. pc' = Before(j)
  <2>1. Before(k) \in Nat /\ Fetches(Opcode) \in Nat
    BY <1>3 DEF Under, MachineInv, VMP!FrameInv, VMP!TypeOK, Fetches
  <2> QED
    BY <1>3, <1>5, <1>7, <2>1
<1> DEFINE grown == VM!Grown(stack_frame[sfp], o)
<1>9. /\ grown.start = stack_frame[sfp].start
      /\ grown.count = stack_frame[sfp].count \/ grown.count = o + 1
  <2>1. stack_frame[sfp] \in [start : Nat, count : Nat]
    BY <1>6 DEF VMP!Frames
  <2> QED
    BY <1>6, <2>1 DEF VM!Grown
<1> HIDE DEF grown
<1>10. \A i \in 1..n : i - 1 \in VMP!Activations /\ (i # n => i - 1 # sfp)
  BY <1>4, <1>6, FrameSizes DEF VMP!Activations
<1>11. \A i \in 1..n :
        /\ stack_frame'[i - 1] = IF i = n THEN grown ELSE stack_frame[i - 1]
        /\ stored'[i - 1] = IF i = n THEN [stored[sfp] EXCEPT ![o] = {w}] ELSE stored[i - 1]
  <2> SUFFICES ASSUME NEW i \in 1..n
               PROVE  /\ stack_frame'[i - 1] = IF i = n THEN grown ELSE stack_frame[i - 1]
                      /\ stored'[i - 1] = IF i = n THEN [stored[sfp] EXCEPT ![o] = {w}]
                                          ELSE stored[i - 1]
    OBVIOUS
  <2>1. i - 1 \in VMP!Activations /\ (i = n <=> i - 1 = sfp)
    BY <1>6, <1>10
  <2>2. stack_frame'[i - 1] = IF i - 1 = sfp THEN grown ELSE stack_frame[i - 1]
    BY <1>6, <1>7, <2>1 DEF grown
  <2>3. stored'[i - 1] = IF i - 1 = sfp THEN [stored[sfp] EXCEPT ![o] = {w}] ELSE stored[i - 1]
    BY <1>6, <1>7, <2>1
  <2> QED
    BY <2>1, <2>2, <2>3
<1>12. \A i \in 1..n :
         /\ stack_frame'[i - 1].start = stack_frame[i - 1].start
         /\ i # n => stack_frame'[i - 1] = stack_frame[i - 1] /\ stored'[i - 1] = stored[i - 1]
  BY <1>6, <1>9, <1>11
<1>13. stack_frame'[n - 1].count <= Cardinality(Text!NamedIn(Owner(j)))
  <2>1. stack_frame[sfp].count <= Cardinality(Text!NamedIn(sub))
    BY <1>1, <1>4, <1>6 DEF Under, Path, k, sub
  <2>2. stack_frame'[n - 1] = grown
    BY <1>4, <1>11
  <2> QED
    BY <1>4, <1>5, <1>9, <2>1, <2>2
<1>14. /\ Keeps
       /\ TState' = "running" /\ TStack' = stack' /\ THere' = j
       /\ TActs' = [TActs EXCEPT ![Len(TActs)].locals = LocalsOf(Owner(j), stored'[n - 1])]
  <2>1. Owner(j) = Owner(lines[n])
    BY <1>5 DEF sub, k
  <2>2. UNCHANGED <<assembly, code, ram, machine, status, running, csp, sfp, call_stack>>
    BY <1>7
  <2>3. PICK m \in CodeLines(source) : m = j
    BY <1>5
  <2>4. /\ Under([lines EXCEPT ![n] = m])'
        /\ TState' = "running" /\ TStack' = stack' /\ THere' = m
        /\ TActs' = [TActs EXCEPT ![Len(TActs)].locals = LocalsOf(Owner(m), stored'[n - 1])]
    <3>1. Owner(m) = Owner(lines[n]) /\ pc' = Before(m)
      BY <1>8, <2>1, <2>3
    <3>2. stack_frame'[n - 1].count <= Cardinality(Text!NamedIn(Owner(m)))
      BY <1>13, <2>3
    <3> QED
      BY <1>1, <1>12, <2>2, <3>1, <3>2, GoesOn
  <2> QED
    BY <2>3, <2>4 DEF Keeps
<1>15. source' = source
  BY DEF assembly, vars
<1>16. Stores(name, w)
  <2> DEFINE before == LocalsOf(sub, stored[sfp])
             after == LocalsOf(sub, stored'[n - 1])
  <2>1. after = [x \in DOMAIN before \cup {name} |-> IF x = name THEN w ELSE before[x]]
    <3>1. DOMAIN stored[sfp] = Offsets
      BY <1>6
    <3>2. stored'[n - 1] = [stored[sfp] EXCEPT ![o] = {w}]
      BY <1>4, <1>11
    <3>3. LocalsOf(sub, [stored[sfp] EXCEPT ![o] = {w}]) =
            [x \in DOMAIN before \cup {locals[sub][o + 1]} |->
               IF x = locals[sub][o + 1] THEN w ELSE before[x]]
      BY <1>4, <3>1, HeldAfter
    <3> HIDE DEF before
    <3> QED
      BY <1>4, <3>2, <3>3
  <2>2. TActs[n].locals = before
    BY <1>4, <1>6 DEF ActOn, sub, k
  <2>3. TActs' = [TActs EXCEPT ![n].locals = after]
    BY <1>4, <1>5, <1>14
  <2> HIDE DEF before, after
  <2> QED
    BY <1>4, <2>1, <2>2, <2>3 DEF Stores
<1> QED
  BY <1>3, <1>14, <1>15, <1>16 DEF Keeps, Proceeds, name, j

\* There is no room for a local if there is none for all that may be named.
LEMMA StoreFails ==
  ASSUME NEW lines, Under(lines), UNCHANGED <<assembly, code, ram, machine>>,
         Opcode \in {"STORE_L", "ISTORE_L"}, NEW o, o = Operand(Fetches(Opcode)),
         VM!LocalStoreFails(1 + Fetches(Opcode), o)
  PROVE  ~Running' /\ Text!Fails
<1>1. PICK n : n = sfp + 1
  OBVIOUS
<1> DEFINE sub == Owner(lines[n])
           start == stack_frame[sfp].start
<1>2. SeenOn(lines)
  BY SeenAlways DEF AllSeen
<1>3. source \in Seq(Lines) /\ source[THere].op = Opcode /\ TActs = ActsOn(lines) /\ sfp + 1 = n
  BY <1>1, <1>2 DEF SeenOn
<1>4. /\ o \in Offsets /\ o \in Nat
      /\ o + 1 <= Cardinality(Text!NamedIn(sub))
      /\ n \in 1..n /\ Len(TActs) = n
  <2>1. Opcode \in LocalOps
    BY DEF LocalOps, StoresLocal, UsesLocal
  <2> QED
    BY <1>1, <2>1, LocalHere
<1>5. start \in Nat /\ THREAD_STACK_SIZE \in Nat /\ VM!Address(o) = start + o /\ sfp \in Nat
  <2>1. sfp \in VMP!Activations
    BY <1>4, FrameHas
  <2> QED
    BY <1>4, <2>1, FrameHas, FrameSizes DEF VMP!Activations
<1>6. VM!Address(o) >= THREAD_STACK_SIZE /\ running' = FALSE
  BY DEF VM!LocalStoreFails, VM!Exit
<1>7. lines \in [1..n -> CodeLines(source)] /\ start <= Room(lines, n - 1)
  <2>1. sfp = n - 1
    BY <1>1, <1>5
  <2> QED
    BY <1>1, <1>4, <2>1 DEF Under, Path
<1>8. /\ Room(lines, n) = Room(lines, n - 1) + Cardinality(Text!NamedIn(sub))
      /\ Room(lines, n) \in Nat /\ Room(lines, n - 1) \in Nat
  <2>1. n \in Nat /\ DOMAIN lines = 1..n /\ n \in 0..n /\ n - 1 \in 0..n
    BY <1>4, <1>5, <1>3, <1>7
  <2> QED
    BY <1>3, <1>4, <2>1, RoomAdds
<1>9. THREAD_STACK_SIZE < Room(lines, n)
  <2>1. Cardinality(Text!NamedIn(sub)) \in Nat
    BY <1>3, NamedFinite
  <2> HIDE DEF sub, start
  <2> QED
    BY <1>4, <1>5, <1>6, <1>7, <1>8, <2>1
<1>10. Room(lines, n)
         = Cardinality(UNION {{i} \X Text!NamedIn(TActs[i].sub) : i \in 1..Len(TActs)})
  <2>1. \A i \in 1..n : NamesOn(lines)[i] = Text!NamedIn(TActs[i].sub)
    BY <1>3, <1>7 DEF NamesOn, ActsOn, ActOn
  <2>2. Tagged(NamesOn(lines), 1..n) = UNION {{i} \X Text!NamedIn(TActs[i].sub) : i \in 1..n}
    BY <2>1 DEF Tagged
  <2> QED
    BY <1>4, <2>2 DEF Room
<1>11. /\ ~Running' /\ TState = "running" /\ source' = source
       /\ TState' = "over" /\ THere' = 0 /\ TActs' = <<>> /\ TStack' = <<>>
  BY <1>6, Ended
<1> QED
  BY <1>3, <1>9, <1>10, <1>11, NoRoomStep

\* A local store changes the one local of the activation that has its offset, or
\* fails where the frames are full.
LEMMA StoresStep ==
  ASSUME NEW lines, Under(lines), MachineInv', TextInv', STORE_L \/ ISTORE_L
  PROVE  (Running' => Keeps) /\ Text!Next
<1>1. SeenOn(lines) /\ MachineInv /\ TextInv /\ Text!WellFormed
  BY SeenAlways DEF AllSeen, Under
<1>2. machine = "executing" /\ Fresh /\ THere = lines[sfp + 1] /\ pc = Before(THere)
  BY <1>1 DEF SeenOn
<1>3. CASE STORE_L
  <2>1. /\ Instruction({"STORE_L"}, 1, 0) /\ Yields(1, <<>>)
        /\ VM!LocalStore(2, Operand(1), stack[Depth]) \/ VM!LocalStoreFails(2, Operand(1))
    BY <1>3 DEF STORE_L
  <2>2. Opcode = "STORE_L" /\ UNCHANGED <<assembly, code, ram, machine>> /\ TStack = stack
        /\ ((source' = source /\ TState' = "running") => Does({"STORE_L"}, 1, 0))
        /\ Len(stack) \in Nat /\ 1 <= Len(stack)
    BY <2>1, FetchedIs
  <2>3. Fetches(Opcode) = 1 /\ 1 + Fetches(Opcode) = 2
    BY <2>2 DEF Fetches, StoresImmediate, StoresLocal, Pushes, Jumps, UsesLocal
  <2>4. stack[Depth] \in Words /\ stack[Depth] = TStack[Len(TStack)]
    <3>1. stack \in Seq(Words) /\ Depth \in 1..Len(stack)
      BY <1>1, <2>2 DEF MachineInv, Depth
    <3> QED
      BY <2>2, <3>1, ElementOfSeq DEF Depth
  <2>5. CASE VM!LocalStore(2, Operand(1), stack[Depth])
    <3>1. PICK o, w : o = Operand(1) /\ w = stack[Depth]
      OBVIOUS
    <3>2. /\ Keeps /\ source' = source /\ TState' = "running" /\ TStack' = stack' /\ Proceeds
          /\ Stores(Text!LocalToken(source[THere]), w)
      BY <2>2, <2>3, <2>4, <2>5, <3>1, StoresOn
    <3>3. Leaves(1, <<>>)
      BY <2>1, <2>2, <3>2 DEF Leaves, Yields, Depth
    <3>4. Text!StoreLocal
      BY <2>2, <2>4, <3>1, <3>2, <3>3, StoreLocalStep
    <3> QED
      BY <3>2, <3>4 DEF Text!Next
  <2>6. CASE VM!LocalStoreFails(2, Operand(1))
    <3>1. PICK o : o = Operand(1)
      OBVIOUS
    <3>2. ~Running' /\ Text!Fails
      BY <2>2, <2>3, <2>6, <3>1, StoreFails
    <3> QED
      BY <3>2 DEF Text!Next
  <2> QED
    BY <2>1, <2>5, <2>6
<1>4. CASE ISTORE_L
  <2>1. /\ Instruction({"ISTORE_L"}, 0, 0) /\ UNCHANGED stack
        /\ VM!LocalStore(3, Operand(2), Operand(1)) \/ VM!LocalStoreFails(3, Operand(2))
    BY <1>4 DEF ISTORE_L
  <2>2. Opcode = "ISTORE_L" /\ UNCHANGED <<assembly, code, ram, machine>> /\ TStack = stack
        /\ source[THere].op = "ISTORE_L" /\ THere \in CodeLines(source)
        /\ ((source' = source /\ TState' = "running") => Does({"ISTORE_L"}, 0, 0))
    BY <2>1, FetchedIs
  <2>3. Fetches(Opcode) = 2 /\ 1 + Fetches(Opcode) = 3
    BY <2>2 DEF Fetches, StoresLocal
  <2>4. Operand(1) = Numerals[source[THere].args[1]] % WORD_MOD
    <3>1. code[Before(THere) + 1 + 1].val = Numerals[source[THere].args[1]]
      BY <1>1, <1>2, <2>2, LineInCode
    <3> QED
      BY <1>2, <3>1 DEF Operand
  <2>5. Operand(1) \in Words
    <3>1. "operand" \notin {"ISTORE_L"}
      OBVIOUS
    <3>2. \A n \in 1..Fetches(Opcode) : Operand(n) \in Words
      BY <1>1, <2>1, <3>1, OperandThere
    <3> QED
      BY <2>3, <3>2
  <2>6. CASE VM!LocalStore(3, Operand(2), Operand(1))
    <3>1. PICK o, w : o = Operand(2) /\ w = Operand(1)
      OBVIOUS
    <3>2. /\ Keeps /\ source' = source /\ TState' = "running" /\ TStack' = stack' /\ Proceeds
          /\ Stores(Text!LocalToken(source[THere]), w)
      BY <2>2, <2>3, <2>5, <2>6, <3>1, StoresOn
    <3>3. TStack' = TStack
      BY <2>1, <2>2, <3>2
    <3>4. Text!StoreImmediate
      BY <2>2, <2>4, <3>1, <3>2, <3>3, StoreImmediateStep
    <3> QED
      BY <3>2, <3>4 DEF Text!Next
  <2>7. CASE VM!LocalStoreFails(3, Operand(2))
    <3>1. PICK o : o = Operand(2)
      OBVIOUS
    <3>2. ~Running' /\ Text!Fails
      BY <2>2, <2>3, <2>7, <3>1, StoreFails
    <3> QED
      BY <3>2 DEF Text!Next
  <2> QED
    BY <2>1, <2>6, <2>7
<1> QED
  BY <1>3, <1>4

----------------------------------------------------------------------------
(* Subroutines.                                                             *)

\* A sequence with one more at its end
LEMMA Appended ==
  ASSUME NEW n \in Nat, NEW f, f = [i \in 1..n |-> f[i]], NEW e
  PROVE  Append(f, e) = [i \in 1..(n + 1) |-> IF i = n + 1 THEN e ELSE f[i]]
<1> DEFINE S == {f[i] : i \in 1..n} \cup {e}
           g == Append(f, e)
<1>1. f \in [1..n -> S] /\ e \in S
  OBVIOUS
<1> HIDE DEF S
<1>2. f \in Seq(S) /\ Len(f) = n
  BY <1>1, FunctionIsSeq, FirstNumbers
<1>3. /\ g \in Seq(S) /\ Len(g) = n + 1 /\ g[n + 1] = e
      /\ \A i \in 1..n : g[i] = f[i]
  BY <1>1, <1>2, AppendProperties
<1> HIDE DEF g
<1>4. DOMAIN g = 1..(n + 1) /\ g = [i \in DOMAIN g |-> g[i]]
  BY <1>3, LenProperties
<1>5. \A i \in 1..(n + 1) : g[i] = IF i = n + 1 THEN e ELSE f[i]
  BY <1>3
<1> QED
  BY <1>4, <1>5 DEF g

\* The first activations of the longer of two stacks, and what they see
LEMMA SameBelow ==
  ASSUME UNCHANGED <<assembly, code, ram, machine>>, NEW lines, NEW other, NEW n \in Nat,
         \A i \in 1..n : /\ Owner(other[i]) = Owner(lines[i]) /\ (i # n => other[i] = lines[i])
                         /\ stored'[i - 1] = stored[i - 1]
  PROVE  \A i \in 1..n : ActOn(other, i)' = ActOn(lines, i)
<1> SUFFICES ASSUME NEW i \in 1..n PROVE ActOn(other, i)' = ActOn(lines, i)
  OBVIOUS
<1>1. source' = source /\ locals' = locals
  BY DEF assembly, vars
<1>2. \A k : Text!NextLine(k)' = Text!NextLine(k)
  BY <1>1 DEF Text!NextLine
<1>3. \A sub, held : LocalsOf(sub, held)' = LocalsOf(sub, held)
  BY <1>1 DEF LocalsOf
<1>4. i # 1 => i - 1 \in 1..n /\ i - 1 # n
  OBVIOUS
<1> QED
  BY <1>1, <1>2, <1>3, <1>4, SameRules DEF ActOn

\* A call stands on the first line of the callee, with a frame of its own that
\* begins where the room of the others may end.
LEMMA CallsOn ==
  ASSUME NEW lines, Under(lines), MachineInv', TextInv',
         UNCHANGED <<assembly, code, ram, machine>>,
         Opcode = "CALL", VM!CALL(Operand(1)), NEW n, n = sfp + 1
  PROVE  /\ Keeps /\ source' = source /\ TState' = "running" /\ TStack' = stack'
         /\ Len(TActs) <= CALL_STACK_MEM
         /\ THere' = Text!FirstOf(Text!BodyOf(source[THere].args[1]))
         /\ TActs' = Append(TActs, [sub |-> source[THere].args[1], locals |-> [x \in {} |-> 0],
                                    back |-> Text!NextLine(THere)])
<1>1. SeenOn(lines) /\ MachineInv /\ TextInv /\ Text!WellFormed
  BY SeenAlways DEF AllSeen, Under
<1>2. PICK k \in CodeLines(source) : k = lines[n]
  BY <1>1 DEF SeenOn
<1>3. /\ machine = "executing" /\ Fresh /\ source \in Seq(Lines) /\ source[k].op = "CALL"
      /\ pc = Before(k) /\ THere = k /\ n \in 1..n /\ n \in Nat
      /\ Len(TActs) = n /\ TActs = [i \in 1..n |-> ActOn(lines, i)] /\ sfp = n - 1 /\ sfp = csp + 1
  BY <1>1, <1>2 DEF SeenOn, ActsOn
<1>0. n \in Nat /\ n >= 1 /\ csp \in Int /\ csp + 1 = n - 1 /\ sfp + 1 = n /\ sfp = n - 1
  <2>1. sfp \in Nat /\ sfp = csp + 1
    BY <1>1 DEF SeenOn
  <2>2. csp \in Int
    BY <1>1, FrameSizes DEF MachineInv, VMP!FrameInv, VMP!TypeOK
  <2> QED
    BY <2>1, <2>2
<1>4. PICK j : j = TargetLine(k)
  OBVIOUS
<1>5. j \in CodeLines(source) /\ Owner(j) = source[k].args[1]
  BY <1>1, <1>3, <1>4, TargetThere DEF Jumps
<1>6. Before(k) \in Nat /\ Operand(1) = Before(j)
  <2>1. code[Before(k) + 1 + 1].val = Before(j) /\ Before(k) \in Nat
    BY <1>1, <1>3, <1>4, LineInCode DEF Jumps
  <2>2. Before(j) % WORD_MOD = Before(j)
    BY <1>1, <1>3, <1>5, LineInCode
  <2> QED
    BY <1>3, <2>1, <2>2 DEF Operand
<1>7. /\ csp < CALL_STACK_MEM - 1 /\ sfp < THREAD_STACK_SIZE - 1
      /\ call_stack' = [call_stack EXCEPT ![csp + 1] = pc + 2]
      /\ stack_frame' = [stack_frame EXCEPT ![sfp + 1] = VM!NextFrame(stack_frame[sfp])]
      /\ csp' = csp + 1 /\ sfp' = sfp + 1
      /\ pc' = Before(j)
      /\ stored' = [stored EXCEPT ![sfp + 1] = VM!Nothing]
      /\ UNCHANGED <<status, ram_stack, running>>
  BY <1>6 DEF VM!CALL, VM!CallRoom
<1>8. /\ call_stack \in [0..(CALL_STACK_MEM - 1) -> Nat]
      /\ stack_frame \in [VMP!Activations -> VMP!Frames]
      /\ stored \in [VMP!Activations -> [Offsets -> SUBSET Words]]
      /\ CALL_STACK_MEM \in Nat /\ THREAD_STACK_SIZE \in Nat
      /\ VMP!Activations = 0..(THREAD_STACK_SIZE - 1)
  BY <1>1, FrameSizes DEF MachineInv, VMP!FrameInv, VMP!TypeOK, VMP!Activations
<1> DEFINE longer == [i \in 1..(n + 1) |-> IF i = n + 1 THEN j ELSE lines[i]]
<1>9. lines \in [1..n -> CodeLines(source)]
  BY <1>3 DEF Under, Path
<1>10. /\ longer \in [1..(n + 1) -> CodeLines(source)] /\ longer[n + 1] = j
       /\ \A i \in 1..n : longer[i] = lines[i]
  BY <1>3, <1>5, <1>9
<1> HIDE DEF longer
<1>11. source' = source /\ locals' = locals /\ Running' /\ Text!WellFormed'
  BY <1>1, <1>7, SameRules DEF Under, Running, Executing, Fresh, assembly, vars
<1>12. /\ \A i \in 1..n : /\ stack_frame'[i - 1] = stack_frame[i - 1]
                          /\ stored'[i - 1] = stored[i - 1]
       /\ stack_frame'[n] = VM!NextFrame(stack_frame[sfp]) /\ stored'[n] = VM!Nothing
       /\ call_stack'[n - 1] = Before(k) + 2
       /\ \A i \in 1..sfp : call_stack'[i - 1] = call_stack[i - 1]
  <2>1. n \in VMP!Activations /\ n - 1 \in 0..(CALL_STACK_MEM - 1) /\ sfp + 1 = n
        /\ csp + 1 = n - 1
    BY <1>0, <1>7, <1>8
  <2>2. /\ \A i \in 1..n : i - 1 \in VMP!Activations /\ i - 1 # n
        /\ \A i \in 1..sfp : i - 1 \in 0..(CALL_STACK_MEM - 1) /\ i - 1 # n - 1
    BY <1>3, <1>8, <2>1
  <2>3. stack_frame' = [stack_frame EXCEPT ![n] = VM!NextFrame(stack_frame[sfp])]
        /\ stored' = [stored EXCEPT ![n] = VM!Nothing]
        /\ call_stack' = [call_stack EXCEPT ![n - 1] = pc + 2]
    BY <1>7, <2>1
  <2> QED
    BY <1>3, <1>8, <2>1, <2>2, <2>3
<1>13. /\ \A i \in 0..n : Room(longer, i) = Room(lines, i)
       /\ \A i : Room(longer, i)' = Room(longer, i)
  <2>1. ASSUME NEW i \in 0..n PROVE Room(longer, i) = Room(lines, i)
    <3>1. \A m \in 1..i : m \in DOMAIN lines /\ m \in DOMAIN longer /\ Owner(longer[m]) = Owner(lines[m])
      BY <1>3, <1>9, <1>10
    <3> QED
      BY <3>1, RoomSame
  <2> QED
    BY <1>11, <2>1, SameRules DEF Room, NamesOn
<1>14. /\ stack_frame'[n].start <= Room(longer, n) /\ stack_frame'[n].count = 0
       /\ Cardinality(Text!NamedIn(Owner(j))) \in Nat
  <2> DEFINE s == stack_frame[sfp].start
             c == stack_frame[sfp].count
             m == Cardinality(Text!NamedIn(Owner(lines[n])))
  <2>1. s \in Nat /\ c \in Nat /\ (s + c) % WORD_MOD = s + c
    BY <1>1, VMP!FrameThere, VMP!NoWrap, FrameSizes
       DEF SeenOn, MachineInv, VMP!FrameInv, VM!THREAD_ACTIVE, VMP!THREAD_ACTIVE
  <2>2. s <= Room(lines, n - 1) /\ c <= m
    BY <1>3 DEF Under, Path
  <2>3. n \in 1..n /\ DOMAIN lines = 1..n /\ n - 1 \in 0..n
    BY <1>3, <1>9
  <2>4. Room(lines, n) = Room(lines, n - 1) + m /\ Room(lines, n - 1) \in Nat
    BY <1>3, <2>3, RoomAdds
  <2>5. m \in Nat /\ Cardinality(Text!NamedIn(Owner(j))) \in Nat
    BY <1>3, NamedFinite
  <2>6. stack_frame'[n].start = s + c /\ stack_frame'[n].count = 0
    BY <1>12, <2>1 DEF VM!NextFrame
  <2>7. Room(longer, n) = Room(lines, n)
    BY <1>3, <1>13
  <2> HIDE DEF s, c, m
  <2> QED
    BY <2>1, <2>2, <2>4, <2>5, <2>6, <2>7
<1>15. Path(longer)'
  <2>1. sfp' = n /\ sfp' + 1 = n + 1 /\ CodeLines(source)' = CodeLines(source)
    BY <1>3, <1>7, <1>11
  <2>2. ASSUME NEW i \in 1..n
        PROVE  source[longer[i]].op = "CALL" /\ call_stack'[i - 1] = Before(longer[i]) + 2
    <3>1. CASE i = n
      BY <1>2, <1>3, <1>10, <1>12, <3>1
    <3>2. CASE i # n
      <4>1. i \in 1..sfp
        BY <1>3, <3>2
      <4> QED
        BY <1>10, <1>12, <4>1 DEF Under, Path
    <3> QED
      BY <3>1, <3>2
  <2>3. ASSUME NEW i \in 1..(n + 1)
        PROVE  /\ stack_frame'[i - 1].start <= Room(longer, i - 1)
               /\ stack_frame'[i - 1].count <= Cardinality(Text!NamedIn(Owner(longer[i])))
    <3>1. CASE i = n + 1
      <4>1. i - 1 = n
        BY <1>0, <3>1
      <4> QED
        BY <1>10, <1>14, <3>1, <4>1
    <3>2. CASE i # n + 1
      <4>1. i \in 1..n /\ i \in 1..(sfp + 1) /\ i - 1 \in 0..n
        BY <1>3, <3>2
      <4>2. /\ stack_frame[i - 1].start <= Room(lines, i - 1)
            /\ stack_frame[i - 1].count <= Cardinality(Text!NamedIn(Owner(lines[i])))
        BY <4>1 DEF Under, Path
      <4> QED
        BY <1>10, <1>12, <1>13, <4>1, <4>2
    <3> QED
      BY <3>1, <3>2
  <2> QED
    BY <1>7, <1>10, <1>11, <1>13, <2>1, <2>2, <2>3, SameRules DEF Path
<1>16. Under(longer)'
  BY <1>11, <1>15 DEF Under
<1>17. SeenOn(longer)'
  BY <1>16, SeenNext DEF AllSeen
<1>18. TState' = "running" /\ TStack' = stack' /\ THere' = j
       /\ TActs' = [i \in 1..(n + 1) |-> ActOn(longer, i)']
  <2>1. sfp' + 1 = n + 1
    BY <1>3, <1>7
  <2> QED
    BY <1>10, <1>17, <2>1 DEF SeenOn, ActsOn
<1>19. ActOn(longer, n + 1)' = [sub |-> source[THere].args[1], locals |-> [x \in {} |-> 0],
                                back |-> Text!NextLine(THere)]
  <2>1. LocalsOf(Owner(j), VM!Nothing)' = [x \in {} |-> 0]
    BY DEF LocalsOf, VM!Nothing
  <2>2. stored'[n + 1 - 1] = VM!Nothing /\ n + 1 # 1 /\ longer[n + 1 - 1] = k
    BY <1>2, <1>3, <1>10, <1>12
  <2>3. Text!NextLine(k)' = Text!NextLine(k) /\ Owner(j)' = source[THere].args[1]
    BY <1>3, <1>5, <1>11, SameRules DEF Text!NextLine
  <2>4. VM!Nothing' = VM!Nothing
    BY DEF VM!Nothing
  <2> QED
    BY <1>3, <1>10, <2>1, <2>2, <2>3, <2>4 DEF ActOn
<1>20. \A i \in 1..n : ActOn(longer, i)' = TActs[i]
  <2>1. \A i \in 1..n : ActOn(longer, i)' = ActOn(lines, i)
    BY <1>3, <1>10, <1>12, SameBelow
  <2> QED
    BY <1>3, <2>1
<1>21. TActs' = Append(TActs, [sub |-> source[THere].args[1], locals |-> [x \in {} |-> 0],
                               back |-> Text!NextLine(THere)])
  <2> DEFINE e == [sub |-> source[THere].args[1], locals |-> [x \in {} |-> 0],
                   back |-> Text!NextLine(THere)]
  <2>1. TActs = [i \in 1..n |-> TActs[i]]
    BY <1>3
  <2>2. ActOn(longer, n + 1)' = e
    BY <1>19
  <2> HIDE DEF e
  <2>3. \A i \in 1..(n + 1) : ActOn(longer, i)' = IF i = n + 1 THEN e ELSE TActs[i]
    BY <1>20, <1>3, <2>2
  <2>4. TActs' = [i \in 1..(n + 1) |-> IF i = n + 1 THEN e ELSE TActs[i]]
    BY <1>18, <2>3
  <2>5. Append(TActs, e) = [i \in 1..(n + 1) |-> IF i = n + 1 THEN e ELSE TActs[i]]
    <3>1. n \in Nat
      BY <1>0
    <3>2. \A f : f = [i \in 1..n |-> f[i]] =>
            Append(f, e) = [i \in 1..(n + 1) |-> IF i = n + 1 THEN e ELSE f[i]]
      BY <3>1, Appended
    <3> QED
      BY <2>1, <3>2, Zenon
  <2> QED
    BY <2>4, <2>5 DEF e
<1>22. Len(TActs) <= CALL_STACK_MEM
  <2>1. n <= CALL_STACK_MEM
    BY <1>0, <1>7, <1>8
  <2> QED
    BY <1>3, <2>1
<1>23. j = Text!FirstOf(Text!BodyOf(source[THere].args[1]))
  BY <1>3, <1>4 DEF TargetLine
<1> QED
  BY <1>11, <1>16, <1>18, <1>21, <1>22, <1>23 DEF Keeps

\* A return stands behind the CALL of the frame below.
LEMMA ReturnsOn ==
  ASSUME NEW lines, Under(lines), MachineInv', TextInv',
         UNCHANGED <<assembly, code, ram, machine>>,
         Opcode = "RET", VM!RET, NEW n, n = sfp + 1
  PROVE  /\ Keeps /\ source' = source /\ TState' = "running" /\ TStack' = stack'
         /\ Len(TActs) > 1 /\ THere' = TActs[Len(TActs)].back
         /\ TActs' = SubSeq(TActs, 1, Len(TActs) - 1)
<1>1. SeenOn(lines) /\ MachineInv /\ TextInv /\ Text!WellFormed
  BY SeenAlways DEF AllSeen, Under
<1>2. /\ csp >= 0 /\ pc' = call_stack[csp] /\ csp' = csp - 1 /\ sfp' = sfp - 1
      /\ UNCHANGED <<status, call_stack, stack_frame, ram_stack, running, stored>>
  <2>1. sfp >= 0 /\ running = TRUE
    BY <1>1 DEF SeenOn, VM!RET, VM!Fetched
  <2>2. running' = TRUE
    BY <2>1 DEF VM!RET
  <2> QED
    BY <2>1, <2>2 DEF VM!RET
<1>3. PICK m : m = n - 1
  OBVIOUS
<1>4. m \in Nat /\ m >= 1 /\ m \in 1..m /\ n = m + 1 /\ sfp = m /\ csp = m - 1 /\ m \in 1..n
  <2>1. sfp \in Nat /\ sfp = csp + 1
    BY <1>1 DEF SeenOn
  <2>2. csp \in Int
    BY <1>1, FrameSizes DEF MachineInv, VMP!FrameInv, VMP!TypeOK
  <2> QED
    BY <1>2, <1>3, <2>1, <2>2
<1>5. /\ machine = "executing" /\ Fresh /\ source \in Seq(Lines)
      /\ Len(TActs) = n /\ TActs = [i \in 1..n |-> ActOn(lines, i)]
      /\ lines \in [1..n -> CodeLines(source)]
  BY <1>1 DEF SeenOn, ActsOn, Under, Path
<1>6. PICK k \in CodeLines(source) : k = lines[m]
  BY <1>4, <1>5
<1>7. source[k].op = "CALL" /\ call_stack[m - 1] = Before(k) + 2 /\ Before(k) \in Nat
  <2>1. m \in 1..sfp
    BY <1>4
  <2> QED
    BY <1>1, <1>5, <1>6, <2>1, LineInCode DEF Under, Path
<1>8. PICK j : j = Text!NextLine(k)
  OBVIOUS
<1>9. j \in CodeLines(source) /\ Owner(j) = Owner(k) /\ Before(j) = Before(k) + 2
  <2>1. source[k].op \notin {"RET", "HALT", "JUMP"}
    BY <1>7
  <2>2. /\ j \in CodeLines(source) /\ Owner(j) = Owner(k)
        /\ Before(j) = Before(k) + 1 + Len(source[k].args)
    BY <1>1, <1>5, <1>8, <2>1, LineBehind
  <2>3. Len(source[k].args) = 1
    BY <1>1, <1>5, <1>7, LineRules DEF Fetches, Jumps, StoresImmediate, StoresLocal
  <2> QED
    BY <1>7, <2>2, <2>3
<1> DEFINE shorter == [i \in 1..m |-> IF i = m THEN j ELSE lines[i]]
<1>10. /\ shorter \in [1..m -> CodeLines(source)] /\ shorter[m] = j
       /\ \A i \in 1..m : Owner(shorter[i]) = Owner(lines[i]) /\ (i # m => shorter[i] = lines[i])
  <2>1. \A i \in 1..m : i \in 1..n
    BY <1>4
  <2> QED
    BY <1>4, <1>5, <1>6, <1>9, <2>1
<1> HIDE DEF shorter
<1>11. source' = source /\ Running' /\ Text!WellFormed'
  BY <1>1, <1>2, SameRules DEF Under, Running, Executing, Fresh, assembly, vars
<1>12. /\ \A i \in 0..m : Room(shorter, i) = Room(lines, i)
       /\ \A i : Room(shorter, i)' = Room(shorter, i)
  <2>1. ASSUME NEW i \in 0..m PROVE Room(shorter, i) = Room(lines, i)
    <3>1. \A l \in 1..i : l \in DOMAIN lines /\ l \in DOMAIN shorter /\ Owner(shorter[l]) = Owner(lines[l])
      BY <1>4, <1>5, <1>10
    <3> QED
      BY <3>1, RoomSame
  <2> QED
    BY <1>11, <2>1, SameRules DEF Room, NamesOn
<1>13. Path(shorter)'
  <2>1. sfp' = m - 1 /\ sfp' + 1 = m /\ CodeLines(source)' = CodeLines(source)
    BY <1>2, <1>4, <1>11
  <2>2. ASSUME NEW i \in 1..(m - 1)
        PROVE  source[shorter[i]].op = "CALL" /\ call_stack'[i - 1] = Before(shorter[i]) + 2
    <3>1. i \in 1..sfp /\ i \in 1..m /\ i # m
      BY <1>4
    <3> QED
      BY <1>2, <1>10, <3>1 DEF Under, Path
  <2>3. ASSUME NEW i \in 1..m
        PROVE  /\ stack_frame'[i - 1].start <= Room(shorter, i - 1)
               /\ stack_frame'[i - 1].count <= Cardinality(Text!NamedIn(Owner(shorter[i])))
    <3>1. i \in 1..(sfp + 1) /\ i - 1 \in 0..m
      BY <1>4
    <3>2. /\ stack_frame[i - 1].start <= Room(lines, i - 1)
          /\ stack_frame[i - 1].count <= Cardinality(Text!NamedIn(Owner(lines[i])))
      BY <3>1 DEF Under, Path
    <3> QED
      BY <1>2, <1>10, <1>12, <3>1, <3>2
  <2>4. pc' = Before(shorter[m])
    BY <1>2, <1>4, <1>7, <1>9, <1>10
  <2> QED
    BY <1>10, <1>11, <1>12, <2>1, <2>2, <2>3, <2>4, SameRules DEF Path
<1>14. Under(shorter)'
  BY <1>11, <1>13 DEF Under
<1>15. SeenOn(shorter)'
  BY <1>14, SeenNext DEF AllSeen
<1>16. TState' = "running" /\ TStack' = stack' /\ THere' = j
       /\ TActs' = [i \in 1..m |-> ActOn(shorter, i)']
  <2>1. sfp' + 1 = m
    BY <1>2, <1>4
  <2> QED
    BY <1>10, <1>15, <2>1 DEF SeenOn, ActsOn
<1>17. \A i \in 1..m : ActOn(shorter, i)' = TActs[i]
  <2>1. \A i \in 1..m : stored'[i - 1] = stored[i - 1]
    BY <1>2
  <2>2. \A i \in 1..m : ActOn(shorter, i)' = ActOn(lines, i)
    BY <1>4, <1>10, <2>1, SameBelow
  <2>3. \A i \in 1..m : i \in 1..n
    BY <1>4
  <2> QED
    BY <1>5, <2>2, <2>3
<1>18. TActs' = SubSeq(TActs, 1, Len(TActs) - 1)
  <2>1. Len(TActs) - 1 = m
    BY <1>4, <1>5
  <2>2. SubSeq(TActs, 1, m) = [i \in 1..m |-> TActs[i]]
    <3>1. 1 + m - 1 = m /\ \A i \in 1..m : i + 1 - 1 = i
      BY <1>4
    <3> QED
      BY <1>4, <3>1
  <2> QED
    BY <1>16, <1>17, <2>1, <2>2
<1>19. Len(TActs) > 1 /\ TActs[Len(TActs)].back = j
  <2>1. n > 1 /\ n \in 1..n /\ n # 1 /\ n - 1 = m
    BY <1>4
  <2> QED
    BY <1>5, <1>6, <1>8, <2>1 DEF ActOn
<1> QED
  BY <1>11, <1>14, <1>16, <1>18, <1>19 DEF Keeps

\* CALL puts a line on the path, RET takes one off, and both go where the text goes.
LEMMA SubroutinesStep ==
  ASSUME NEW lines, Under(lines), MachineInv', TextInv', CALL \/ RET \/ HALT
  PROVE  (Running' => Keeps) /\ Text!Next
<1>1. PICK n : n = sfp + 1
  OBVIOUS
<1>2. /\ Len(TActs) = n /\ n \in Nat /\ n >= 1 /\ csp = n - 2 /\ sfp = n - 1
      /\ CALL_STACK_MEM \in Nat /\ THREAD_STACK_SIZE \in Nat
      /\ CALL_STACK_MEM < THREAD_STACK_SIZE /\ csp <= CALL_STACK_MEM - 1
  <2>1. SeenOn(lines)
    BY SeenAlways DEF AllSeen
  <2>2. sfp \in Nat /\ sfp = csp + 1 /\ Len(TActs) = sfp + 1
    BY <2>1 DEF SeenOn
  <2>3. csp \in -1..(CALL_STACK_MEM - 1)
    BY DEF Under, MachineInv, VMP!FrameInv, VMP!TypeOK
  <2> QED
    BY <1>1, <2>2, <2>3, FrameSizes
<1>3. CASE CALL
  <2>1. /\ Instruction({"CALL"}, 0, 0) /\ UNCHANGED stack
        /\ VM!CALL(Operand(1)) \/ VM!CallFails
    BY <1>3 DEF CALL
  <2>2. Opcode = "CALL" /\ UNCHANGED <<assembly, code, ram, machine>> /\ TStack = stack
        /\ source[THere].op = "CALL"
        /\ ((source' = source /\ TState' = "running") => Does({"CALL"}, 0, 0))
    BY <2>1, FetchedIs
  <2>3. CASE VM!CALL(Operand(1))
    <3>1. /\ Keeps /\ source' = source /\ TState' = "running" /\ TStack' = stack'
          /\ Len(TActs) <= CALL_STACK_MEM
          /\ THere' = Text!FirstOf(Text!BodyOf(source[THere].args[1]))
          /\ TActs' = Append(TActs, [sub |-> source[THere].args[1], locals |-> [x \in {} |-> 0],
                                     back |-> Text!NextLine(THere)])
      BY <1>1, <2>2, <2>3, CallsOn
    <3>2. TStack' = TStack
      BY <2>1, <2>2, <3>1
    <3>3. Text!Call
      BY <2>2, <3>1, <3>2, CalleeStep
    <3> QED
      BY <3>1, <3>3 DEF Text!Next
  <2>4. CASE VM!CallFails
    <3>1. running' = FALSE /\ ~(csp < CALL_STACK_MEM - 1 /\ sfp < THREAD_STACK_SIZE - 1)
      BY <2>4 DEF VM!CallFails, VM!CallRoom, VM!Exit
    <3>2. Len(TActs) > CALL_STACK_MEM
      BY <1>2, <3>1
    <3>3. /\ ~Running' /\ TState = "running" /\ source' = source
          /\ TState' = "over" /\ THere' = 0 /\ TActs' = <<>> /\ TStack' = <<>>
      BY <2>2, <3>1, Ended
    <3>4. Text!Fails
      BY <2>2, <3>2, <3>3, StopStep
    <3> QED
      BY <3>3, <3>4 DEF Text!Next
  <2> QED
    BY <2>1, <2>3, <2>4
<1>4. CASE RET
  <2>1. Instruction({"RET"}, 0, 0) /\ UNCHANGED stack /\ (VM!RET \/ VM!RetUnderflow)
    BY <1>4 DEF RET
  <2>2. Opcode = "RET" /\ UNCHANGED <<assembly, code, ram, machine>> /\ TStack = stack
        /\ source[THere].op = "RET"
        /\ ((source' = source /\ TState' = "running") => Does({"RET"}, 0, 0))
    BY <2>1, FetchedIs
  <2>3. CASE VM!RET
    <3>1. /\ Keeps /\ source' = source /\ TState' = "running" /\ TStack' = stack'
          /\ Len(TActs) > 1 /\ THere' = TActs[Len(TActs)].back
          /\ TActs' = SubSeq(TActs, 1, Len(TActs) - 1)
      BY <1>1, <2>2, <2>3, ReturnsOn
    <3>2. TStack' = TStack
      BY <2>1, <2>2, <3>1
    <3>3. Text!Return
      BY <2>2, <3>1, <3>2, ReturnStep
    <3> QED
      BY <3>1, <3>3 DEF Text!Next
  <2>4. CASE VM!RetUnderflow
    <3>1. status' = VM!THREAD_FREE /\ csp < 0
      BY <2>4 DEF VM!RetUnderflow
    <3>2. Len(TActs) = 1
      BY <1>2, <3>1
    <3>3. /\ ~Running' /\ TState = "running" /\ source' = source
          /\ TState' = "over" /\ THere' = 0 /\ TActs' = <<>> /\ TStack' = <<>>
      BY <2>2, <3>1, Ended
    <3>4. Text!Ends
      BY <2>2, <3>2, <3>3, StopStep
    <3> QED
      BY <3>3, <3>4 DEF Text!Next
  <2> QED
    BY <2>1, <2>3, <2>4
<1>5. CASE HALT
  <2>1. Instruction({"HALT"}, 0, 0) /\ VM!HALT
    BY <1>5 DEF HALT
  <2>2. UNCHANGED <<assembly, code, ram, machine>> /\ source[THere].op = "HALT"
    BY <2>1, FetchedIs
  <2>3. status' = VM!THREAD_FREE
    BY <2>1 DEF VM!HALT
  <2>4. /\ ~Running' /\ TState = "running" /\ source' = source
        /\ TState' = "over" /\ THere' = 0 /\ TActs' = <<>> /\ TStack' = <<>>
    BY <2>2, <2>3, Ended
  <2>5. Text!Ends
    BY <2>2, <2>4, StopStep
  <2> QED
    BY <2>4, <2>5 DEF Text!Next
<1> QED
  BY <1>3, <1>4, <1>5

\* Where the models end, the text may do anything.
LEMMA UndescribedStep ==
  ASSUME TState = "running", source' = source, THere' = 0, TActs' = <<>>, TStack' = <<>>,
         TState' = "wild", NEW op, op = source[THere].op,
         \/ op \notin Followed
         \/ Len(TStack) < CASE op \in {"SUB", "CMPEQ"} -> 2
                            [] op \in {"POP", "DUP", "LOAD", "STORE_L", "JZ", "JNZ"} -> 1
                            [] OTHER -> 0
         \/ op \in {"PUSH", "DUP", "LOAD_L"} /\ Len(TStack) = VM_STACK_SIZE
  PROVE  Text!Undescribed
<1>1. Text!Line.op = op /\ Text!Depth = Len(TStack) /\ Text!Stop("wild")
  BY DEF Text!Line, Text!Depth, Text!Stop, TState, THere, TActs, TStack
<1>2. Text!Described = Followed
  BY DEF Text!Described, Followed, Text!Jumps, Jumps
<1>3. Text!Pops = CASE op \in {"SUB", "CMPEQ"} -> 2
                    [] op \in {"POP", "DUP", "LOAD", "STORE_L", "JZ", "JNZ"} -> 1
                    [] OTHER -> 0
  BY <1>1 DEF Text!Pops
<1> QED
  BY <1>1, <1>2, <1>3 DEF Text!Undescribed, TState

\* So may it after a load beyond ram[], or where the execution leaves the sample.
LEMMA StopsStep ==
  ASSUME NEW lines, Under(lines), LOADFails \/ Stray
  PROVE  ~Running' /\ Text!Next
<1>1. CASE LOADFails
  <2>1. Instruction({"LOAD"}, 1, 1) /\ stack[Depth] >= VM_RAM_SIZE /\ VM!Exit
    BY <1>1 DEF LOADFails
  <2>2. UNCHANGED <<assembly, code, ram, machine>> /\ source[THere].op = "LOAD" /\ TStack = stack
        /\ Len(stack) \in Nat /\ 1 <= Len(stack)
    BY <2>1, FetchedIs
  <2>3. running' = FALSE
    BY <2>1 DEF VM!Exit
  <2>4. /\ ~Running' /\ TState = "running" /\ source' = source
        /\ TState' = "over" /\ THere' = 0 /\ TActs' = <<>> /\ TStack' = <<>>
    BY <2>2, <2>3, Ended
  <2>5. Len(TStack) > 0 /\ TStack[Len(TStack)] >= VM_RAM_SIZE
    BY <2>1, <2>2 DEF Depth
  <2>6. Text!Fails
    BY <2>2, <2>4, <2>5, StopStep
  <2> QED
    BY <2>4, <2>6 DEF Text!Next
<1>2. CASE Stray
  <2>1. /\ pc >= Len(code)
           \/ /\ pc < Len(code)
              /\ \/ Opcode \notin Followed
                 \/ Depth < Pops
                 \/ Opcode \in {"PUSH", "DUP", "LOAD_L"} /\ Depth = VM_STACK_SIZE
        /\ machine' = "wild"
        /\ UNCHANGED <<assembly, code, ram, stack, thread>>
    BY <1>2 DEF Stray
  <2>2. SeenOn(lines)
    BY SeenAlways DEF AllSeen
  <2>3. pc < Len(code) /\ Opcode = source[THere].op /\ TStack = stack /\ TState = "running" /\ Fresh
        /\ pc \in Nat /\ Len(code) \in Nat
    <3>1. pc \in Nat /\ Len(code) \in Nat
      BY LenProperties DEF Under, MachineInv, VMP!FrameInv, VMP!TypeOK, IsSeq
    <3> QED
      BY <2>2, <3>1 DEF SeenOn
  <2>4. source' = source /\ ~Running' /\ TState' = "wild" /\ THere' = 0 /\ TActs' = <<>> /\ TStack' = <<>>
    BY <2>1, <2>3
       DEF Running, Executing, Fresh, TState, THere, TActs, TStack, assembly, vars
  <2>5. \/ Opcode \notin Followed
        \/ Len(TStack) < CASE Opcode \in {"SUB", "CMPEQ"} -> 2
                           [] Opcode \in {"POP", "DUP", "LOAD", "STORE_L", "JZ", "JNZ"} -> 1
                           [] OTHER -> 0
        \/ Opcode \in {"PUSH", "DUP", "LOAD_L"} /\ Len(TStack) = VM_STACK_SIZE
    BY <2>1, <2>3 DEF Depth, Pops
  <2>6. Text!Undescribed
    BY <2>3, <2>4, <2>5, UndescribedStep
  <2> QED
    BY <2>4, <2>6 DEF Text!Next
<1> QED
  BY <1>1, <1>2

\* Every instruction does what the text says, and its frames stand on lines again.
LEMMA TextExecuted ==
  ASSUME NEW lines, Under(lines), MachineInv', TextInv', Execute
  PROVE  (Running' => Keeps) /\ Text!Next
<1>1. CASE PUSH \/ POP \/ DUP \/ SUB \/ CMPEQ \/ LOAD
  BY <1>1, StraightStep
<1>2. CASE JUMP \/ Branch
  BY <1>2, JumpsStep
<1>3. CASE CALL \/ RET \/ HALT
  BY <1>3, SubroutinesStep
<1>4. CASE STORE_L \/ ISTORE_L
  BY <1>4, StoresStep
<1>5. CASE LOAD_L
  BY <1>5, LoadsStep
<1>6. CASE LOADFails \/ Stray
  BY <1>6, StopsStep
<1> QED
  BY <1>1, <1>2, <1>3, <1>4, <1>5, <1>6 DEF Execute

----------------------------------------------------------------------------
(* The whole of it.                                                         *)

\* Before a fresh binary is executed, SourceRun has not begun.
Idle == ~Fresh \/ machine \notin {"executing", "wild"}

\* As long as the binary of this text is not executed, the text has not started.
LEMMA IdleSeen ==
  /\ Idle => ~Running /\ TState = "idle" /\ THere = 0 /\ TActs = <<>> /\ TStack = <<>>
  /\ Idle' => ~Running' /\ TState' = "idle" /\ THere' = 0 /\ TActs' = <<>> /\ TStack' = <<>>
  /\ ~Idle' => TState' # "idle"
BY DEF Idle, Running, Executing, TState, THere, TActs, TStack

\* What changes nothing of the machine changes nothing of the text, and a text that
\* breaks the rules may do anything.
LEMMA SameSeen ==
  /\ UNCHANGED TVars => UNCHANGED Text!vars
  /\ source' = source /\ TState' # "idle" /\ ~Text!WellFormed => Text!Next
BY DEF Text!vars, TVars, TState, THere, TActs, TStack, Text!Next, Text!Anything

\* The run begins on the first line of ::_global.
LEMMA StartStep ==
  ASSUME MachineInv, TextInv, PathInv, MachineInv', TextInv', StartExecution, Fresh, Text!WellFormed
  PROVE  Keeps /\ Text!Start
<1>1. /\ machine = "loaded" /\ machine' = "executing" /\ running /\ status' = VM!THREAD_ACTIVE
      /\ pc' = file.header[1] % WORD_MOD /\ csp' = -1 /\ sfp' = 0
      /\ stack_frame' = [stack_frame EXCEPT ![0] = VM!NoFrame]
      /\ stored' = [stored EXCEPT ![0] = VM!Nothing]
      /\ UNCHANGED <<call_stack, ram_stack, running>> /\ UNCHANGED <<assembly, code, ram, stack>>
  BY DEF StartExecution, VM!vm_request_thread
<1>2. /\ source \in Seq(Lines) /\ Finished /\ file.header[1] = globalStart
      /\ \A x \in Nat : x < WORD_MOD => x % WORD_MOD = x
  BY <1>1, Loaded
<1>3. PICK j : j = Text!FirstOf(Text!BodyOf("_global"))
  OBVIOUS
<1>4. "_global" \in Text!Subroutines
  BY DEF Text!WellFormed
<1>5. PICK h \in DOMAIN source : Heads(h) /\ source[h].name = "_global"
  BY <1>4, SameText DEF Heads
<1>6. /\ j \in CodeLines(source) /\ Owner(j) = "_global" /\ Before(j) = globalStart
  <2>1. Len(source) \in Nat /\ h \in 1..Len(source)
    BY <1>2, Lineparts
  <2>2. globalStart = Before(h)
    <3>1. h < Len(source) + 1
      BY <2>1
    <3> QED
      BY <1>2, <1>5, <3>1 DEF Finished, NamesMapped
  <2>3. IsHeader(source[h])
    BY <1>5 DEF Heads
  <2> QED
    BY <1>2, <1>3, <1>4, <1>5, <2>1, <2>2, <2>3, BodyStart
<1>7. pc' = Before(j)
  <2>1. Before(j) % WORD_MOD = Before(j)
    BY <1>1, <1>6, LineInCode
  <2> QED
    BY <1>1, <1>2, <1>6, <2>1
<1> DEFINE first == [i \in 1..1 |-> j]
<1>8. first \in [1..1 -> CodeLines(source)] /\ first[1] = j
  BY <1>6
<1> HIDE DEF first
<1>9. source' = source /\ Running' /\ Text!WellFormed'
  BY <1>1, SameRules DEF Running, Executing, Fresh, assembly, vars
<1>10. stack_frame'[0].start = 0 /\ stack_frame'[0].count = 0 /\ stored'[0] = VM!Nothing
  <2>1. 0 \in VMP!Activations /\ stack_frame \in [VMP!Activations -> VMP!Frames]
        /\ stored \in [VMP!Activations -> [Offsets -> SUBSET Words]]
    BY FrameSizes DEF MachineInv, VMP!FrameInv, VMP!TypeOK, VMP!Activations
  <2> QED
    BY <1>1, <2>1 DEF VM!NoFrame
<1>11. Room(first, 0) = 0 /\ Room(first, 0)' = Room(first, 0)
       /\ Cardinality(Text!NamedIn(Owner(j))) \in Nat
  <2>1. 1 \in Nat /\ DOMAIN first = 1..1
    BY <1>8
  <2> QED
    BY <1>2, <1>9, <2>1, RoomAdds, NamedFinite, SameRules DEF Room, NamesOn
<1>12. Path(first)'
  <2>1. sfp' + 1 = 1 /\ CodeLines(source)' = CodeLines(source)
    BY <1>1, <1>9
  <2>2. \A i \in 1..sfp' : FALSE
    BY <1>1
  <2>3. ASSUME NEW i \in 1..1
        PROVE  /\ stack_frame'[i - 1].start <= Room(first, i - 1)'
               /\ stack_frame'[i - 1].count <= Cardinality(Text!NamedIn(Owner(first[i])))
    <3>1. i = 1 /\ i - 1 = 0
      OBVIOUS
    <3> QED
      BY <1>8, <1>10, <1>11, <3>1
  <2> QED
    BY <1>7, <1>8, <1>9, <2>1, <2>2, <2>3, SameRules DEF Path
<1>13. Under(first)'
  BY <1>9, <1>12 DEF Under
<1>14. SeenOn(first)'
  BY <1>13, SeenNext DEF AllSeen
<1>15. TState' = "running" /\ TStack' = stack' /\ THere' = j
       /\ TActs' = [i \in 1..1 |-> ActOn(first, i)']
  <2>1. sfp' + 1 = 1
    BY <1>1
  <2> QED
    BY <1>8, <1>14, <2>1 DEF SeenOn, ActsOn
<1>16. TActs' = <<[sub |-> "_global", locals |-> [x \in {} |-> 0], back |-> 0]>>
  <2>1. LocalsOf(Owner(j), VM!Nothing)' = [x \in {} |-> 0]
    BY DEF LocalsOf, VM!Nothing
  <2>2. VM!Nothing' = VM!Nothing
    BY DEF VM!Nothing
  <2>3. stored'[1 - 1] = VM!Nothing
    BY <1>10
  <2>4. Owner(j)' = "_global"
    BY <1>6, <1>9, SameRules
  <2>5. ActOn(first, 1)' = [sub |-> "_global", locals |-> [x \in {} |-> 0], back |-> 0]
    BY <1>8, <2>1, <2>2, <2>3, <2>4 DEF ActOn
  <2>6. \A i \in 1..1 : ActOn(first, i)' = [sub |-> "_global", locals |-> [x \in {} |-> 0], back |-> 0]
    <3>1. \A i \in 1..1 : i = 1
      OBVIOUS
    <3> QED
      BY <2>5, <3>1
  <2> DEFINE e == [sub |-> "_global", locals |-> [x \in {} |-> 0], back |-> 0]
  <2>7. TActs' = [i \in 1..1 |-> e]
    BY <1>15, <2>6
  <2> HIDE DEF e
  <2>8. [i \in 1..1 |-> e] = <<e>>
    OBVIOUS
  <2> QED
    BY <2>7, <2>8 DEF e
<1>17. TState = "idle" /\ TStack = <<>> /\ TStack' = <<>>
  <2>1. stack = <<>>
    BY <1>1 DEF PathInv
  <2> QED
    BY <1>1, <1>15, <2>1, IdleSeen DEF Idle
<1>18. Text!Start
  BY <1>3, <1>9, <1>15, <1>16, <1>17
     DEF Text!Start, Text!Enter, TState, THere, TActs, TStack
<1> QED
  BY <1>13, <1>18 DEF Keeps

\* What is loaded fits if the text keeps the rules.
LEMMA DataFits ==
  ASSUME MachineInv, TextInv, load_kdm_file, Fresh, Text!WellFormed
  PROVE  machine' = "loaded"
<1>1. AsmInv /\ CommandRun /\ FileIsWhole
  BY DEF MachineInv, RunInv, load_kdm_file
<1>2. file.data = ramData
  BY <1>1, WholeFiles DEF Fresh
<1>3. Finished /\ source \in Seq(Lines)
  BY <1>1 DEF TextInv, CommandRun, Fresh, AsmInv, Typed
<1>4. Len(ramData) = Text!WordCount(Text!Declarations)
  BY <1>3, DataCounted DEF Finished, DataMapped
<1>5. Text!WordCount(Text!Declarations) <= VM_RAM_SIZE
  BY DEF Text!WellFormed
<1> QED
  BY <1>2, <1>4, <1>5 DEF load_kdm_file

ImplementInv == MachineInv /\ TextInv /\ PathInv

\* An instruction is a step of SourceRun, or of no concern to it.
LEMMA ExecutedAsText ==
  ASSUME ImplementInv, MachineInv', TextInv', Execute
  PROVE  PathInv' /\ [Text!Next]_(Text!vars)
<1>1. /\ machine = "executing" /\ machine' \in {"executing", "wild"}
      /\ UNCHANGED <<assembly, code, ram>>
  BY ExecuteStep
<1>2. source' = source /\ Fresh' = Fresh /\ (Text!WellFormed' <=> Text!WellFormed)
  BY <1>1, SameRules DEF assembly, vars, Fresh
<1>3. CASE ~Fresh
  <2>1. Idle /\ Idle'
    BY <1>2, <1>3 DEF Idle
  <2> QED
    BY <1>1, <1>2, <2>1, IdleSeen, SameSeen DEF TVars, PathInv
<1>4. CASE Fresh /\ ~Text!WellFormed
  <2>1. ~Idle'
    BY <1>1, <1>2, <1>4 DEF Idle
  <2> QED
    BY <1>1, <1>2, <1>4, <2>1, IdleSeen, SameSeen DEF PathInv
<1>5. CASE Fresh /\ Text!WellFormed
  <2>1. Running
    <3>1. Executing
      BY DEF Execute, HALT, PUSH, POP, DUP, SUB, CMPEQ, LOAD, LOADFails, JUMP, Branch, CALL,
             RET,
             STORE_L, ISTORE_L, LOAD_L, Stray, Instruction
    <3> QED
      BY <1>5, <3>1 DEF Running
  <2>2. PICK lines : Under(lines)
    BY <1>5, <2>1 DEF ImplementInv, PathInv, Under
  <2>3. (Running' => Keeps) /\ Text!Next
    BY <2>2, TextExecuted
  <2>4. PathInv'
    BY <1>1, <2>3 DEF PathInv, Keeps, Under
  <2> QED
    BY <2>3, <2>4
<1> QED
  BY <1>3, <1>4, <1>5

\* So are the other steps.
LEMMA LoadedAsText ==
  ASSUME ImplementInv, MachineInv', TextInv',
         Assemble \/ LoadFails \/ load_kdm_file \/ StartExecution \/ UNCHANGED programVars
  PROVE  PathInv' /\ [Text!Next]_(Text!vars)
<1>1. ASSUME Idle, Idle', source' = source, stack' = stack,
             machine \notin {"executing", "wild"}
      PROVE  PathInv' /\ [Text!Next]_(Text!vars)
  <2>1. stack' = <<>>
    BY <1>1 DEF ImplementInv, PathInv
  <2> QED
    BY <1>1, <2>1, IdleSeen, SameSeen DEF TVars, PathInv
<1>2. CASE Assemble
  <2>1. Next /\ UNCHANGED <<machine, code, ram, stack, thread>>
    BY <1>2 DEF Assemble
  <2>2. pass \in 1..5 /\ source' = source
    BY <2>1
       DEF Next, MapSection, MapData, MapFails, MapCode, EndOfMap, EmitSection, EmitNothing,
                EmitCode, EmitFails, OpenOutput, WriteHeader, WriteProgram, WriteData, CloseOutput,
                WriteFails, Reading, Writes
  <2>3. machine \notin {"executing", "wild"}
    BY <2>2 DEF ImplementInv, MachineInv, RunInv
  <2> QED
    BY <1>1, <2>1, <2>2, <2>3 DEF Idle
<1>3. CASE LoadFails
  BY <1>1, <1>3 DEF LoadFails, CommandRun, Idle, assembly, vars
<1>4. CASE load_kdm_file
  <2>1. machine = "none" /\ machine' \in {"loaded", "wild"} /\ UNCHANGED <<assembly, stack, thread>>
    BY <1>4 DEF load_kdm_file, CommandRun
  <2>2. source' = source /\ file' = file /\ stack' = stack /\ Idle
    BY <2>1 DEF assembly, vars, Idle
  <2>3. CASE Idle'
    BY <1>1, <2>1, <2>2, <2>3
  <2>4. CASE ~Idle'
    <3>1. Fresh /\ machine' = "wild"
      BY <2>1, <2>2, <2>4 DEF Idle, Fresh
    <3>2. ~Text!WellFormed
      BY <1>4, <3>1, DataFits DEF ImplementInv
    <3>3. PathInv'
      BY <3>1 DEF PathInv, Running, Executing
    <3> QED
      BY <2>2, <2>4, <3>2, <3>3, IdleSeen, SameSeen
  <2> QED
    BY <2>3, <2>4
<1>5. CASE StartExecution
  <2>1. machine = "loaded" /\ machine' = "executing" /\ UNCHANGED <<assembly, code, ram, stack>>
    BY <1>5 DEF StartExecution
  <2>2. source' = source /\ file' = file /\ stack' = stack /\ Idle /\ Fresh' = Fresh
        /\ (Text!WellFormed' <=> Text!WellFormed)
    BY <2>1, SameRules DEF assembly, vars, Idle, Fresh
  <2>3. CASE ~Fresh
    BY <1>1, <2>1, <2>2, <2>3 DEF Idle
  <2>4. CASE Fresh /\ ~Text!WellFormed
    <3>1. ~Idle'
      BY <2>1, <2>2, <2>4 DEF Idle
    <3> QED
      BY <2>1, <2>2, <2>4, <3>1, IdleSeen, SameSeen DEF PathInv
  <2>5. CASE Fresh /\ Text!WellFormed
    <3>1. Keeps /\ Text!Start
      BY <1>5, <2>5, StartStep DEF ImplementInv
    <3> QED
      BY <2>1, <3>1 DEF Text!Next, PathInv, Keeps, Under
  <2> QED
    BY <2>3, <2>4, <2>5
<1>6. CASE UNCHANGED programVars
  <2>1. UNCHANGED <<source, file, code, stack, locals, machine>> /\ UNCHANGED thread
    BY <1>6 DEF programVars, assembly, vars
  <2>2. UNCHANGED TVars
    BY <2>1 DEF TVars, TState, THere, TActs, TStack, Running, Executing, Fresh, thread,
                LineOf, FrameSub, FrameLine, FrameLocals
  <2>3. PathInv'
    <3>1. /\ Running' = Running /\ (Text!WellFormed' <=> Text!WellFormed)
      BY <2>1, SameRules DEF Running, Executing, Fresh, thread
    <3>2. \A lines : Path(lines)' <=> Path(lines)
      <4>1. \A lines, i : Room(lines, i)' = Room(lines, i)
        BY <2>1, SameRules DEF Room, NamesOn
      <4>2. CodeLines(source)' = CodeLines(source)
        BY <2>1
      <4> QED
        BY <2>1, <4>1, <4>2, SameRules DEF Path, thread
    <3> QED
      BY <2>1, <3>1, <3>2 DEF PathInv, ImplementInv
  <2> QED
    BY <2>2, <2>3, SameSeen
<1> QED
  BY <1>2, <1>3, <1>4, <1>5, <1>6

\* Every step of the commands and of the machine is a step of the text, or none.
LEMMA ImplementStep ==
  ImplementInv /\ [ProgramNext]_programVars => ImplementInv' /\ [Text!Next]_(Text!vars)
<1> SUFFICES ASSUME ImplementInv, [ProgramNext]_programVars
             PROVE  ImplementInv' /\ [Text!Next]_(Text!vars)
  OBVIOUS
<1>1. MachineInv'
  BY MachineStep DEF ImplementInv
<1>2. [Next]_vars
  BY ExecuteStep
     DEF ProgramNext, Assemble, LoadFails, load_kdm_file, StartExecution, programVars,
         assembly
<1>3. TextInv'
  BY <1>2, TextStep DEF ImplementInv, MachineInv, RunInv
<1>4. PathInv' /\ [Text!Next]_(Text!vars)
  BY <1>1, <1>3, ExecutedAsText, LoadedAsText DEF ProgramNext
<1> QED
  BY <1>1, <1>3, <1>4 DEF ImplementInv

\* The text starts where the commands do.
LEMMA ImplementInit == ProgramInit => ImplementInv /\ Text!Init
<1> SUFFICES ASSUME ProgramInit PROVE ImplementInv /\ Text!Init
  OBVIOUS
<1>1. MachineInv /\ TextInv
  BY MachineInit, TextInit DEF ProgramInit
<1>2. machine = "none" /\ stack = <<>>
  BY DEF ProgramInit
<1>3. Idle
  BY <1>2 DEF Idle
<1>4. PathInv
  BY <1>2, <1>3, IdleSeen DEF PathInv
<1>5. Text!Init
  BY <1>3, IdleSeen DEF Text!Init, TState, THere, TActs, TStack
<1> QED
  BY <1>1, <1>4, <1>5 DEF ImplementInv

\* For every text, and wherever the assembler fails: what the machine does with the
\* words of a text that keeps the rules is what the text says, an instruction for
\* an instruction.
THEOREM ProgramImplementsText == ProgramSpec => ImplementsText
<1>1. Text!Spec <=> Text!Init /\ [][Text!Next]_(Text!vars)
  BY DEF Text!Spec
<1> QED
  BY <1>1, ImplementInit, ImplementStep, PTL DEF ProgramSpec, ImplementsText

=============================================================================
