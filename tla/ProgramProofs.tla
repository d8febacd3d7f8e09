----------------------------- MODULE ProgramProofs -----------------------------
(****************************************************************************)
(* Theorems about the assembler and about what is executed of what it       *)
(* writes, for all sources, all sizes and every point at which the          *)
(* assembler can fail or die.                                               *)
(****************************************************************************)
EXTENDS Program, SequenceTheorems, FiniteSetTheorems, TLAPS

----------------------------------------------------------------------------
(* The assembler.                                                           *)

\* A sequence of whatever it holds
IsSeq(s) == s \in Seq({s[i] : i \in DOMAIN s})

Data == [val : Int, word_state : {WORD_OPEN, WORD_CONSTANT}]

Typed ==
  /\ source \in Seq(Lines)
  /\ TypeOK
  /\ IsSeq(program)
  /\ ramData \in Seq(Data)

\* A function on the first n numbers is a sequence.
LEMMA FunctionIsSeq == ASSUME NEW n \in Nat, NEW S, NEW f \in [1..n -> S] PROVE f \in Seq(S)
<1>1. [1..n -> S] \in {[1..m -> S] : m \in Nat}
  OBVIOUS
<1>2. Seq(S) = UNION {[1..m -> S] : m \in Nat}
  BY SeqDef
<1> QED
  BY <1>1, <1>2, Zenon

\* Every member of a set of sequences is one by itself.
LEMMA SeqOfItsOwn == ASSUME NEW S, NEW s \in Seq(S) PROVE IsSeq(s)
<1>1. Len(s) \in Nat /\ DOMAIN s = 1..Len(s) /\ s \in [1..Len(s) -> S]
  BY LenProperties
<1>2. s \in [1..Len(s) -> {s[i] : i \in DOMAIN s}]
  BY <1>1
<1> QED
  BY <1>1, <1>2, FunctionIsSeq DEF IsSeq

\* The sequence of two.
LEMMA Concatenated ==
  ASSUME NEW s, NEW t, IsSeq(s), IsSeq(t)
  PROVE  /\ IsSeq(s \o t)
         /\ Len(s) \in Nat /\ Len(t) \in Nat
         /\ Len(s \o t) = Len(s) + Len(t)
         /\ \A i \in 1..Len(s) : (s \o t)[i] = s[i]
         /\ \A i \in 1..Len(t) : (s \o t)[Len(s) + i] = t[i]
<1> DEFINE S == {s[i] : i \in DOMAIN s} \cup {t[i] : i \in DOMAIN t}
<1>1. s \in Seq(S) /\ t \in Seq(S)
  BY SeqMonotonic DEF IsSeq
<1>2. Len(s) \in Nat /\ Len(t) \in Nat
  BY <1>1, LenProperties
<1>3. /\ s \o t \in Seq(S)
      /\ Len(s \o t) = Len(s) + Len(t)
      /\ \A i \in 1..(Len(s) + Len(t)) :
           (s \o t)[i] = IF i <= Len(s) THEN s[i] ELSE t[i - Len(s)]
  BY <1>1, ConcatProperties
<1>4. IsSeq(s \o t)
  BY <1>3, SeqOfItsOwn
<1>5. \A i \in 1..Len(s) : (s \o t)[i] = s[i]
  BY <1>2, <1>3
<1>6. \A i \in 1..Len(t) : (s \o t)[Len(s) + i] = t[i]
  BY <1>2, <1>3
<1> QED
  BY <1>2, <1>3, <1>4, <1>5, <1>6

\* A function on the first n numbers is a sequence of length n.
LEMMA FirstNumbers ==
  ASSUME NEW n \in Nat, NEW f, f = [i \in 1..n |-> f[i]]
  PROVE  IsSeq(f) /\ Len(f) = n
<1>1. f \in [1..n -> {f[i] : i \in DOMAIN f}]
  OBVIOUS
<1>2. f \in Seq({f[i] : i \in DOMAIN f})
  BY <1>1, FunctionIsSeq
<1>3. DOMAIN f = 1..n /\ DOMAIN f = 1..Len(f) /\ Len(f) \in Nat
  BY <1>2, LenProperties
<1> QED
  BY <1>2, <1>3 DEF IsSeq

\* The line that is read is a line.
LEMMA LineThere ==
  ASSUME Typed, NEW n, Reading(n)
  PROVE  /\ at \in 1..Len(source) /\ Len(source) \in Nat
         /\ Line \in Lines
         /\ ~IsHeader(Line) => /\ Line.args \in Seq(STRING)
                               /\ Len(Line.args) \in Nat
                               /\ Line.kind = "data" => Line.values \in Seq(Int)
<1>1. Len(source) \in Nat /\ at \in 1..Len(source)
  BY LenProperties DEF Typed, TypeOK, Reading
<1>2. Line \in Lines
  BY <1>1, ElementOfSeq DEF Typed, Line
<1>3. ASSUME ~IsHeader(Line) PROVE Line.args \in Seq(STRING)
  BY <1>2, <1>3 DEF Lines, IsHeader
<1>4. ASSUME Line.kind = "data" PROVE Line.values \in Seq(Int)
  BY <1>2, <1>4 DEF Lines
<1> QED
  BY <1>1, <1>2, <1>3, <1>4, LenProperties

\* At most two operands are emitted.
LEMMA OperandsTaken ==
  ASSUME NEW line, line.args \in Seq(STRING)
  PROVE  /\ Len(OperandTokens(line)) \in Nat
         /\ DOMAIN OperandTokens(line) = 1..Len(OperandTokens(line))
         /\ \A i \in 1..Len(OperandTokens(line)) :
              i \in 1..Len(line.args) /\ OperandTokens(line)[i] = line.args[i]
<1> DEFINE most == IF line.op \in ZeroOperand THEN 0
                   ELSE IF line.op \in StoresImmediate \cup StoresLocal THEN 2 ELSE 1
<1>1. most \in Nat /\ Len(line.args) \in Nat /\ DOMAIN line.args = 1..Len(line.args)
  BY LenProperties
<1>2. CASE Len(line.args) <= most
  <2>1. OperandTokens(line) = line.args
    BY <1>1, <1>2 DEF OperandTokens
  <2> QED
    BY <1>1, <2>1
<1>3. CASE Len(line.args) > most
  <2>1. OperandTokens(line) = SubSeq(line.args, 1, most)
    BY <1>1, <1>3 DEF OperandTokens
  <2>2. \A i \in 1..most : line.args[i] \in STRING
    BY <1>1, <1>3, ElementOfSeq
  <2> HIDE DEF most
  <2>3. /\ SubSeq(line.args, 1, most) \in Seq(STRING)
        /\ Len(SubSeq(line.args, 1, most)) = IF 1 <= most THEN most - 1 + 1 ELSE 0
        /\ \A i \in 1..(most - 1 + 1) : SubSeq(line.args, 1, most)[i] = line.args[1 + i - 1]
    BY <1>1, <2>2, SubSeqProperties
  <2>4. \A i \in 1..most : SubSeq(line.args, 1, most)[i] = line.args[i]
    <3> SUFFICES ASSUME NEW i \in 1..most PROVE SubSeq(line.args, 1, most)[i] = line.args[i]
      OBVIOUS
    <3>1. most - 1 + 1 = most /\ 1 + i - 1 = i
      BY <1>1
    <3> QED
      BY <2>3, <3>1
  <2>5. Len(SubSeq(line.args, 1, most)) = most
    BY <1>1, <2>3
  <2>6. DOMAIN SubSeq(line.args, 1, most) = 1..most
    BY <2>3, <2>5, LenProperties
  <2> QED
    BY <1>1, <1>3, <2>1, <2>4, <2>5, <2>6
<1> QED
  BY <1>1, <1>2, <1>3

\* The words of an instruction go behind the others, and bear its line.
LEMMA EmitCodeStep ==
  ASSUME Typed, EmitCode
  PROVE  LET n == WordsOf(Line)
         IN  /\ n \in Nat \ {0}
             /\ Len(program) \in Nat
             /\ IsSeq(program')
             /\ Len(program') = Len(program) + n
             /\ \A p \in 1..Len(program) : program'[p] = program[p]
             /\ \A p \in (Len(program) + 1)..(Len(program) + n) : program'[p].line = at
             /\ program'[Len(program) + 1].op = Line.op
             /\ program'[Len(program) + 1].val = 0
             /\ \A i \in 1..(n - 1) :
                  /\ program'[Len(program) + 1 + i].op = "operand"
                  /\ program'[Len(program) + 1 + i].val = OperandWord(Line, i)
<1> DEFINE n == WordsOf(Line)
           first == <<Word(Line.op, 0)>>
           rest == [i \in 1..(n - 1) |-> Word("operand", OperandWord(Line, i))]
<1>1. n \in Nat /\ n - 1 \in Nat
  BY LineThere, OperandsTaken DEF EmitCode, WordsOf
<1>2. program' = (program \o first) \o rest
  BY DEF EmitCode
<1>3. IsSeq(program)
  BY DEF Typed
<1>4. IsSeq(first) /\ Len(first) = 1 /\ first[1].line = at /\ first[1].op = Line.op
      /\ first[1].val = 0
  <2>1. first \in Seq({Word(Line.op, 0)})
    OBVIOUS
  <2> QED
    BY <2>1, SeqOfItsOwn DEF Word
<1>5. IsSeq(rest) /\ Len(rest) = n - 1
  <2> HIDE DEF n
  <2> QED
    BY <1>1, FirstNumbers
<1>6. \A i \in 1..(n - 1) :
        rest[i].line = at /\ rest[i].op = "operand" /\ rest[i].val = OperandWord(Line, i)
  BY DEF Word
<1> HIDE DEF first, rest, n
<1>7. /\ IsSeq(program \o first)
      /\ Len(program) \in Nat
      /\ Len(program \o first) = Len(program) + 1
      /\ \A p \in 1..Len(program) : (program \o first)[p] = program[p]
      /\ (program \o first)[Len(program) + 1].line = at
      /\ (program \o first)[Len(program) + 1].op = Line.op
      /\ (program \o first)[Len(program) + 1].val = 0
  <2>1. /\ IsSeq(program \o first)
        /\ Len(program) \in Nat
        /\ Len(program \o first) = Len(program) + Len(first)
        /\ \A p \in 1..Len(program) : (program \o first)[p] = program[p]
        /\ \A i \in 1..Len(first) : (program \o first)[Len(program) + i] = first[i]
    <3>1. IsSeq(program) /\ IsSeq(first)
      BY <1>3, <1>4
    <3> QED
      BY <3>1, Concatenated
  <2>2. 1 \in 1..Len(first)
    BY <1>4
  <2>3. (program \o first)[Len(program) + 1] = first[1]
    BY <2>1, <2>2
  <2> QED
    BY <2>1, <2>3, <1>4
<1>8. /\ IsSeq(program')
      /\ Len(program') = Len(program) + 1 + (n - 1)
      /\ \A p \in 1..(Len(program) + 1) : program'[p] = (program \o first)[p]
      /\ \A i \in 1..(n - 1) : program'[Len(program) + 1 + i] = rest[i]
  <2> DEFINE head == program \o first
  <2> HIDE DEF head
  <2>1. /\ IsSeq(head \o rest)
        /\ Len(head \o rest) = Len(head) + Len(rest)
        /\ \A i \in 1..Len(head) : (head \o rest)[i] = head[i]
        /\ \A i \in 1..Len(rest) : (head \o rest)[Len(head) + i] = rest[i]
    BY <1>5, <1>7, Concatenated DEF head
  <2>2. program' = head \o rest /\ Len(head) = Len(program) + 1 /\ Len(rest) = n - 1
    BY <1>2, <1>5, <1>7 DEF head
  <2> QED
    BY <2>1, <2>2 DEF head
<1>9. ASSUME NEW p \in (Len(program) + 1)..(Len(program) + n) PROVE program'[p].line = at
  <2>1. CASE p = Len(program) + 1
    BY <2>1, <1>7, <1>8
  <2>2. CASE p # Len(program) + 1
    <3>1. p - Len(program) - 1 \in 1..(n - 1) /\ p = Len(program) + 1 + (p - Len(program) - 1)
      BY <2>2, <1>1, <1>7
    <3> QED
      BY <3>1, <1>6, <1>8
  <2> QED
    BY <2>1, <2>2
<1>10. \A p \in 1..Len(program) : program'[p] = program[p]
  BY <1>7, <1>8
<1>11. /\ program'[Len(program) + 1].op = Line.op /\ program'[Len(program) + 1].val = 0
       /\ \A i \in 1..(n - 1) :
            /\ program'[Len(program) + 1 + i].op = "operand"
            /\ program'[Len(program) + 1 + i].val = OperandWord(Line, i)
  <2>1. Len(program) + 1 \in 1..(Len(program) + 1)
    BY <1>7
  <2> QED
    BY <2>1, <1>6, <1>7, <1>8
<1> QED
  BY <1>1, <1>7, <1>8, <1>9, <1>10, <1>11 DEF n

----------------------------------------------------------------------------
(* Types, and what is in the file.                                          *)

\* The file with the header, all words and the first n words of data
Written(n) ==
  [header |-> <<globalStart, Len(program), Len(ramData)>>, words |-> program,
   data |-> SubSeq(ramData, 1, n)]
HeaderOnly ==
  [header |-> <<globalStart, Len(program), Len(ramData)>>, words |-> <<>>, data |-> <<>>]

FileInv ==
  /\ pass \in {1, 2} => file = Leftover
  /\ pass = 3 => file = NoFile
  /\ pass = 4 => file = HeaderOnly
  /\ pass \in {5, 6} => \E n \in 0..Len(ramData) : file = Written(n)
  /\ pass = 0 =>
       file \in {Leftover, NoFile, HeaderOnly} \/ \E n \in 0..Len(ramData) : file = Written(n)

\* A line of a data section gives words with a value and a state.
LEMMA DataWordsTyped ==
  ASSUME NEW line \in Lines, ~IsHeader(line)
  PROVE  DataWords(line) \in Seq(Data)
<1> DEFINE elements == Elements(line)
           state == IF section = "_const_data" THEN WORD_CONSTANT ELSE WORD_OPEN
<1>1. elements \in Seq(Int)
  <2>1. CASE line.kind = "code"
    <3>1. Len(line.args) \in Int
      BY <2>1, LenProperties DEF Lines
    <3> QED
      BY <2>1, <3>1 DEF Elements
  <2>2. CASE line.kind # "code"
    <3>1. line.values \in Seq(Int)
      BY <2>2 DEF Lines, IsHeader
    <3>2. Len(line.values) + 1 \in Int
      BY <3>1, LenProperties
    <3>3. <<Len(line.values) + 1>> \in Seq(Int)
      BY <3>2
    <3> QED
      BY <2>2, <3>1, <3>3, ConcatProperties DEF Elements
  <2> QED
    BY <2>1, <2>2
<1>2. Len(elements) \in Nat /\ DOMAIN elements = 1..Len(elements)
  BY <1>1, LenProperties
<1>3. \A i \in 1..Len(elements) : elements[i] \in Int
  BY <1>1, ElementOfSeq
<1>4. state \in {WORD_OPEN, WORD_CONSTANT}
  OBVIOUS
<1>5. DataWords(line) = [i \in DOMAIN elements |-> [val |-> elements[i], word_state |-> state]]
  BY DEF DataWords
<1> HIDE DEF elements, state
<1>6. DataWords(line) \in [1..Len(elements) -> Data]
  BY <1>2, <1>3, <1>4, <1>5 DEF Data
<1> QED
  BY <1>2, <1>6, FunctionIsSeq

\* One more word of data in the file.
LEMMA OneMoreWord ==
  ASSUME ramData \in Seq(Data), NEW n \in Nat, n < Len(ramData)
  PROVE  /\ Len(SubSeq(ramData, 1, n)) = n
         /\ Append(SubSeq(ramData, 1, n), ramData[n + 1]) = SubSeq(ramData, 1, n + 1)
<1>1. Len(ramData) \in Nat /\ \A i \in 1..Len(ramData) : ramData[i] \in Data
  BY LenProperties, ElementOfSeq
<1>2. SubSeq(ramData, 1, n) \in Seq(Data) /\ Len(SubSeq(ramData, 1, n)) = n
  <2>1. \A i \in 1..n : ramData[i] \in Data
    BY <1>1
  <2>2. /\ SubSeq(ramData, 1, n) \in Seq(Data)
        /\ Len(SubSeq(ramData, 1, n)) = IF 1 <= n THEN n - 1 + 1 ELSE 0
    BY <2>1, SubSeqProperties
  <2> QED
    BY <2>2
<1>3. SubSeq(ramData, 1, n + 1) = SubSeq(ramData, 1, n) \o <<ramData[n + 1]>>
  <2>1. 1 \in 1..Len(ramData) /\ n + 1 \in 1..Len(ramData) /\ n + 1 - 1 = n
    BY <1>1
  <2> QED
    BY <2>1, SubSeqRecursiveSecond
<1>4. ramData[n + 1] \in Data
  BY <1>1
<1> QED
  BY <1>2, <1>3, <1>4, AppendIsConcat

\* What the file holds fits in the program memory if the program does.
LEMMA WordsFit ==
  ASSUME FileInv, pass \in 0..6, Len(program) <= VM_PROGRAM_MEM, Len(program) \in Nat
  PROVE  Len(file.words) <= VM_PROGRAM_MEM
<1>1. Len(Leftover.words) <= VM_PROGRAM_MEM /\ VM_PROGRAM_MEM \in Nat
  BY AssemblerAssumption
<1>2. NoFile.words = <<>> /\ HeaderOnly.words = <<>> /\ \A n : Written(n).words = program
  BY DEF NoFile, HeaderOnly, Written
<1>3. file \in {Leftover, NoFile, HeaderOnly} \/ \E n : file = Written(n)
  BY DEF FileInv
<1> QED
  BY <1>1, <1>2, <1>3, EmptySeq

AsmInv == Typed /\ FileInv

\* The passes keep the types, ...
LEMMA PassesTyped ==
  ASSUME AsmInv,
         \/ MapSection \/ MapData \/ MapFails \/ MapCode \/ EndOfMap
         \/ EmitSection \/ EmitNothing \/ EmitCode \/ EmitFails
  PROVE  AsmInv'
<1> USE DEF AsmInv, Typed, addresses
<1>1. /\ Len(source) \in Nat /\ Len(program) \in Nat /\ VM_PROGRAM_MEM \in Nat
      /\ Len(ramData) \in Nat
  BY LenProperties, AssemblerAssumption DEF IsSeq
<1>2. \A n : Reading(n) => at + 1 \in 1..(Len(source) + 1)
  BY <1>1 DEF Reading, TypeOK
<1>3. /\ pass \in {1, 2} /\ pass' \in {0, 1, 2} /\ file' = file /\ source' = source
  BY DEF MapSection, MapData, MapFails, MapCode, EndOfMap, EmitSection, EmitNothing,
         EmitCode, EmitFails, Reading
<1>4. FileInv' /\ file = Leftover
  BY <1>3 DEF FileInv
<1>5. ASSUME Len(program)' <= VM_PROGRAM_MEM PROVE (Len(file.words) <= VM_PROGRAM_MEM)'
  BY <1>3, <1>4 DEF TypeOK
<1>6. CASE MapSection
  <2>1. DOMAIN starts' = DOMAIN locals' /\ DOMAIN starts' \subseteq DOMAIN symbols'
    BY <1>6 DEF MapSection, TypeOK, Put
  <2>2. counter' \in Nat /\ globalStart' \in 0..counter'
    BY <1>6 DEF MapSection, TypeOK
  <2>3. /\ at' = at + 1 /\ Reading(1)
        /\ UNCHANGED <<program, ramData>>
    BY <1>6 DEF MapSection
  <2> QED
    BY <1>2, <1>3, <1>4, <2>1, <2>2, <2>3 DEF TypeOK
<1>7. CASE MapData
  <2>1. ramData' \in Seq(Data)
    BY <1>7, LineThere, DataWordsTyped, ConcatProperties DEF MapData
  <2>2. DOMAIN symbols \subseteq DOMAIN symbols'
    BY <1>7 DEF MapData, PutIfAbsent, Put
  <2>3. /\ at' = at + 1 /\ Reading(1)
        /\ UNCHANGED <<program, counter, starts, locals, globalStart>>
    BY <1>7 DEF MapData
  <2> QED
    BY <1>2, <1>3, <1>4, <2>1, <2>2, <2>3 DEF TypeOK
<1>8. CASE MapFails \/ EmitFails \/ EndOfMap
  <2>1. UNCHANGED <<program, counter, starts, locals, globalStart, symbols, ramData>>
    BY <1>8 DEF MapFails, EmitFails, EndOfMap
  <2>2. at' \in {at, 1}
    BY <1>8 DEF MapFails, EmitFails, EndOfMap
  <2> QED
    BY <1>1, <1>3, <1>4, <2>1, <2>2 DEF TypeOK
<1>9. CASE MapCode
  <2>1. counter' \in Nat /\ counter <= counter'
    <3>1. getInstructionWordCount(Line) \in 1..3
      BY DEF getInstructionWordCount
    <3>2. counter' \in {counter, counter + getInstructionWordCount(Line)}
      BY <1>9 DEF MapCode
    <3> HIDE DEF getInstructionWordCount
    <3>3. counter \in Nat
      BY DEF TypeOK
    <3> QED
      BY <3>1, <3>2, <3>3
  <2>2. /\ at' = at + 1 /\ Reading(1)
        /\ UNCHANGED <<program, starts, locals, globalStart, symbols, ramData>>
    BY <1>9 DEF MapCode
  <2> QED
    BY <1>2, <1>3, <1>4, <2>1, <2>2 DEF TypeOK
<1>10. CASE EmitSection \/ EmitNothing
  <2>1. /\ at' = at + 1 /\ Reading(2)
        /\ UNCHANGED <<program, counter, starts, locals, globalStart, symbols, ramData>>
    BY <1>10 DEF EmitSection, EmitNothing
  <2> QED
    BY <1>2, <1>3, <1>4, <2>1 DEF TypeOK
<1>11. CASE EmitCode
  <2>1. IsSeq(program') /\ Len(program') <= VM_PROGRAM_MEM
    BY <1>11, EmitCodeStep DEF EmitCode, RoomFor
  <2>2. DOMAIN locals' = DOMAIN locals
    BY <1>11 DEF EmitCode, getOrCreateLocal
  <2>3. /\ at' = at + 1 /\ Reading(2)
        /\ UNCHANGED <<counter, starts, globalStart, symbols, ramData>>
    BY <1>11 DEF EmitCode
  <2> QED
    BY <1>2, <1>3, <1>4, <2>1, <2>2, <2>3 DEF TypeOK
<1> QED
  BY <1>6, <1>7, <1>8, <1>9, <1>10, <1>11

\* ... and so does each write, which adds to the file what comes next.
LEMMA WritesTyped ==
  ASSUME AsmInv,
         OpenOutput \/ WriteHeader \/ WriteProgram \/ WriteData \/ CloseOutput \/ WriteFails
  PROVE  AsmInv'
<1> USE DEF AsmInv, Typed
<1>1. /\ UNCHANGED <<source, at, counter, addresses, locals, program>>
      /\ pass' \in 0..6
  BY DEF OpenOutput, WriteHeader, WriteProgram, WriteData, CloseOutput, WriteFails, Writes
<1>2. Len(ramData) \in Nat /\ Len(program) \in Nat
  BY LenProperties DEF IsSeq
<1>3. UNCHANGED <<HeaderOnly, ramData>> /\ \A n : UNCHANGED Written(n)
  BY <1>1 DEF addresses, HeaderOnly, Written
<1>4. FileInv'
  <2>1. CASE OpenOutput
    BY <2>1 DEF OpenOutput, Writes, FileInv
  <2>2. CASE WriteHeader
    <3>1. pass' = 4 /\ file = NoFile
      BY <2>2 DEF WriteHeader, Writes, FileInv
    <3>2. file' = HeaderOnly
      BY <2>2, <3>1 DEF WriteHeader, NoFile, HeaderOnly
    <3> QED
      BY <3>1, <3>2, <1>3 DEF FileInv
  <2>3. CASE WriteProgram
    <3>1. pass' = 5 /\ file = HeaderOnly
      BY <2>3 DEF WriteProgram, Writes, FileInv
    <3>2. SubSeq(ramData, 1, 0) = <<>>
      BY SubSeqEmpty
    <3>3. file' = Written(0)
      BY <2>3, <3>1, <3>2 DEF WriteProgram, HeaderOnly, Written
    <3> QED
      BY <3>1, <3>3, <1>2, <1>3 DEF FileInv
  <2>4. CASE WriteData
    <3>1. pass' = 5 /\ pass = 5
      BY <2>4 DEF WriteData, Writes
    <3>2. PICK n \in 0..Len(ramData) : file = Written(n)
      BY <3>1 DEF FileInv
    <3>3. file.data = SubSeq(ramData, 1, n) /\ Len(file.data) < Len(ramData)
      BY <2>4, <3>2 DEF WriteData, Written
    <3>4. n < Len(ramData)
      <4>1. n = Len(ramData) => SubSeq(ramData, 1, n) = ramData
        BY SubSeqFull
      <4> QED
        BY <3>3, <4>1, <1>2
    <3>5. file' = Written(n + 1)
      <4>1. /\ Len(SubSeq(ramData, 1, n)) = n
            /\ Append(SubSeq(ramData, 1, n), ramData[n + 1]) = SubSeq(ramData, 1, n + 1)
        BY <3>4, OneMoreWord
      <4>2. Append(file.data, ramData[Len(file.data) + 1]) = SubSeq(ramData, 1, n + 1)
        BY <3>3, <4>1
      <4>3. file' = [file EXCEPT !.data = SubSeq(ramData, 1, n + 1)]
        BY <2>4, <4>2 DEF WriteData
      <4> QED
        BY <3>2, <4>3 DEF Written
    <3>6. n + 1 \in 0..Len(ramData)
      BY <3>4, <1>2
    <3> QED
      BY <3>1, <3>5, <3>6, <1>3 DEF FileInv
  <2>5. CASE CloseOutput
    BY <2>5, <1>3 DEF CloseOutput, Writes, FileInv
  <2>6. CASE WriteFails
    BY <2>6, <1>3 DEF WriteFails, Writes, FileInv
  <2> QED
    BY <2>1, <2>2, <2>3, <2>4, <2>5, <2>6
<1>5. (Len(file.words) <= VM_PROGRAM_MEM)'
  <2>1. Len(program)' <= VM_PROGRAM_MEM /\ Len(program)' \in Nat
    BY <1>1, <1>2 DEF TypeOK
  <2>2. (Len(Leftover.words) \in 0..VM_PROGRAM_MEM) /\ Len(<<>>) = 0 /\ VM_PROGRAM_MEM \in Nat
    BY AssemblerAssumption, EmptySeq
  <2>3. \/ file' \in {Leftover, NoFile, HeaderOnly'}
        \/ \E n : file' = Written(n)'
    BY <1>1, <1>4 DEF FileInv
  <2> QED
    BY <2>1, <2>2, <2>3 DEF NoFile, HeaderOnly, Written
<1> QED
  BY <1>1, <1>4, <1>5 DEF addresses, TypeOK

\* Every step of the assembler keeps the types and what is known of the file.
LEMMA AsmStep == AsmInv /\ [Next]_vars => AsmInv'
<1>1. AsmInv /\ Next => AsmInv'
  BY PassesTyped, WritesTyped DEF Next
<1>2. AsmInv /\ UNCHANGED vars => AsmInv'
  BY DEF vars, addresses, AsmInv, Typed, TypeOK, FileInv, HeaderOnly, Written
<1> QED
  BY <1>1, <1>2

\* A text that is to be assembled has been read, and nothing else happened.
LEMMA AsmInit == Init => AsmInv
<1> SUFFICES ASSUME Init PROVE AsmInv
  OBVIOUS
<1>1. source \in Seq(Lines) /\ VM_PROGRAM_MEM \in Nat /\ Len(Leftover.words) <= VM_PROGRAM_MEM
  BY AssemblerAssumption DEF Init
<1>2. Len(source) \in Nat
  BY <1>1, LenProperties
<1>3. <<>> \in Seq({}) /\ <<>> \in Seq(Data) /\ Len(<<>>) = 0
  BY EmptySeq
<1>4. IsSeq(program)
  BY <1>3, SeqOfItsOwn DEF Init
<1>5. TypeOK
  BY <1>1, <1>2, <1>3 DEF Init, TypeOK, NoEntries
<1> QED
  BY <1>1, <1>3, <1>4, <1>5 DEF Init, AsmInv, Typed, FileInv

\* For all sources: the program never exceeds the program memory, nor does the
\* code in the file; subroutines have a start, locals and a symbol; ::_global
\* starts inside what was counted.
THEOREM AssemblerTypes == Spec => []TypeOK
<1>1. AsmInv => TypeOK
  BY DEF AsmInv, Typed
<1> QED
  BY <1>1, AsmInit, AsmStep, PTL DEF Spec

----------------------------------------------------------------------------
(* Both passes count the same words.                                        *)

\* Up to line n of a text: whether line k stands in a data section, D[k], and how
\* many words of code are before it, C[k].
Counts(text, C, D, n) ==
  /\ C \in [1..n -> Nat] /\ D \in [1..n -> BOOLEAN]
  /\ C[1] = 0 /\ D[1] = FALSE
  /\ \A k \in 1..(n - 1) :
       /\ D[k + 1] = IF IsHeader(text[k]) THEN text[k].name \in DataSections ELSE D[k]
       /\ C[k + 1] = IF IsHeader(text[k]) \/ D[k] THEN C[k]
                     ELSE C[k] + getInstructionWordCount(text[k])

\* Each start is that of the last header of the name before line n.
StartsAt(text, where, C, n) ==
  \A name \in DOMAIN where :
    /\ name \notin DataSections
    /\ \E h \in Headers(text, name) :
         /\ h < n /\ where[name] = C[h]
         /\ \A j \in Headers(text, name) : j < n => j <= h

\* Word p of the program is of a line before k if it is one of the first C[k].
PlacedBy(words, C, n) ==
  /\ \A p \in 1..Len(words) : words[p].line \in Nat
  /\ \A k \in 1..n : C[k] <= Len(words)
  /\ \A k \in 1..n, p \in 1..Len(words) : words[p].line < k <=> p <= C[k]

FirstPass(C, D) ==
  /\ Counts(source, C, D, at) /\ StartsAt(source, starts, C, at)
  /\ C[at] = counter /\ (section \in DataSections <=> D[at])
  /\ at > 1 => section \in DataSections \cup {"code"}
  /\ program = <<>>

SecondPass(C, D) ==
  /\ Counts(source, C, D, Len(source) + 1) /\ StartsAt(source, starts, C, Len(source) + 1)
  /\ C[at] = Len(program) /\ (section \in DataSections <=> D[at])
  /\ PlacedBy(program, C, at)

Done(C, D) ==
  /\ StartsAt(source, starts, C, Len(source) + 1)
  /\ C \in [1..(Len(source) + 1) -> Nat]
  /\ PlacedBy(program, C, Len(source) + 1)

MapInv ==
  ~LeadingCode(source) =>
    \E C, D : /\ pass = 1 => FirstPass(C, D)
              /\ pass = 2 => SecondPass(C, D)
              /\ pass = 3 => Done(C, D)

\* What the second pass emits for an instruction is what the first has counted.
LEMMA SameCount ==
  ASSUME NEW line, line.args \in Seq(STRING), ~Malformed(line)
  PROVE  WordsOf(line) = getInstructionWordCount(line)
<1>1. Len(line.args) \in Nat /\ (Len(line.args) = 0 <=> line.args = <<>>)
  BY EmptySeq, LenProperties
<1>2. \A n \in Nat : n <= Len(line.args) => Len(SubSeq(line.args, 1, n)) = n
  <2> SUFFICES ASSUME NEW n \in Nat, n <= Len(line.args) PROVE Len(SubSeq(line.args, 1, n)) = n
    OBVIOUS
  <2>1. \A i \in 1..n : line.args[i] \in STRING
    BY <1>1, ElementOfSeq
  <2>2. Len(SubSeq(line.args, 1, n)) = IF 1 <= n THEN n - 1 + 1 ELSE 0
    BY <2>1, SubSeqProperties
  <2> QED
    BY <2>2
<1>3. CASE line.op \in ZeroOperand
  <2>1. Len(OperandTokens(line)) = 0
    BY <1>1, <1>2, <1>3 DEF OperandTokens
  <2>2. line.op \notin StoresImmediate \cup StoresLocal \cup Pushes \cup Jumps \cup UsesLocal
                         \cup OptionalOperand
    BY <1>3 DEF ZeroOperand, StoresImmediate, StoresLocal, Pushes, Jumps, UsesLocal, OptionalOperand
  <2> QED
    BY <2>1, <2>2 DEF WordsOf, getInstructionWordCount
<1>4. CASE line.op \in StoresImmediate \cup StoresLocal
  <2>1. line.op \notin ZeroOperand
    BY <1>4 DEF ZeroOperand, StoresImmediate, StoresLocal
  <2>2. Len(line.args) >= 2
    BY <1>1, <1>4 DEF Malformed
  <2>3. Len(OperandTokens(line)) = 2
    <3>1. OperandTokens(line) =
            IF Len(line.args) <= 2 THEN line.args ELSE SubSeq(line.args, 1, 2)
      BY <1>4, <2>1 DEF OperandTokens
    <3>2. Len(SubSeq(line.args, 1, 2)) = 2
      BY <1>2, <2>2
    <3>3. CASE Len(line.args) = 2
      BY <3>1, <3>3
    <3>4. CASE Len(line.args) # 2
      <4>1. OperandTokens(line) = SubSeq(line.args, 1, 2)
        BY <1>1, <2>2, <3>1, <3>4
      <4> QED
        BY <3>2, <4>1, Zenon
    <3> QED
      BY <3>3, <3>4
  <2> QED
    BY <1>4, <2>3 DEF WordsOf, getInstructionWordCount
<1>5. CASE line.op \in Pushes \cup Jumps \cup UsesLocal \cup OptionalOperand
  <2>1. line.op \notin ZeroOperand \cup StoresImmediate \cup StoresLocal
    BY <1>5 DEF ZeroOperand, StoresImmediate, StoresLocal, Pushes, Jumps, UsesLocal, OptionalOperand
  <2>2. line.op \in OptionalOperand => line.op \notin Pushes \cup Jumps \cup UsesLocal
    BY DEF Pushes, Jumps, UsesLocal, OptionalOperand
  <2>3. line.op \notin OptionalOperand => Len(line.args) >= 1
    BY <1>1, <1>5 DEF Malformed
  <2>4. Len(OperandTokens(line)) = IF Len(line.args) = 0 THEN 0 ELSE 1
    BY <1>1, <1>2, <2>1 DEF OperandTokens
  <2> QED
    BY <1>1, <1>5, <2>1, <2>2, <2>3, <2>4 DEF WordsOf, getInstructionWordCount
<1> QED
  BY <1>3, <1>4, <1>5 DEF Malformed, Mnemonics

\* The counts of one more line.
LEMMA OneMoreLine ==
  ASSUME NEW text, NEW C, NEW D, NEW n \in Nat \ {0}, Counts(text, C, D, n),
         NEW c \in Nat, NEW d \in BOOLEAN,
         d = (IF IsHeader(text[n]) THEN text[n].name \in DataSections ELSE D[n]),
         c = (IF IsHeader(text[n]) \/ D[n] THEN C[n] ELSE C[n] + getInstructionWordCount(text[n]))
  PROVE  \E C2, D2 :
           /\ Counts(text, C2, D2, n + 1)
           /\ C2[n + 1] = c /\ D2[n + 1] = d
           /\ \A k \in 1..n : C2[k] = C[k]
<1> DEFINE C2 == [k \in 1..(n + 1) |-> IF k = n + 1 THEN c ELSE C[k]]
           D2 == [k \in 1..(n + 1) |-> IF k = n + 1 THEN d ELSE D[k]]
<1>1. /\ C \in [1..n -> Nat] /\ D \in [1..n -> BOOLEAN] /\ C[1] = 0 /\ D[1] = FALSE
      /\ \A k \in 1..(n - 1) :
           /\ D[k + 1] = IF IsHeader(text[k]) THEN text[k].name \in DataSections ELSE D[k]
           /\ C[k + 1] = IF IsHeader(text[k]) \/ D[k] THEN C[k]
                         ELSE C[k] + getInstructionWordCount(text[k])
  BY DEF Counts
<1>2. C2 \in [1..(n + 1) -> Nat] /\ D2 \in [1..(n + 1) -> BOOLEAN]
  <2>1. \A k \in 1..(n + 1) : k # n + 1 => k \in 1..n
    OBVIOUS
  <2> QED
    BY <1>1, <2>1
<1>3. C2[1] = 0 /\ D2[1] = FALSE
  BY <1>1
<1>4. /\ C2[n + 1] = c /\ D2[n + 1] = d
      /\ \A k \in 1..n : C2[k] = C[k] /\ D2[k] = D[k]
  OBVIOUS
<1> HIDE DEF C2, D2
<1>5. ASSUME NEW k \in 1..n
      PROVE  /\ D2[k + 1] = IF IsHeader(text[k]) THEN text[k].name \in DataSections ELSE D2[k]
             /\ C2[k + 1] = IF IsHeader(text[k]) \/ D2[k] THEN C2[k]
                            ELSE C2[k] + getInstructionWordCount(text[k])
  <2>1. CASE k = n
    BY <2>1, <1>4
  <2>2. CASE k # n
    <3>1. k \in 1..(n - 1) /\ k + 1 \in 1..n
      BY <2>2
    <3> QED
      BY <3>1, <1>1, <1>4
  <2> QED
    BY <2>1, <2>2
<1>6. Counts(text, C2, D2, n + 1)
  BY <1>2, <1>3, <1>5 DEF Counts
<1> QED
  BY <1>4, <1>6

\* A header is the last of its name so far, ...
LEMMA HeaderMapped ==
  ASSUME NEW text, NEW where, NEW C, NEW C2, NEW n \in Nat \ {0}, n \in DOMAIN text,
         DOMAIN text \subseteq Nat,
         StartsAt(text, where, C, n), \A k \in 1..n : C2[k] = C[k], 0 \notin DOMAIN text,
         IsHeader(text[n]), text[n].name \notin DataSections
  PROVE  StartsAt(text, Put(where, text[n].name, C[n]), C2, n + 1)
<1> DEFINE where2 == Put(where, text[n].name, C[n])
<1> SUFFICES ASSUME NEW name \in DOMAIN where2
             PROVE  /\ name \notin DataSections
                    /\ \E h \in Headers(text, name) :
                         /\ h < n + 1 /\ where2[name] = C2[h]
                         /\ \A j \in Headers(text, name) : j < n + 1 => j <= h
  BY DEF StartsAt
<1>1. CASE name = text[n].name
  <2>1. n \in Headers(text, name) /\ where2[name] = C2[n]
    BY <1>1 DEF Headers, Put
  <2>2. \A j \in Headers(text, name) : j < n + 1 => j <= n
    BY DEF Headers
  <2> QED
    BY <1>1, <2>1, <2>2
<1>2. CASE name # text[n].name
  <2>1. name \in DOMAIN where /\ where2[name] = where[name]
    BY <1>2 DEF Put
  <2>2. PICK h \in Headers(text, name) :
          /\ h < n /\ where[name] = C[h]
          /\ \A j \in Headers(text, name) : j < n => j <= h
    BY <2>1 DEF StartsAt
  <2>3. h \in 1..n /\ h < n + 1
    BY <2>2 DEF Headers
  <2>4. \A j \in Headers(text, name) : j < n + 1 => j < n
    BY <1>2 DEF Headers
  <2> QED
    BY <2>1, <2>2, <2>3, <2>4 DEF StartsAt
<1> QED
  BY <1>1, <1>2

\* ... and another line, or the header of a data section, changes no start.
LEMMA NothingMapped ==
  ASSUME NEW text, NEW where, NEW C, NEW C2, NEW n \in Nat \ {0},
         DOMAIN text \subseteq Nat, 0 \notin DOMAIN text,
         StartsAt(text, where, C, n), \A k \in 1..n : C2[k] = C[k],
         ~IsHeader(text[n]) \/ text[n].name \in DataSections
  PROVE  StartsAt(text, where, C2, n + 1)
<1> SUFFICES ASSUME NEW name \in DOMAIN where
             PROVE  \E h \in Headers(text, name) :
                      /\ h < n + 1 /\ where[name] = C2[h]
                      /\ \A j \in Headers(text, name) : j < n + 1 => j <= h
  BY DEF StartsAt
<1>1. PICK h \in Headers(text, name) :
        /\ h < n /\ where[name] = C[h]
        /\ \A j \in Headers(text, name) : j < n => j <= h
  BY DEF StartsAt
<1>2. h \in 1..n /\ h < n + 1
  BY <1>1 DEF Headers
<1>3. \A j \in Headers(text, name) : j < n + 1 => j < n
  BY DEF Headers, StartsAt
<1> QED
  BY <1>1, <1>2, <1>3

\* Nothing is mapped and nothing is emitted.
LEMMA MapInit == Init => MapInv
<1> SUFFICES ASSUME Init PROVE MapInv
  OBVIOUS
<1> DEFINE C == [k \in 1..1 |-> 0]
           D == [k \in 1..1 |-> FALSE]
<1>1. Counts(source, C, D, 1)
  BY DEF Counts
<1>2. StartsAt(source, starts, C, 1)
  BY DEF Init, NoEntries, StartsAt
<1>3. section \notin DataSections
  BY DEF Init, NoName, DataSections
<1>4. FirstPass(C, D)
  BY <1>1, <1>2, <1>3 DEF Init, FirstPass
<1> QED
  BY <1>4 DEF Init, MapInv

\* The first pass over one line, ...
LEMMA MapStep ==
  ASSUME AsmInv, MapInv, ~LeadingCode(source), MapSection \/ MapData \/ MapCode
  PROVE  \E C, D : FirstPass(C, D)'
<1>1. /\ pass = 1 /\ Reading(1) /\ at' = at + 1 /\ UNCHANGED <<source, program>>
  BY DEF MapSection, MapData, MapCode, Reading
<1>2. PICK C, D : FirstPass(C, D)
  BY <1>1 DEF MapInv
<1>3. /\ at \in Nat \ {0} /\ at \in DOMAIN source
      /\ DOMAIN source \subseteq Nat /\ 0 \notin DOMAIN source
      /\ at + 1 > 1
  BY <1>1, LineThere, LenProperties DEF AsmInv, Typed
<1>4. C[at] = counter /\ counter \in Nat /\ D[at] \in BOOLEAN
  BY <1>2, <1>3 DEF FirstPass, Counts
<1>5. CASE MapSection
  <2> DEFINE d == Line.name \in DataSections
  <2>1. IsHeader(source[at]) /\ Line = source[at] /\ counter' = counter
    BY <1>5 DEF MapSection, Line
  <2>2. PICK C2, D2 :
          /\ Counts(source, C2, D2, at + 1)
          /\ C2[at + 1] = counter /\ D2[at + 1] = d
          /\ \A k \in 1..at : C2[k] = C[k]
    <3>1. d \in BOOLEAN /\ Counts(source, C, D, at)
      BY <1>2 DEF FirstPass
    <3>2. d = (IF IsHeader(source[at]) THEN source[at].name \in DataSections ELSE D[at])
      BY <2>1
    <3>3. counter = (IF IsHeader(source[at]) \/ D[at] THEN C[at]
                     ELSE C[at] + getInstructionWordCount(source[at]))
      BY <1>4, <2>1
    <3> HIDE DEF d
    <3> QED
      BY <1>3, <1>4, <3>1, <3>2, <3>3, OneMoreLine
  <2>3. (section' \in DataSections <=> d) /\ section' \in DataSections \cup {"code"}
    BY <1>5 DEF MapSection, DataSections
  <2>4. StartsAt(source, starts', C2, at + 1)
    <3>1. CASE d
      BY <1>2, <1>3, <1>5, <2>1, <2>2, <3>1, NothingMapped DEF MapSection, FirstPass
    <3>2. CASE ~d
      <4>1. starts' = Put(starts, source[at].name, C[at])
        BY <1>4, <1>5, <2>1, <3>2 DEF MapSection
      <4> QED
        BY <1>2, <1>3, <2>1, <2>2, <3>2, <4>1, HeaderMapped DEF FirstPass
    <3> QED
      BY <3>1, <3>2
  <2>5. FirstPass(C2, D2)'
    BY <1>1, <1>2, <1>3, <2>1, <2>2, <2>3, <2>4 DEF FirstPass
  <2> QED
    BY <2>5
<1>6. CASE MapData \/ MapCode
  <2>1. /\ ~IsHeader(source[at]) /\ Line = source[at] /\ section' = section
        /\ UNCHANGED starts
    BY <1>6 DEF MapData, MapCode, Line, addresses
  <2>2. section \in DataSections \cup {"code"}
    <3>1. at = 1 => LeadingCode(source)
      BY <1>3, <2>1 DEF LeadingCode
    <3> QED
      BY <1>2, <1>3, <3>1 DEF FirstPass
  <2>3. /\ counter' \in Nat
        /\ counter' = IF D[at] THEN C[at] ELSE C[at] + getInstructionWordCount(source[at])
    BY <1>2, <1>4, <1>6, <2>1, <2>2
       DEF MapData, MapCode, FirstPass, DataSections, getInstructionWordCount
  <2>4. PICK C2, D2 :
          /\ Counts(source, C2, D2, at + 1)
          /\ C2[at + 1] = counter' /\ D2[at + 1] = D[at]
          /\ \A k \in 1..at : C2[k] = C[k]
    <3> HIDE DEF Line
    <3> QED
      BY <1>2, <1>3, <1>4, <2>1, <2>3, OneMoreLine DEF FirstPass
  <2>5. StartsAt(source, starts, C2, at + 1)
    BY <1>2, <1>3, <2>1, <2>4, NothingMapped DEF FirstPass
  <2>6. FirstPass(C2, D2)'
    BY <1>1, <1>2, <1>3, <2>1, <2>2, <2>4, <2>5 DEF FirstPass
  <2> QED
    BY <2>6
<1> QED
  BY <1>5, <1>6

\* ... and the start of the second.
LEMMA MapEnds ==
  ASSUME AsmInv, MapInv, ~LeadingCode(source), EndOfMap, pass' = 2
  PROVE  \E C, D : SecondPass(C, D)'
<1>1. PICK C, D : FirstPass(C, D)
  BY DEF EndOfMap, MapInv
<1>2. at = Len(source) + 1 /\ Len(source) \in Nat
  BY LenProperties DEF AsmInv, Typed, TypeOK, EndOfMap
<1>3. /\ Counts(source, C, D, Len(source) + 1)
      /\ StartsAt(source, starts, C, Len(source) + 1)
      /\ C[1] = 0 /\ D[1] = FALSE /\ program = <<>>
  BY <1>1, <1>2 DEF FirstPass, Counts
<1>4. /\ at' = 1 /\ section' \notin DataSections
      /\ UNCHANGED <<source, starts, program>>
  BY DEF EndOfMap, NoName, DataSections, addresses
<1>5. PlacedBy(program, C, 1)
  BY <1>3, EmptySeq DEF PlacedBy
<1>6. SecondPass(C, D)'
  BY <1>3, <1>4, <1>5, EmptySeq DEF SecondPass
<1> QED
  BY <1>6

\* A line of the second pass takes the words the first has counted for it, and
\* they go behind those of the lines before it.
LEMMA EmitStep ==
  ASSUME AsmInv, MapInv, ~LeadingCode(source), EmitSection \/ EmitNothing \/ EmitCode
  PROVE  \E C, D : SecondPass(C, D)'
<1>1. /\ pass = 2 /\ Reading(2) /\ at' = at + 1 /\ UNCHANGED <<source, starts>>
  BY DEF EmitSection, EmitNothing, EmitCode, Reading, addresses
<1>2. PICK C, D : SecondPass(C, D)
  BY <1>1 DEF MapInv
<1>3. /\ at \in 1..Len(source) /\ Len(source) \in Nat
      /\ Len(program) \in Nat /\ Line = source[at]
  BY <1>1, LineThere, LenProperties DEF AsmInv, Typed, IsSeq, Line
<1>4. /\ C[at] = Len(program) /\ (section \in DataSections <=> D[at])
      /\ D[at + 1] = IF IsHeader(Line) THEN Line.name \in DataSections ELSE D[at]
      /\ C[at + 1] = IF IsHeader(Line) \/ D[at] THEN C[at]
                     ELSE C[at] + getInstructionWordCount(Line)
  BY <1>2, <1>3 DEF SecondPass, Counts
<1>5. section' \in DataSections <=> D[at + 1]
  <2>1. section' = IF IsHeader(Line) THEN Line.name ELSE section
    BY DEF EmitSection, EmitNothing, EmitCode
  <2> QED
    BY <1>4, <2>1
<1>6. /\ \A p \in 1..Len(program) : program[p].line \in Nat
      /\ \A k \in 1..at : C[k] <= Len(program)
      /\ \A k \in 1..at, p \in 1..Len(program) : program[p].line < k <=> p <= C[k]
  BY <1>2 DEF SecondPass, PlacedBy
<1>7. C[at + 1] = Len(program') /\ PlacedBy(program', C, at + 1)
  <2>1. CASE EmitSection \/ EmitNothing
    <3>1. program' = program /\ C[at + 1] = Len(program)
      BY <1>4, <2>1 DEF EmitSection, EmitNothing
    <3>2. \A p \in 1..Len(program) : program[p].line < at + 1
      BY <1>3, <1>4, <1>6
    <3>3. ASSUME NEW k \in 1..(at + 1)
          PROVE  /\ C[k] <= Len(program)
                 /\ \A p \in 1..Len(program) : program[p].line < k <=> p <= C[k]
      <4>1. CASE k = at + 1
        BY <1>3, <3>1, <3>2, <4>1
      <4>2. CASE k # at + 1
        <5>1. k \in 1..at
          BY <1>3, <4>2
        <5> QED
          BY <1>6, <5>1
      <4> QED
        BY <4>1, <4>2
    <3> QED
      BY <1>6, <3>1, <3>3 DEF PlacedBy
  <2>2. CASE EmitCode
    <3> DEFINE n == WordsOf(Line)
    <3>1. ~IsHeader(Line) /\ ~D[at] /\ ~Malformed(Line)
      BY <1>4, <2>2 DEF EmitCode
    <3>2. n = getInstructionWordCount(Line)
      BY <1>1, <3>1, LineThere, SameCount DEF AsmInv
    <3>3. /\ n \in Nat \ {0} /\ Len(program') = Len(program) + n
          /\ \A p \in 1..Len(program) : program'[p] = program[p]
          /\ \A p \in (Len(program) + 1)..(Len(program) + n) : program'[p].line = at
      BY <2>2, EmitCodeStep DEF AsmInv
    <3>4. C[at + 1] = Len(program')
      BY <1>4, <3>1, <3>2, <3>3
    <3> HIDE DEF n
    <3>5. ASSUME NEW p \in 1..Len(program')
          PROVE  /\ program'[p].line \in Nat /\ program'[p].line < at + 1
                 /\ p <= Len(program) => program'[p].line = program[p].line
                 /\ p > Len(program) => program'[p].line = at
      <4>1. CASE p <= Len(program)
        <5>1. p \in 1..Len(program) /\ program'[p] = program[p]
          BY <1>3, <3>3, <4>1
        <5>2. program[p].line < at
          BY <1>3, <1>4, <1>6, <5>1
        <5> QED
          BY <1>3, <1>6, <4>1, <5>1, <5>2
      <4>2. CASE p > Len(program)
        <5>1. p \in (Len(program) + 1)..(Len(program) + n)
          BY <1>3, <3>3, <4>2
        <5> QED
          BY <1>3, <3>3, <4>2, <5>1
      <4> QED
        BY <1>3, <4>1, <4>2
    <3>6. ASSUME NEW k \in 1..(at + 1)
          PROVE  /\ C[k] <= Len(program')
                 /\ \A p \in 1..Len(program') : program'[p].line < k <=> p <= C[k]
      <4>1. CASE k = at + 1
        BY <1>3, <3>3, <3>4, <3>5, <4>1
      <4>2. CASE k # at + 1
        <5>1. k \in 1..at /\ C[k] <= Len(program) /\ C[k] \in Nat
          <6>1. k \in 1..at /\ k \in 1..(Len(source) + 1)
            BY <1>3, <4>2
          <6>2. C \in [1..(Len(source) + 1) -> Nat]
            BY <1>2 DEF SecondPass, Counts
          <6> QED
            BY <1>6, <6>1, <6>2
        <5>2. ASSUME NEW p \in 1..Len(program') PROVE program'[p].line < k <=> p <= C[k]
          <6>1. CASE p <= Len(program)
            <7>1. p \in 1..Len(program)
              BY <1>3, <6>1
            <7>2. program'[p].line = program[p].line
              BY <3>5, <6>1
            <7> QED
              BY <1>6, <5>1, <7>1, <7>2
          <6>2. CASE p > Len(program)
            BY <1>3, <3>5, <5>1, <6>2
          <6> QED
            BY <1>3, <6>1, <6>2
        <5> QED
          BY <1>3, <3>3, <5>1, <5>2
      <4> QED
        BY <4>1, <4>2
    <3> QED
      BY <3>4, <3>5, <3>6 DEF PlacedBy
  <2> QED
    BY <2>1, <2>2
<1>8. SecondPass(C, D)'
  BY <1>1, <1>2, <1>5, <1>7 DEF SecondPass
<1> QED
  BY <1>8

\* Every step of the assembler keeps what the passes have counted.
LEMMA CountsStep == AsmInv /\ MapInv /\ [Next]_vars => MapInv'
<1> SUFFICES ASSUME AsmInv, MapInv, [Next]_vars, ~LeadingCode(source)'
             PROVE  \E C, D : /\ pass' = 1 => FirstPass(C, D)'
                              /\ pass' = 2 => SecondPass(C, D)'
                              /\ pass' = 3 => Done(C, D)'
  BY DEF MapInv
<1>1. ~LeadingCode(source)
  BY DEF Next, vars, MapSection, MapData, MapFails, MapCode, EndOfMap, EmitSection, EmitNothing,
         EmitCode, EmitFails, OpenOutput, WriteHeader, WriteProgram, WriteData, CloseOutput,
         WriteFails, Writes
<1>2. CASE MapSection \/ MapData \/ MapCode
  <2>1. pass' = 1
    BY <1>2 DEF MapSection, MapData, MapCode, Reading
  <2> QED
    BY <1>1, <1>2, <2>1, MapStep
<1>3. CASE EndOfMap
  <2>1. pass' \in {0, 2}
    BY <1>3 DEF EndOfMap
  <2> QED
    BY <1>1, <1>3, <2>1, MapEnds
<1>4. CASE EmitSection \/ EmitNothing \/ EmitCode
  <2>1. pass' = 2
    BY <1>4 DEF EmitSection, EmitNothing, EmitCode, Reading
  <2> QED
    BY <1>1, <1>4, <2>1, EmitStep
<1>5. CASE OpenOutput
  <2>1. /\ pass = 2 /\ pass' = 3 /\ at > Len(source)
        /\ UNCHANGED <<source, starts, program>>
    BY <1>5 DEF OpenOutput, Writes, addresses
  <2>2. PICK C, D : SecondPass(C, D)
    BY <1>1, <2>1 DEF MapInv
  <2>3. at = Len(source) + 1
    BY <2>1, LenProperties DEF AsmInv, Typed, TypeOK
  <2>4. Done(C, D)'
    BY <2>1, <2>2, <2>3 DEF Done, SecondPass, Counts
  <2> QED
    BY <2>1, <2>4
<1>6. CASE \/ MapFails \/ EmitFails
           \/ WriteHeader \/ WriteProgram \/ WriteData \/ CloseOutput \/ WriteFails
  <2>1. pass' \notin {1, 2, 3}
    BY <1>6 DEF MapFails, EmitFails, WriteHeader, WriteProgram, WriteData, CloseOutput, WriteFails,
                Writes
  <2> QED
    BY <2>1
<1>7. CASE UNCHANGED vars
  BY <1>1, <1>7 DEF vars, addresses, MapInv, FirstPass, SecondPass, Done
<1> QED
  BY <1>2, <1>3, <1>4, <1>5, <1>6, <1>7 DEF Next

\* For every source in which nothing stands before the first header: when all
\* words are emitted, as many are before the last header of a subroutine as the
\* first pass has counted, so that a CALL goes to its first instruction.
THEOREM PassesAgree == Spec => []CodeWhereMapped
<1>1. ASSUME AsmInv, MapInv PROVE CodeWhereMapped
  <2> SUFFICES ASSUME pass = 3, ~LeadingCode(source), NEW name \in DOMAIN starts
               PROVE  starts[name] = WordsBefore(LastHeader(source, name))
    BY DEF CodeWhereMapped, Emitted
  <2>1. PICK C, D : Done(C, D)
    BY <1>1 DEF MapInv
  <2>2. Len(source) \in Nat /\ DOMAIN source = 1..Len(source)
    BY <1>1, LenProperties DEF AsmInv, Typed
  <2>3. PICK h \in Headers(source, name) :
          /\ starts[name] = C[h]
          /\ \A j \in Headers(source, name) : j < Len(source) + 1 => j <= h
    BY <2>1 DEF Done, StartsAt
  <2>4. h \in 1..Len(source) /\ \A j \in Headers(source, name) : j <= h /\ j \in 1..Len(source)
    BY <2>2, <2>3 DEF Headers
  <2>5. LastHeader(source, name) = h
    <3>1. \A j \in Headers(source, name) :
            (\A i \in Headers(source, name) : i <= j) => j = h
      <4> SUFFICES ASSUME NEW j \in Headers(source, name),
                          \A i \in Headers(source, name) : i <= j
                   PROVE  j = h
        OBVIOUS
      <4>1. h <= j /\ j <= h /\ j \in Nat /\ h \in Nat
        BY <2>2, <2>3, <2>4
      <4> QED
        BY <4>1
    <3>2. \A i \in Headers(source, name) : i <= h
      BY <2>4
    <3> HIDE DEF Headers
    <3> QED
      BY <2>3, <3>1, <3>2 DEF LastHeader
  <2>6. Len(program) \in Nat /\ DOMAIN program = 1..Len(program)
    BY <1>1, LenProperties DEF AsmInv, Typed, IsSeq
  <2>7. /\ C[h] \in Nat /\ C[h] <= Len(program)
        /\ \A p \in 1..Len(program) : program[p].line < h <=> p <= C[h]
    <3>1. h \in 1..(Len(source) + 1)
      BY <2>2, <2>4
    <3>2. C \in [1..(Len(source) + 1) -> Nat] /\ PlacedBy(program, C, Len(source) + 1)
      BY <2>1 DEF Done
    <3>3. C[h] \in Nat
      BY <3>1, <3>2
    <3>4. C[h] <= Len(program)
      BY <3>1, <3>2 DEF PlacedBy
    <3> QED
      BY <3>1, <3>2, <3>3, <3>4 DEF PlacedBy
  <2>8. {p \in DOMAIN program : program[p].line < h} = 1..C[h]
    BY <2>6, <2>7
  <2>9. Cardinality(1..C[h]) = C[h]
    BY <2>7, FS_Interval
  <2> QED
    BY <2>3, <2>5, <2>8, <2>9 DEF WordsBefore
<1>2. Init => AsmInv /\ MapInv
  BY AsmInit, MapInit
<1>3. AsmInv /\ MapInv /\ [Next]_vars => (AsmInv /\ MapInv)'
  BY AsmStep, CountsStep
<1>4. AsmInv /\ MapInv => CodeWhereMapped
  BY <1>1
<1> QED
  BY <1>2, <1>3, <1>4, PTL DEF Spec

----------------------------------------------------------------------------
(* The VM fetches what was emitted.                                         *)

\* An instruction has the operands behind it that the VM fetches, and then there
\* is another one, or the end.
DecodesAt(words, p) ==
  LET next == p + 1 + Fetches(words[p].op)
  IN  /\ next <= Len(words) => words[next].op # "operand"
      /\ next <= Len(words) + 1
      /\ \A q \in (p + 1)..(next - 1) : words[q].op = "operand"

Decoded ==
  ~UndocumentedOperand =>
    \A p \in DOMAIN program : program[p].op # "operand" => DecodesAt(program, p)

\* No instruction without an optional operand has more or fewer words than the VM
\* fetches.
LEMMA FetchesAll ==
  ASSUME NEW line, line.args \in Seq(STRING), ~Malformed(line),
         line.op \in OptionalOperand => line.args = <<>>
  PROVE  WordsOf(line) = 1 + Fetches(line.op) /\ Fetches(line.op) \in 0..2
BY SameCount DEF getInstructionWordCount, Fetches

\* What is emitted stays decodable, instruction by instruction.
LEMMA DecodedStep == AsmInv /\ Decoded /\ [Next]_vars => Decoded'
<1> SUFFICES ASSUME AsmInv, Decoded, [Next]_vars, ~UndocumentedOperand',
                    NEW p \in DOMAIN program', program'[p].op # "operand"
             PROVE  DecodesAt(program', p)
  BY DEF Decoded
<1>1. source' = source
  BY DEF Next, vars, MapSection, MapData, MapFails, MapCode, EndOfMap, EmitSection, EmitNothing,
         EmitCode, EmitFails, OpenOutput, WriteHeader, WriteProgram, WriteData, CloseOutput,
         WriteFails, Writes
<1>2. ~UndocumentedOperand
  BY <1>1 DEF UndocumentedOperand
<1>3. CASE EmitCode
  <2> DEFINE n == WordsOf(Line)
             m == Len(program)
             f == Fetches(Line.op)
  <2>1. /\ Line \in Lines /\ Line.args \in Seq(STRING) /\ ~IsHeader(Line) /\ ~Malformed(Line)
        /\ at \in DOMAIN source /\ Line = source[at]
    BY <1>3, LineThere, LenProperties DEF AsmInv, Typed, EmitCode, Line
  <2>2. Line.op \in Mnemonics /\ Line.op # "operand"
    BY <2>1 DEF Malformed, Mnemonics, StoresImmediate, StoresLocal, Pushes, Jumps, UsesLocal,
                OptionalOperand, ZeroOperand
  <2>3. Line.kind = "code"
    BY <2>1, <2>2 DEF Lines, IsHeader
  <2>4. n = 1 + f /\ f \in 0..2
    BY <1>2, <2>1, <2>3, FetchesAll DEF UndocumentedOperand
  <2>5. /\ n \in Nat \ {0} /\ m \in Nat
        /\ IsSeq(program') /\ Len(program') = m + n
        /\ \A q \in 1..m : program'[q] = program[q]
        /\ program'[m + 1].op = Line.op
        /\ \A i \in 1..(n - 1) : program'[m + 1 + i].op = "operand"
    BY <1>3, EmitCodeStep DEF AsmInv
  <2>6. DOMAIN program = 1..m /\ DOMAIN program' = 1..(m + n)
    BY <2>5, LenProperties DEF AsmInv, Typed, IsSeq
  <2> HIDE DEF n, m, f
  <2>7. \A q \in (m + 2)..(m + n) : program'[q].op = "operand"
    <3> SUFFICES ASSUME NEW q \in (m + 2)..(m + n) PROVE program'[q].op = "operand"
      OBVIOUS
    <3>1. m \in Nat /\ n \in Nat
      BY <2>5
    <3>2. q - m - 1 \in 1..(n - 1) /\ q = m + 1 + (q - m - 1)
      BY <3>1
    <3> QED
      BY <2>5, <3>2
  <2>8. CASE p = m + 1
    <3>1. program'[p].op = Line.op /\ p + 1 + Fetches(program'[p].op) = m + n + 1
      BY <2>4, <2>5, <2>8 DEF f
    <3> QED
      BY <2>5, <2>7, <2>8, <3>1 DEF DecodesAt
  <2>9. CASE p # m + 1
    <3>1. p \in 1..m
      BY <2>5, <2>6, <2>7, <2>9
    <3>2. program'[p] = program[p] /\ DecodesAt(program, p)
      BY <1>2, <2>5, <2>6, <3>1 DEF Decoded
    <3> DEFINE next == p + 1 + Fetches(program[p].op)
    <3>3. next \in Nat /\ next <= m + 1
      BY <2>5, <3>1, <3>2 DEF DecodesAt, Fetches, m
    <3>4. next <= m => program[next].op # "operand"
      BY <3>2 DEF DecodesAt, m
    <3>5. \A q \in (p + 1)..(next - 1) : program[q].op = "operand"
      BY <3>2 DEF DecodesAt
    <3>6. next >= 1
      BY <3>1 DEF Fetches
    <3> HIDE DEF next
    <3>7. program'[next].op # "operand"
      <4>1. CASE next <= m
        BY <2>5, <3>3, <3>4, <3>6, <4>1
      <4>2. CASE next = m + 1
        BY <2>2, <2>5, <4>2
      <4> QED
        BY <2>5, <3>3, <4>1, <4>2
    <3>8. \A q \in (p + 1)..(next - 1) : program'[q].op = "operand"
      BY <2>5, <3>1, <3>3, <3>5
    <3> QED
      BY <2>5, <3>2, <3>3, <3>7, <3>8 DEF DecodesAt, next
  <2> QED
    BY <2>8, <2>9
<1>4. CASE program' = program
  BY <1>2, <1>4 DEF Decoded
<1>5. EmitCode \/ program' = program
  BY DEF Next, vars, MapSection, MapData, MapFails, MapCode, EndOfMap, EmitSection, EmitNothing,
         EmitFails, OpenOutput, WriteHeader, WriteProgram, WriteData, CloseOutput, WriteFails, Writes
<1> QED
  BY <1>3, <1>4, <1>5

\* For every source in which LOAD, STORE and OUT stand alone: the VM, fetching its
\* operands behind each opcode, finds the next opcode where the assembler has put
\* it, and none is cut off by the end of the program.
THEOREM OpcodesFound == Spec => []DecodesAsWritten
<1>1. Init => Decoded
  <2>1. Init => DOMAIN program = {}
    BY EmptySeq DEF Init
  <2> QED
    BY <2>1 DEF Decoded
<1>2. Decoded => DecodesAsWritten
  BY DEF Decoded, DecodesAt, DecodesAsWritten
<1> QED
  BY <1>1, <1>2, AsmInit, AsmStep, DecodedStep, PTL DEF Spec

----------------------------------------------------------------------------
(* One offset for each local of a subroutine.                               *)

LocalOps == StoresLocal \cup UsesLocal

\* No two entries of a sequence are the same.
Distinct(s) == IsSeq(s) /\ \A i, j \in DOMAIN s : s[i] = s[j] => i = j

\* Every subroutine has an entry for its locals before the second pass begins.
HeadersKnown ==
  \A h \in DOMAIN source :
    /\ IsHeader(source[h]) /\ source[h].name \notin DataSections
    /\ pass \in {2, 3} \/ (pass = 1 /\ h < at)
    => source[h].name \in DOMAIN locals

\* The subroutine whose locals are used is that of the last header.
UnderHeader ==
  /\ pass = 1 => current = NoName /\ program = <<>>
  /\ pass = 2 =>
       /\ section \notin DataSections => current = section
       /\ section # NoName =>
            \E h \in 1..(at - 1) :
              /\ IsHeader(source[h]) /\ source[h].name = section
              /\ \A j \in (h + 1)..(at - 1) : ~IsHeader(source[j])

\* The last word of an instruction names the local of its line.
NamesLocal(p) ==
  LET last == p + Fetches(program[p].op)
      line == program[p].line
      sub == source[HeaderOf(source, line)].name
  IN  /\ last \in DOMAIN program /\ sub \in DOMAIN locals
      /\ \E i \in DOMAIN locals[sub] :
           program[last].val = i - 1 /\ locals[sub][i] = LocalToken(source[line])

LocalInv ==
  /\ HeadersKnown /\ UnderHeader
  /\ \A name \in DOMAIN locals : Distinct(locals[name])
  /\ pass \in {1, 2, 3} => \A p \in DOMAIN program : program[p].op \in LocalOps => NamesLocal(p)

\* The header of a line is the last one up to it.
LEMMA HeaderIs ==
  ASSUME NEW text, NEW k \in Nat, NEW h \in 1..k, IsHeader(text[h]),
         \A j \in (h + 1)..k : ~IsHeader(text[j])
  PROVE  HeaderOf(text, k) = h
<1> DEFINE Last(i) == IsHeader(text[i]) /\ \A j \in (i + 1)..k : ~IsHeader(text[j])
<1>1. ASSUME NEW i \in 1..k, Last(i) PROVE i = h
  <2>1. ~(i < h) /\ ~(h < i)
    BY <1>1
  <2> QED
    BY <2>1
<1>2. \E i \in 1..k : Last(i)
  OBVIOUS
<1> QED
  BY <1>1, <1>2 DEF HeaderOf

\* The locals of a subroutine after the use of one.
LEMMA LocalThere ==
  ASSUME NEW name, current \in DOMAIN locals,
         \A sub \in DOMAIN locals : Distinct(locals[sub])
  PROVE  LET after == getOrCreateLocal(name)
         IN  /\ DOMAIN after = DOMAIN locals
             /\ \A sub \in DOMAIN after : Distinct(after[sub])
             /\ \A sub \in DOMAIN after : \A i \in DOMAIN locals[sub] :
                  i \in DOMAIN after[sub] /\ after[sub][i] = locals[sub][i]
             /\ \E i \in DOMAIN after[current] :
                  after[current][i] = name /\ OffsetOf(after[current], name) = i - 1
<1> DEFINE after == getOrCreateLocal(name)
           s == locals[current]
<1>1. ASSUME NEW t, Distinct(t), NEW i \in DOMAIN t, t[i] = name
      PROVE  OffsetOf(t, name) = i - 1
  <2>1. \A j \in DOMAIN t : t[j] = name => j = i
    BY <1>1 DEF Distinct
  <2>2. (CHOOSE j \in DOMAIN t : t[j] = name) = i
    BY <1>1, <2>1
  <2> QED
    BY <2>2 DEF OffsetOf
<1>2. CASE HasLocal(name)
  <2>1. after = locals
    BY <1>2 DEF getOrCreateLocal
  <2>2. PICK i \in DOMAIN s : s[i] = name
    BY <1>2 DEF HasLocal
  <2>3. OffsetOf(s, name) = i - 1
    BY <1>1, <2>2
  <2> HIDE DEF after, s
  <2>4. DOMAIN after = DOMAIN locals /\ after[current] = s
    BY <2>1 DEF s
  <2> QED
    BY <2>1, <2>2, <2>3, <2>4 DEF after
<1>3. CASE ~HasLocal(name)
  <2> DEFINE t == Append(s, name)
             S == {s[i] : i \in DOMAIN s} \cup {name}
  <2>1. after = [locals EXCEPT ![current] = t]
    BY <1>3 DEF getOrCreateLocal
  <2>2. IsSeq(s) /\ \A i, j \in DOMAIN s : s[i] = s[j] => i = j
    BY DEF Distinct
  <2>3. s \in Seq(S) /\ name \in S
    BY <2>2, SeqMonotonic DEF IsSeq
  <2> HIDE DEF S
  <2>4. /\ t \in Seq(S) /\ Len(t) = Len(s) + 1 /\ Len(s) \in Nat
        /\ t[Len(s) + 1] = name
        /\ \A i \in 1..Len(s) : t[i] = s[i]
    BY <2>3, AppendProperties, LenProperties
  <2>5. DOMAIN s = 1..Len(s) /\ DOMAIN t = 1..(Len(s) + 1)
    BY <2>3, <2>4, LenProperties
  <2>6. IsSeq(t)
    BY <2>4, SeqOfItsOwn
  <2> HIDE DEF t
  <2>7. \A i \in DOMAIN s : s[i] # name
    BY <1>3 DEF HasLocal
  <2>8. \A i, j \in DOMAIN t : t[i] = t[j] => i = j
    <3>1. \A i \in DOMAIN t : (i \in DOMAIN s /\ t[i] = s[i]) \/ (i = Len(s) + 1 /\ t[i] = name)
      BY <2>4, <2>5
    <3> QED
      BY <2>2, <2>7, <3>1
  <2>9. Distinct(t)
    BY <2>6, <2>8 DEF Distinct
  <2>10. Len(s) + 1 \in DOMAIN t /\ OffsetOf(t, name) = Len(s) + 1 - 1
    <3>1. Len(s) + 1 \in DOMAIN t
      BY <2>4, <2>5
    <3> QED
      BY <1>1, <2>4, <2>9, <3>1
  <2>11. DOMAIN after = DOMAIN locals /\ after[current] = t
         /\ \A sub \in DOMAIN locals : sub # current => after[sub] = locals[sub]
    BY <2>1
  <2> HIDE DEF after
  <2>12. \A sub \in DOMAIN after : Distinct(after[sub])
    BY <2>9, <2>11
  <2>13. \A sub \in DOMAIN after : \A i \in DOMAIN locals[sub] :
           i \in DOMAIN after[sub] /\ after[sub][i] = locals[sub][i]
    BY <2>4, <2>5, <2>11
  <2>14. \E i \in DOMAIN after[current] :
           after[current][i] = name /\ OffsetOf(after[current], name) = i - 1
    BY <2>4, <2>10, <2>11
  <2> QED
    BY <2>11, <2>12, <2>13, <2>14 DEF after
<1> QED
  BY <1>2, <1>3

\* A word that named a local still does when the program and the locals have grown.
LEMMA NamesStill ==
  ASSUME UNCHANGED source, NEW p \in DOMAIN program, NamesLocal(p),
         \A q \in DOMAIN program : q \in DOMAIN program' /\ program'[q] = program[q],
         \A sub \in DOMAIN locals :
           /\ sub \in DOMAIN locals'
           /\ \A i \in DOMAIN locals[sub] :
                i \in DOMAIN locals'[sub] /\ locals'[sub][i] = locals[sub][i]
  PROVE  NamesLocal(p)'
<1> DEFINE last == p + Fetches(program[p].op)
           line == program[p].line
           sub == source[HeaderOf(source, line)].name
<1>1. /\ last \in DOMAIN program /\ sub \in DOMAIN locals
      /\ \E i \in DOMAIN locals[sub] :
           program[last].val = i - 1 /\ locals[sub][i] = LocalToken(source[line])
  BY DEF NamesLocal
<1>2. last' = last /\ line' = line /\ sub' = sub
  OBVIOUS
<1> HIDE DEF last, line, sub
<1>3. /\ last' \in DOMAIN program' /\ sub' \in DOMAIN locals'
      /\ \E i \in DOMAIN locals'[sub'] :
           program'[last'].val = i - 1 /\ locals'[sub'][i] = LocalToken(source'[line'])
  BY <1>1, <1>2
<1> QED
  BY <1>3 DEF NamesLocal, last, line, sub

\* The headers and the current subroutine after a line of the second pass.
LEMMA HeaderStep ==
  ASSUME AsmInv, LocalInv, EmitSection \/ EmitNothing \/ EmitCode
  PROVE  UnderHeader'
<1>1. /\ pass = 2 /\ pass' = 2 /\ at' = at + 1 /\ UNCHANGED source
      /\ at \in 1..Len(source) /\ Len(source) \in Nat /\ Line = source[at]
  BY LineThere DEF AsmInv, EmitSection, EmitNothing, EmitCode, Reading, Line
<1>2. CASE EmitSection
  <2>1. section' = source[at].name /\ IsHeader(source[at])
    BY <1>1, <1>2 DEF EmitSection
  <2>2. section' \notin DataSections => current' = section'
    BY <1>1, <1>2 DEF EmitSection
  <2>3. at \in 1..(at + 1 - 1) /\ (at + 1)..(at + 1 - 1) = {}
    BY <1>1
  <2> QED
    BY <1>1, <2>1, <2>2, <2>3 DEF UnderHeader
<1>3. CASE EmitNothing \/ EmitCode
  <2>1. section' = section /\ current' = current /\ ~IsHeader(source[at])
    BY <1>1, <1>3 DEF EmitNothing, EmitCode
  <2>2. section \notin DataSections => current = section
    BY <1>1 DEF LocalInv, UnderHeader
  <2>3. ASSUME section # NoName
        PROVE  \E h \in 1..(at + 1 - 1) :
                 /\ IsHeader(source[h]) /\ source[h].name = section
                 /\ \A j \in (h + 1)..(at + 1 - 1) : ~IsHeader(source[j])
    <3>1. PICK h \in 1..(at - 1) :
            /\ IsHeader(source[h]) /\ source[h].name = section
            /\ \A j \in (h + 1)..(at - 1) : ~IsHeader(source[j])
      BY <1>1, <2>3 DEF LocalInv, UnderHeader
    <3>2. \A j \in (h + 1)..(at + 1 - 1) : j = at \/ j \in (h + 1)..(at - 1)
      BY <1>1
    <3>3. h \in 1..(at + 1 - 1)
      BY <1>1
    <3> QED
      BY <2>1, <3>1, <3>2, <3>3
  <2> QED
    BY <1>1, <2>1, <2>2, <2>3 DEF UnderHeader
<1> QED
  BY <1>2, <1>3

\* The words of an instruction that uses a local, ...
LEMMA UseNamed ==
  ASSUME AsmInv, LocalInv, EmitCode, UsesLocals(Line), NEW m, m = Len(program)
  PROVE  /\ locals' = getOrCreateLocal(LocalToken(Line)) /\ current \in DOMAIN locals
         /\ NamesLocal(m + 1)'
<1> DEFINE f == Fetches(Line.op)
           h == HeaderOf(source, at)
<1>1. /\ pass = 2 /\ UNCHANGED <<source, current>> /\ at \in 1..Len(source) /\ Len(source) \in Nat
      /\ DOMAIN source = 1..Len(source)
      /\ Line = source[at] /\ Line.args \in Seq(STRING) /\ ~IsHeader(Line) /\ ~Malformed(Line)
      /\ section \notin DataSections /\ current # NoName
      /\ locals' = getOrCreateLocal(LocalToken(Line))
  BY LineThere, LenProperties
     DEF AsmInv, Typed, EmitCode, Reading, Line, Malformed, addresses
<1>2. current = section
  BY <1>1 DEF LocalInv, UnderHeader
<1>3. h \in 1..(at - 1) /\ IsHeader(source[h]) /\ source[h].name = current
  <2>1. PICK i \in 1..(at - 1) :
          /\ IsHeader(source[i]) /\ source[i].name = section
          /\ \A j \in (i + 1)..(at - 1) : ~IsHeader(source[j])
    BY <1>1, <1>2 DEF LocalInv, UnderHeader
  <2>2. \A j \in (i + 1)..at : j = at \/ j \in (i + 1)..(at - 1)
    BY <1>1
  <2>3. i \in 1..at /\ at \in Nat /\ \A j \in (i + 1)..at : ~IsHeader(source[j])
    BY <1>1, <2>1, <2>2
  <2>4. HeaderOf(source, at) = i
    BY <2>1, <2>3, HeaderIs
  <2> QED
    BY <1>2, <2>1, <2>4
<1>4. current \in DOMAIN locals
  <2>1. h \in DOMAIN source
    BY <1>1, <1>3
  <2> QED
    BY <1>1, <1>2, <1>3, <2>1 DEF LocalInv, HeadersKnown
<1>5. Line.op \in LocalOps /\ Line.op \notin Jumps \cup OptionalOperand \cup ZeroOperand
  BY DEF UsesLocals, LocalOps, Jumps, OptionalOperand, ZeroOperand, StoresLocal, UsesLocal
<1>6. WordsOf(Line) = 1 + f /\ f = IF Line.op \in StoresLocal THEN 2 ELSE 1
  <2>1. f = IF Line.op \in StoresLocal THEN 2 ELSE 1
    BY <1>5 DEF Fetches, LocalOps, StoresImmediate, StoresLocal, UsesLocal
  <2> QED
    BY <1>1, <1>5, <2>1, FetchesAll
<1>7. /\ m \in Nat /\ Len(program') = m + 1 + f /\ DOMAIN program' = 1..(m + 1 + f)
      /\ program'[m + 1].op = Line.op /\ program'[m + 1].line = at
      /\ program'[m + 1 + f].val = OperandWord(Line, f)
  <2>1. /\ m \in Nat /\ IsSeq(program') /\ Len(program') = m + (1 + f)
        /\ \A p \in (m + 1)..(m + (1 + f)) : program'[p].line = at
        /\ program'[m + 1].op = Line.op
        /\ \A i \in 1..((1 + f) - 1) : program'[m + 1 + i].val = OperandWord(Line, i)
    BY <1>6, EmitCodeStep DEF AsmInv
  <2>2. DOMAIN program' = 1..Len(program')
    BY <2>1, LenProperties DEF IsSeq
  <2>3. f \in 1..((1 + f) - 1) /\ m + 1 \in (m + 1)..(m + (1 + f)) /\ f \in Nat
    BY <1>6, <2>1
  <2> HIDE DEF f
  <2> QED
    BY <2>1, <2>2, <2>3
<1>8. OperandTokens(Line)[f] = LocalToken(Line)
  <2>1. Len(Line.args) >= f /\ Len(Line.args) \in Nat
    BY <1>1, <1>5, <1>6, LenProperties, EmptySeq DEF Malformed, LocalOps
  <2>2. OperandTokens(Line) = IF Len(Line.args) <= f THEN Line.args ELSE SubSeq(Line.args, 1, f)
    BY <1>5, <1>6 DEF OperandTokens, LocalOps, StoresImmediate, StoresLocal, UsesLocal
  <2>3. OperandTokens(Line)[f] = Line.args[f]
    <3>1. CASE Len(Line.args) <= f
      BY <2>2, <3>1
    <3>2. CASE Len(Line.args) > f
      <4>1. \A i \in 1..f : Line.args[i] \in STRING
        BY <1>1, <1>6, <2>1, ElementOfSeq
      <4>2. f \in 1..f
        BY <1>6
      <4>3. SubSeq(Line.args, 1, f)[f] = Line.args[1 + f - 1]
        BY <1>1, <1>6, <3>2, <4>1, <4>2, SubSeqProperties
      <4>4. 1 + f - 1 = f
        BY <1>6
      <4> QED
        BY <2>1, <2>2, <3>2, <4>3, <4>4
    <3> QED
      BY <1>6, <2>1, <3>1, <3>2
  <2> QED
    BY <1>6, <2>3 DEF LocalToken
<1>9. OperandWord(Line, f) = OffsetOf(locals'[current], LocalToken(Line))
  <2>1. ~(f = 1 /\ TakesNumber(Line))
    BY <1>5, <1>6 DEF TakesNumber, LocalOps, StoresImmediate, StoresLocal, UsesLocal
  <2> HIDE DEF f
  <2> QED
    BY <1>5, <1>8, <2>1 DEF OperandWord
<1>10. PICK i \in DOMAIN locals'[current] :
         /\ locals'[current][i] = LocalToken(Line)
         /\ OffsetOf(locals'[current], LocalToken(Line)) = i - 1
  BY <1>1, <1>4, LocalThere DEF LocalInv
<1>11. current \in DOMAIN locals'
  BY <1>1, <1>4, LocalThere DEF LocalInv
<1>12. NamesLocal(m + 1)'
  <2> DEFINE last == m + 1 + Fetches(program[m + 1].op)
             line == program[m + 1].line
             sub == source[HeaderOf(source, line)].name
  <2>1. last' = m + 1 + f
    BY <1>7
  <2>2. line' = at /\ sub' = current
    BY <1>1, <1>3, <1>7
  <2>3. m + 1 + f \in 1..(m + 1 + f)
    BY <1>6, <1>7
  <2>4. /\ last' \in DOMAIN program' /\ sub' \in DOMAIN locals'
        /\ program'[last'].val = i - 1 /\ locals'[sub'][i] = LocalToken(source'[line'])
        /\ i \in DOMAIN locals'[sub']
    BY <1>1, <1>7, <1>9, <1>10, <1>11, <2>1, <2>2, <2>3
  <2> HIDE DEF last, line, sub
  <2>5. \E o \in DOMAIN locals'[sub'] :
          program'[last'].val = o - 1 /\ locals'[sub'][o] = LocalToken(source'[line'])
    BY <2>4
  <2> QED
    BY <2>4, <2>5 DEF NamesLocal, last, line, sub
<1> QED
  BY <1>1, <1>4, <1>12

\* ... the invariant over each kind of line, ...
LEMMA EmitNamed ==
  ASSUME AsmInv, LocalInv, EmitCode
  PROVE  LocalInv'
<1> DEFINE n == WordsOf(Line)
<1>1. PICK m : m = Len(program)
  OBVIOUS
<1>2. /\ pass = 2 /\ pass' = 2 /\ UNCHANGED source
      /\ locals' = IF UsesLocals(Line) THEN getOrCreateLocal(LocalToken(Line)) ELSE locals
      /\ ~Malformed(Line)
  BY DEF EmitCode, Reading
<1>3. /\ n \in Nat \ {0} /\ m \in Nat
      /\ \A p \in 1..m : program'[p] = program[p]
      /\ program'[m + 1].op = Line.op
      /\ \A i \in 1..(n - 1) : program'[m + 1 + i].op = "operand"
      /\ DOMAIN program = 1..m /\ DOMAIN program' = 1..(m + n)
  <2>1. /\ n \in Nat \ {0} /\ Len(program) \in Nat /\ IsSeq(program') /\ IsSeq(program)
        /\ Len(program') = Len(program) + n
        /\ \A p \in 1..Len(program) : program'[p] = program[p]
        /\ program'[Len(program) + 1].op = Line.op
        /\ \A i \in 1..(n - 1) : program'[Len(program) + 1 + i].op = "operand"
    BY EmitCodeStep DEF AsmInv, Typed
  <2> HIDE DEF n
  <2>2. DOMAIN program = 1..Len(program) /\ DOMAIN program' = 1..(Len(program) + n)
    BY <2>1, LenProperties DEF IsSeq
  <2> QED
    BY <1>1, <2>1, <2>2
<1> HIDE DEF n
<1>4. /\ DOMAIN locals' = DOMAIN locals
      /\ \A sub \in DOMAIN locals' : Distinct(locals'[sub])
      /\ \A sub \in DOMAIN locals :
           /\ sub \in DOMAIN locals'
           /\ \A i \in DOMAIN locals[sub] :
                i \in DOMAIN locals'[sub] /\ locals'[sub][i] = locals[sub][i]
  <2>1. CASE UsesLocals(Line)
    <3>1. locals' = getOrCreateLocal(LocalToken(Line)) /\ current \in DOMAIN locals
      BY <1>1, <2>1, UseNamed
    <3> QED
      BY <3>1, LocalThere DEF LocalInv
  <2>2. CASE ~UsesLocals(Line)
    BY <1>2, <2>2 DEF LocalInv
  <2> QED
    BY <2>1, <2>2
<1>5. HeadersKnown'
  BY <1>2, <1>4 DEF LocalInv, HeadersKnown
<1>6. UnderHeader'
  BY HeaderStep
<1>7. ASSUME NEW p \in DOMAIN program', program'[p].op \in LocalOps
      PROVE  NamesLocal(p)'
  <2>1. CASE p \in 1..m
    <3>1. p \in DOMAIN program /\ NamesLocal(p)
      BY <1>2, <1>3, <1>7, <2>1 DEF LocalInv
    <3>2. \A q \in DOMAIN program : q \in DOMAIN program' /\ program'[q] = program[q]
      BY <1>3
    <3> QED
      BY <1>2, <1>4, <3>1, <3>2, NamesStill
  <2>2. CASE p = m + 1
    <3>1. UsesLocals(Line)
      BY <1>3, <1>7, <2>2 DEF UsesLocals, LocalOps
    <3>2. NamesLocal(m + 1)'
      BY <1>1, <3>1, UseNamed
    <3> QED
      BY <2>2, <3>2
  <2>3. CASE p \in (m + 2)..(m + n)
    <3>1. p - m - 1 \in 1..(n - 1) /\ p = m + 1 + (p - m - 1)
      BY <1>3, <2>3
    <3>2. program'[p].op = "operand"
      BY <1>3, <3>1
    <3> QED
      BY <1>7, <3>2 DEF LocalOps, StoresLocal, UsesLocal
  <2> QED
    BY <1>3, <2>1, <2>2, <2>3
<1> QED
  BY <1>2, <1>4, <1>5, <1>6, <1>7 DEF LocalInv

\* No subroutine has a local yet.
LEMMA LocalInit == Init => LocalInv
<1> SUFFICES ASSUME Init PROVE LocalInv
  OBVIOUS
<1>1. DOMAIN program = {} /\ DOMAIN locals = {} /\ pass = 1
  BY EmptySeq DEF Init, NoEntries
<1>2. HeadersKnown
  <2>1. source \in Seq(Lines) /\ at = 1
    BY AssemblerAssumption DEF Init
  <2>2. DOMAIN source \subseteq Nat \ {0}
    BY <2>1, LenProperties
  <2> QED
    BY <1>1, <2>1, <2>2 DEF HeadersKnown
<1>3. UnderHeader
  BY DEF Init, UnderHeader
<1> QED
  BY <1>1, <1>2, <1>3 DEF LocalInv

\* Every step of the assembler keeps offsets and names in step.
LEMMA LocalStep == AsmInv /\ LocalInv /\ [Next]_vars => LocalInv'
<1> SUFFICES ASSUME AsmInv, LocalInv, [Next]_vars PROVE LocalInv'
  OBVIOUS
<1> DEFINE Same == UNCHANGED <<source, program, locals>>
<1>1. ASSUME Same, HeadersKnown', UnderHeader', pass' \in {1, 2, 3} => pass \in {1, 2, 3}
      PROVE  LocalInv'
  <2>1. ASSUME NEW p \in DOMAIN program, NamesLocal(p) PROVE NamesLocal(p)'
    BY <1>1, <2>1, NamesStill
  <2> QED
    BY <1>1, <2>1 DEF LocalInv
<1>2. /\ Reading(1) \/ Reading(2) => at \in 1..Len(source)
      /\ Len(source) \in Nat /\ DOMAIN source = 1..Len(source)
      /\ Line = source[at] /\ at \in Nat
  BY LineThere, LenProperties DEF AsmInv, Typed, TypeOK, Line
<1>3. CASE MapSection
  <2>1. /\ pass = 1 /\ pass' = 1 /\ at' = at + 1 /\ UNCHANGED <<source, program, current>>
        /\ program = <<>> /\ current = NoName
        /\ IsHeader(source[at])
        /\ locals' = IF source[at].name \in DataSections THEN locals
                     ELSE Put(locals, source[at].name, <<>>)
    BY <1>2, <1>3 DEF MapSection, Reading, LocalInv, UnderHeader
  <2>2. DOMAIN program' = {}
    BY <2>1, EmptySeq
  <2>3. Distinct(<<>>)
    <3>1. <<>> \in Seq({}) /\ DOMAIN <<>> = {}
      BY EmptySeq
    <3>2. IsSeq(<<>>)
      BY <3>1, SeqOfItsOwn
    <3> QED
      BY <3>1, <3>2 DEF Distinct
  <2>4. \A name \in DOMAIN locals' : Distinct(locals'[name])
    BY <2>1, <2>3 DEF LocalInv, Put
  <2>5. HeadersKnown'
    <3> SUFFICES ASSUME NEW h \in DOMAIN source, IsHeader(source[h]),
                        source[h].name \notin DataSections, h < at + 1
                 PROVE  source[h].name \in DOMAIN locals'
      BY <2>1 DEF HeadersKnown
    <3>1. h = at => source[h].name \in DOMAIN locals'
      BY <2>1 DEF Put
    <3>2. h # at => source[h].name \in DOMAIN locals
      BY <1>2, <2>1 DEF LocalInv, HeadersKnown
    <3> QED
      BY <2>1, <3>1, <3>2 DEF Put
  <2>6. UnderHeader'
    BY <2>1 DEF UnderHeader
  <2> QED
    BY <2>2, <2>4, <2>5, <2>6 DEF LocalInv
<1>4. CASE MapData \/ MapCode
  <2>1. /\ pass = 1 /\ pass' = 1 /\ at' = at + 1 /\ Same /\ UNCHANGED current
        /\ ~IsHeader(source[at])
    BY <1>2, <1>4 DEF MapData, MapCode, Reading, addresses
  <2>2. HeadersKnown'
    BY <1>2, <2>1 DEF LocalInv, HeadersKnown
  <2>3. UnderHeader'
    BY <2>1 DEF LocalInv, UnderHeader
  <2> QED
    BY <1>1, <2>1, <2>2, <2>3
<1>5. CASE MapFails \/ EmitFails
  <2>1. pass' = 0 /\ Same
    BY <1>5 DEF MapFails, EmitFails
  <2>2. HeadersKnown' /\ UnderHeader'
    BY <2>1 DEF HeadersKnown, UnderHeader
  <2> QED
    BY <1>1, <2>1, <2>2
<1>6. CASE EndOfMap
  <2>1. /\ pass = 1 /\ pass' \in {0, 2} /\ Same /\ current' = current /\ section' = NoName
        /\ at > Len(source)
    BY <1>6 DEF EndOfMap
  <2>2. HeadersKnown'
    <3> SUFFICES ASSUME NEW h \in DOMAIN source, IsHeader(source[h]),
                        source[h].name \notin DataSections
                 PROVE  source[h].name \in DOMAIN locals
      BY <2>1 DEF HeadersKnown
    <3>1. h < at
      BY <1>2, <2>1
    <3> QED
      BY <2>1, <3>1 DEF LocalInv, HeadersKnown
  <2>3. UnderHeader'
    BY <2>1 DEF LocalInv, UnderHeader
  <2> QED
    BY <1>1, <2>1, <2>2, <2>3
<1>7. CASE EmitSection \/ EmitNothing
  <2>1. pass = 2 /\ pass' = 2 /\ Same
    BY <1>7 DEF EmitSection, EmitNothing, Reading
  <2>2. HeadersKnown'
    BY <2>1 DEF LocalInv, HeadersKnown
  <2>3. UnderHeader'
    BY <1>7, HeaderStep
  <2> QED
    BY <1>1, <2>1, <2>2, <2>3
<1>8. CASE EmitCode
  BY <1>8, EmitNamed
<1>9. CASE OpenOutput \/ WriteHeader \/ WriteProgram \/ WriteData \/ CloseOutput \/ WriteFails
  <2>1. Same /\ pass' \notin {1, 2} /\ (pass' = 3 => pass = 2)
    BY <1>9 DEF OpenOutput, WriteHeader, WriteProgram, WriteData, CloseOutput, WriteFails, Writes
  <2>2. HeadersKnown' /\ UnderHeader'
    BY <2>1 DEF LocalInv, HeadersKnown, UnderHeader
  <2> QED
    BY <1>1, <2>1, <2>2
<1>10. CASE UNCHANGED vars
  <2>1. Same /\ UNCHANGED <<pass, at, section, current>>
    BY <1>10 DEF vars
  <2>2. HeadersKnown' /\ UnderHeader'
    BY <2>1 DEF LocalInv, HeadersKnown, UnderHeader
  <2> QED
    BY <1>1, <2>1, <2>2
<1> QED
  BY <1>3, <1>4, <1>5, <1>6, <1>7, <1>8, <1>9, <1>10 DEF Next

\* ... and what it says when all words are emitted: two words of one subroutine,
\* wherever it is continued, have the same offset if and only if they name the
\* same local, for every source.
THEOREM OneOffsetEach == Spec => []LocalsApart
<1>1. ASSUME LocalInv PROVE LocalsApart
  <2> SUFFICES ASSUME pass = 3, NEW p \in DOMAIN program, NEW q \in DOMAIN program,
                      program[p].op \in LocalOps, program[q].op \in LocalOps,
                      source[HeaderOf(source, program[p].line)].name
                        = source[HeaderOf(source, program[q].line)].name
               PROVE  (program[p + Fetches(program[p].op)].val
                         = program[q + Fetches(program[q].op)].val)
                      <=> (LocalToken(source[program[p].line])
                             = LocalToken(source[program[q].line]))
    BY DEF LocalsApart, Emitted, LocalOps
  <2> DEFINE sub == source[HeaderOf(source, program[p].line)].name
             names == locals[sub]
             x == program[p + Fetches(program[p].op)].val
             y == program[q + Fetches(program[q].op)].val
             a == LocalToken(source[program[p].line])
             b == LocalToken(source[program[q].line])
  <2>1. NamesLocal(p) /\ NamesLocal(q)
    BY <1>1 DEF LocalInv
  <2>2. sub \in DOMAIN locals /\ Distinct(names)
    BY <1>1, <2>1 DEF LocalInv, NamesLocal
  <2>3. PICK i \in DOMAIN names : x = i - 1 /\ names[i] = a
    BY <2>1 DEF NamesLocal
  <2>4. PICK j \in DOMAIN names : y = j - 1 /\ names[j] = b
    BY <2>1 DEF NamesLocal
  <2>5. DOMAIN names \subseteq Int /\ (names[i] = names[j] => i = j)
    BY <2>2, <2>3, <2>4, LenProperties DEF Distinct, IsSeq
  <2> HIDE DEF names, x, y, a, b
  <2>6. x = y <=> a = b
    BY <2>3, <2>4, <2>5
  <2> QED
    BY <2>6 DEF x, y, a, b
<1>2. LocalInv => LocalsApart
  BY <1>1
<1> QED
  BY <1>2, AsmInit, LocalInit, AsmStep, LocalStep, PTL DEF Spec

----------------------------------------------------------------------------
(* The values of the words.                                                 *)

\* Addresses are numbers, and so are the words; a local has two words of its own.
CodeInv ==
  /\ \A token \in DOMAIN symbols : symbols[token] \in Int
  /\ \A sub \in DOMAIN starts : starts[sub] \in Int
  /\ \A sub \in DOMAIN locals : 2 * Len(locals[sub]) <= Len(program)
  /\ Assembled(program)

\* The subroutine under which code stands is one the first pass has seen.
LEMMA CurrentKnown ==
  ASSUME AsmInv, LocalInv, EmitCode, current # NoName
  PROVE  current \in DOMAIN locals /\ current \in DOMAIN starts
<1>1. /\ pass = 2 /\ section \notin DataSections /\ at \in 1..Len(source)
      /\ Len(source) \in Nat /\ DOMAIN source = 1..Len(source)
  BY LineThere, LenProperties DEF AsmInv, Typed, EmitCode, Reading
<1>2. PICK h \in 1..(at - 1) : IsHeader(source[h]) /\ source[h].name = section
  BY <1>1 DEF LocalInv, UnderHeader
<1>3. current = section /\ h \in DOMAIN source
  BY <1>1, <1>2 DEF LocalInv, UnderHeader
<1>4. current \in DOMAIN locals
  BY <1>1, <1>2, <1>3 DEF LocalInv, HeadersKnown
<1> QED
  BY <1>4 DEF AsmInv, Typed, TypeOK

\* Looking up a local adds one at most.
LEMMA OneMoreLocal ==
  ASSUME NEW name, current \in DOMAIN locals, \A sub \in DOMAIN locals : IsSeq(locals[sub])
  PROVE  \A sub \in DOMAIN getOrCreateLocal(name) :
           /\ sub \in DOMAIN locals /\ Len(locals[sub]) \in Nat
           /\ Len(getOrCreateLocal(name)[sub]) \in Nat
           /\ Len(getOrCreateLocal(name)[sub]) <= Len(locals[sub]) + 1
<1> DEFINE s == locals[current]
           S == {s[i] : i \in DOMAIN s} \cup {name}
<1>1. \A sub \in DOMAIN locals : Len(locals[sub]) \in Nat
  BY LenProperties DEF IsSeq
<1>2. s \in Seq(S) /\ name \in S
  <2>1. IsSeq(s)
    OBVIOUS
  <2> QED
    BY <2>1, SeqMonotonic DEF IsSeq
<1> HIDE DEF S
<1>3. Len(Append(s, name)) = Len(s) + 1
  BY <1>2, AppendProperties
<1> QED
  BY <1>1, <1>3 DEF getOrCreateLocal

\* The words an instruction gets are numbers: tokens are names the first pass has
\* seen, or numbers.
LEMMA OperandsAreNumbers ==
  ASSUME AsmInv, LocalInv, CodeInv, EmitCode, NEW i \in 1..(WordsOf(Line) - 1)
  PROVE  OperandWord(Line, i) \in Int
<1> DEFINE token == OperandTokens(Line)[i]
<1>1. Line.args \in Seq(STRING) /\ ~Malformed(Line)
  BY LineThere DEF AsmInv, EmitCode
<1>2. /\ i \in DOMAIN OperandTokens(Line) /\ i \in 1..Len(Line.args)
      /\ token = Line.args[i] /\ Len(OperandTokens(Line)) \in Nat
  BY <1>1, OperandsTaken DEF WordsOf
<1>3. \A t \in DOMAIN Numerals : Numerals[t] \in Int
  BY AssemblerAssumption
<1>4. CASE Line.op \in Jumps
  <2>1. ~UsesLocals(Line)
    BY <1>4 DEF UsesLocals, Jumps, StoresLocal, UsesLocal
  <2>2. Known(token)
    BY <1>1, <1>2, <2>1 DEF Malformed
  <2>3. current # NoName => starts[current] \in Int
    BY CurrentKnown DEF CodeInv
  <2>4. resolveJumpTarget(token) \in Int
    BY <1>3, <2>2, <2>3 DEF Known, resolveJumpTarget, CodeInv
  <2> QED
    BY <1>4, <2>4 DEF OperandWord
<1>5. CASE Line.op \notin Jumps /\ i = 1 /\ TakesNumber(Line)
  <2>1. token \in DOMAIN Numerals
    BY <1>1, <1>2, <1>5 DEF Malformed
  <2> QED
    BY <1>3, <1>5, <2>1 DEF OperandWord
<1>6. CASE Line.op \notin Jumps /\ ~(i = 1 /\ TakesNumber(Line)) /\ UsesLocals(Line)
  <2>1. token = LocalToken(Line)
    <3>1. Len(OperandTokens(Line)) <= (IF Line.op \in StoresLocal THEN 2 ELSE 1)
      <4>1. WordsOf(Line) = 1 + Fetches(Line.op) /\ Line.op \notin OptionalOperand
        BY <1>1, <1>6, FetchesAll DEF UsesLocals, StoresLocal, UsesLocal, OptionalOperand
      <4>2. Fetches(Line.op) = IF Line.op \in StoresLocal THEN 2 ELSE 1
        BY <1>6 DEF UsesLocals, Fetches, StoresLocal, UsesLocal, StoresImmediate, Pushes, Jumps
      <4> QED
        BY <1>2, <4>1, <4>2 DEF WordsOf
    <3>2. i = IF Line.op \in StoresLocal THEN 2 ELSE 1
      BY <1>2, <1>6, <3>1 DEF TakesNumber, WordsOf
    <3> QED
      BY <1>2, <3>2 DEF LocalToken
  <2>2. current # NoName
    BY <1>1, <1>6 DEF Malformed
  <2>3. locals' = getOrCreateLocal(LocalToken(Line))
    BY <1>6 DEF EmitCode
  <2>4. /\ current \in DOMAIN locals'
        /\ \A sub \in DOMAIN locals' : Distinct(locals'[sub])
        /\ \E o \in DOMAIN locals'[current] : OffsetOf(locals'[current], LocalToken(Line)) = o - 1
    BY <2>2, <2>3, CurrentKnown, LocalThere DEF LocalInv
  <2>5. DOMAIN locals'[current] \subseteq Int
    <3>1. IsSeq(locals'[current])
      BY <2>4 DEF Distinct
    <3> QED
      BY <3>1, LenProperties DEF IsSeq
  <2>6. OffsetOf(locals'[current], LocalToken(Line)) \in Int
    BY <2>4, <2>5
  <2> QED
    BY <1>6, <2>1, <2>6 DEF OperandWord
<1>7. CASE Line.op \notin Jumps /\ ~(i = 1 /\ TakesNumber(Line)) /\ ~UsesLocals(Line)
  <2>1. Known(token)
    BY <1>1, <1>2, <1>7 DEF Malformed
  <2>2. resolveVal(token) \in Int
    BY <1>3, <2>1 DEF Known, resolveVal, CodeInv
  <2> QED
    BY <1>7, <2>2 DEF OperandWord
<1> QED
  BY <1>4, <1>5, <1>6, <1>7

\* The words of a line are as the execution will need them.
LEMMA CodeEmitted ==
  ASSUME AsmInv, LocalInv, LocalInv', CodeInv, EmitCode
  PROVE  CodeInv'
<1> DEFINE n == WordsOf(Line)
           f == Fetches(Line.op)
<1>1. PICK m : m = Len(program)
  OBVIOUS
<1>2. /\ UNCHANGED <<symbols, starts, source>> /\ ~Malformed(Line) /\ Line.args \in Seq(STRING)
      /\ pass = 2 /\ pass' = 2
      /\ locals' = IF UsesLocals(Line) THEN getOrCreateLocal(LocalToken(Line)) ELSE locals
  BY LineThere DEF AsmInv, EmitCode, addresses, Reading
<1>3. /\ n \in Nat \ {0} /\ m \in Nat
      /\ \A p \in 1..m : program'[p] = program[p]
      /\ program'[m + 1].op = Line.op /\ program'[m + 1].val = 0
      /\ \A i \in 1..(n - 1) :
           /\ program'[m + 1 + i].op = "operand"
           /\ program'[m + 1 + i].val = OperandWord(Line, i)
      /\ DOMAIN program = 1..m /\ DOMAIN program' = 1..(m + n) /\ Len(program') = m + n
  <2>1. /\ n \in Nat \ {0} /\ Len(program) \in Nat /\ IsSeq(program') /\ IsSeq(program)
        /\ Len(program') = Len(program) + n
        /\ \A p \in 1..Len(program) : program'[p] = program[p]
        /\ program'[Len(program) + 1].op = Line.op /\ program'[Len(program) + 1].val = 0
        /\ \A i \in 1..(n - 1) :
             /\ program'[Len(program) + 1 + i].op = "operand"
             /\ program'[Len(program) + 1 + i].val = OperandWord(Line, i)
    BY EmitCodeStep DEF AsmInv, Typed
  <2> HIDE DEF n
  <2>2. DOMAIN program = 1..Len(program) /\ DOMAIN program' = 1..(Len(program) + n)
    BY <2>1, LenProperties DEF IsSeq
  <2> QED
    BY <1>1, <2>1, <2>2
<1>4. \A i \in 1..(n - 1) : OperandWord(Line, i) \in Int
  BY OperandsAreNumbers
<1>5. /\ f \in 0..2 /\ 1 + f <= n
      /\ UsesLocals(Line) => f >= 1
  <2>1. n = getInstructionWordCount(Line)
    BY <1>2, SameCount
  <2> QED
    BY <2>1 DEF getInstructionWordCount, Fetches, UsesLocals
<1>6. m + n <= VM_PROGRAM_MEM /\ VM_PROGRAM_MEM \in Nat
  BY <1>1, AssemblerAssumption DEF EmitCode, RoomFor
<1> HIDE DEF n, f
<1>7. \A sub \in DOMAIN locals' :
        Len(locals'[sub]) \in Nat /\ IsSeq(locals'[sub]) /\ 2 * Len(locals'[sub]) <= m + n
  <2>1. \A sub \in DOMAIN locals : IsSeq(locals[sub]) /\ 2 * Len(locals[sub]) <= m
    BY <1>1 DEF LocalInv, Distinct, CodeInv
  <2>2. \A sub \in DOMAIN locals' : IsSeq(locals'[sub])
    BY DEF LocalInv, Distinct
  <2>3. \A sub \in DOMAIN locals' : Len(locals'[sub]) \in Nat
    BY <2>2, LenProperties DEF IsSeq
  <2>4. CASE UsesLocals(Line)
    <3>1. current \in DOMAIN locals
      BY <1>2, <2>4, CurrentKnown DEF Malformed
    <3>2. locals' = getOrCreateLocal(LocalToken(Line))
      BY <1>2, <2>4
    <3>3. \A sub \in DOMAIN locals' :
            /\ sub \in DOMAIN locals /\ Len(locals[sub]) \in Nat
            /\ Len(locals'[sub]) <= Len(locals[sub]) + 1
      BY <2>1, <3>1, <3>2, OneMoreLocal
    <3>4. n >= 2
      BY <1>3, <1>5, <2>4
    <3> QED
      BY <1>3, <2>1, <2>2, <2>3, <3>3, <3>4
  <2>5. CASE ~UsesLocals(Line)
    BY <1>2, <1>3, <2>1, <2>2, <2>3, <2>5
  <2> QED
    BY <2>4, <2>5
<1>8. ASSUME NEW p \in DOMAIN program'
      PROVE  LET last == p + Fetches(program'[p].op)
             IN  /\ program'[p].val \in Int
                 /\ program'[p].op # "operand" => last \in DOMAIN program'
                 /\ program'[p].op \in StoresLocal \cup UsesLocal => program'[last].val \in Offsets
  <2>1. CASE p \in 1..m
    <3>1. program'[p] = program[p]
      BY <1>3, <2>1
    <3> DEFINE last == p + Fetches(program[p].op)
    <3>2. /\ program[p].val \in Int
          /\ program[p].op # "operand" => last \in DOMAIN program
          /\ program[p].op \in StoresLocal \cup UsesLocal => program[last].val \in Offsets
      BY <1>3, <2>1 DEF CodeInv, Assembled
    <3>3. program[p].op \in StoresLocal \cup UsesLocal => program[p].op # "operand"
      BY DEF StoresLocal, UsesLocal
    <3> HIDE DEF last
    <3>4. last \in DOMAIN program => last \in DOMAIN program' /\ program'[last] = program[last]
      BY <1>3
    <3> QED
      BY <3>1, <3>2, <3>3, <3>4 DEF last
  <2>2. CASE p = m + 1
    <3> DEFINE last == m + 1 + f
    <3>1. last \in DOMAIN program'
      BY <1>3, <1>5
    <3>2. Line.op \in StoresLocal \cup UsesLocal => program'[last].val \in Offsets
      <4> SUFFICES ASSUME Line.op \in StoresLocal \cup UsesLocal PROVE program'[last].val \in Offsets
        OBVIOUS
      <4>1. NamesLocal(m + 1)'
        BY <1>1, UseNamed DEF UsesLocals
      <4>2. \E sub \in DOMAIN locals' : \E o \in DOMAIN locals'[sub] : program'[last].val = o - 1
        BY <1>3, <4>1 DEF NamesLocal, f
      <4>3. PICK sub \in DOMAIN locals' : \E o \in DOMAIN locals'[sub] : program'[last].val = o - 1
        BY <4>2
      <4> PICK o \in DOMAIN locals'[sub] : program'[last].val = o - 1
        BY <4>3
      <4>4. o \in 1..Len(locals'[sub]) /\ Len(locals'[sub]) \in Nat
        BY <1>7, LenProperties DEF IsSeq
      <4>5. 2 * Len(locals'[sub]) <= VM_PROGRAM_MEM
        BY <1>3, <1>6, <1>7
      <4>6. o - 1 \in 0..((VM_PROGRAM_MEM \div 2) - 1)
        BY <1>6, <4>4, <4>5
      <4> QED
        BY <4>6 DEF Offsets
    <3> QED
      BY <1>3, <2>2, <3>1, <3>2 DEF f
  <2>3. CASE p \in (m + 2)..(m + n)
    <3>0. m \in Nat /\ n \in Nat
      BY <1>3
    <3>1. p - m - 1 \in 1..(n - 1) /\ p = m + 1 + (p - m - 1)
      BY <2>3, <3>0
    <3>2. program'[p].op = "operand" /\ program'[p].val \in Int
      BY <1>3, <1>4, <3>1
    <3> QED
      BY <3>2 DEF StoresLocal, UsesLocal
  <2> QED
    BY <1>3, <2>1, <2>2, <2>3
<1>9. Assembled(program)'
  BY <1>8 DEF Assembled
<1>10. \A sub \in DOMAIN locals' : 2 * Len(locals'[sub]) <= Len(program')
  BY <1>3, <1>7
<1> QED
  BY <1>2, <1>9, <1>10 DEF CodeInv

\* No word is emitted, and the old binary is as an assembler has left it.
LEMMA CodeInit == Init => CodeInv
<1>1. Init => DOMAIN program = {} /\ DOMAIN symbols = {} /\ DOMAIN starts = {} /\ DOMAIN locals = {}
  BY EmptySeq DEF Init, NoEntries
<1> QED
  BY <1>1 DEF CodeInv, Assembled

\* Every step of the assembler keeps that, up to the last word of the file.
LEMMA CodeStep == AsmInv /\ LocalInv /\ CodeInv /\ [Next]_vars => CodeInv'
<1> SUFFICES ASSUME AsmInv, LocalInv, CodeInv, [Next]_vars PROVE CodeInv'
  OBVIOUS
<1>1. /\ counter \in Nat /\ Len(ramData) \in Nat /\ Len(program) \in Nat /\ Len(<<>>) = 0
  BY LenProperties, EmptySeq DEF AsmInv, Typed, TypeOK, IsSeq
<1>2. CASE MapSection
  <2>1. /\ symbols' \in {symbols, Put(symbols, Line.name, counter)}
        /\ starts' \in {starts, Put(starts, Line.name, counter)}
        /\ locals' \in {locals, Put(locals, Line.name, <<>>)}
        /\ program' = program
    BY <1>2 DEF MapSection
  <2> QED
    BY <1>1, <2>1 DEF CodeInv, Put
<1>3. CASE MapData
  <2>1. /\ symbols' \in {symbols, PutIfAbsent(symbols, DeclaredName(Line), Len(ramData))}
        /\ UNCHANGED <<starts, locals, program>>
    BY <1>3 DEF MapData
  <2> QED
    BY <1>1, <2>1 DEF CodeInv, PutIfAbsent, Put
<1>4. CASE EmitCode
  BY <1>4, CodeEmitted, LocalStep
<1>5. CASE UNCHANGED <<symbols, starts, locals, program>>
  BY <1>5 DEF CodeInv
<1>6. \/ MapSection \/ MapData \/ EmitCode
      \/ UNCHANGED <<symbols, starts, locals, program>>
  BY DEF Next, vars, addresses, MapFails, MapCode, EndOfMap, EmitSection, EmitNothing, EmitFails,
         OpenOutput, WriteHeader, WriteProgram, WriteData, CloseOutput, WriteFails, Writes
<1> QED
  BY <1>2, <1>3, <1>4, <1>5, <1>6

----------------------------------------------------------------------------
(* What is loaded and executed.                                             *)

\* The invariant of the assembler; once something is loaded no assembler runs, so
\* that file, code and data stay what they were.
RunInv ==
  /\ AsmInv
  /\ machine \in {"loaded", "executing", "wild"} => pass \in {0, 6}
  /\ RunsWholeBinary

\* A file whose three parts have the lengths of its header is a finished one.
LEMMA WholeFiles ==
  ASSUME AsmInv, CommandRun, FileIsWhole
  PROVE  \/ file = Leftover
         \/ file.words = program /\ file.data = ramData /\ file.header[1] = globalStart
<1>1. IsSeq(program) /\ ramData \in Seq(Data)
  BY DEF AsmInv, Typed
<1>2. Len(program) \in Nat /\ Len(ramData) \in Nat
  BY <1>1, LenProperties DEF IsSeq
<1>3. file # NoFile
  BY DEF FileIsWhole, NoFile
<1>4. CASE file = HeaderOnly
  <2>1. Len(program) = Len(<<>>) /\ Len(ramData) = Len(<<>>)
    BY <1>4 DEF FileIsWhole, HeaderOnly
  <2>2. program = <<>> /\ ramData = <<>>
    BY <1>1, <2>1, EmptySeq DEF IsSeq
  <2> QED
    BY <1>4, <2>2 DEF HeaderOnly
<1>5. ASSUME NEW n \in 0..Len(ramData), file = Written(n)
      PROVE  file.words = program /\ file.data = ramData /\ file.header[1] = globalStart
  <2>1. Len(SubSeq(ramData, 1, n)) = Len(ramData)
    BY <1>5 DEF FileIsWhole, Written
  <2>2. n = Len(ramData)
    BY <1>1, <1>2, <2>1, OneMoreWord
  <2>3. SubSeq(ramData, 1, n) = ramData
    BY <1>1, <2>2, SubSeqFull
  <2> QED
    BY <1>5, <2>3 DEF Written
<1>6. \/ file \in {Leftover, NoFile, HeaderOnly}
      \/ \E n \in 0..Len(ramData) : file = Written(n)
  BY DEF AsmInv, FileInv, CommandRun
<1> QED
  BY <1>3, <1>4, <1>5, <1>6

\* No instruction writes the file, the code or the data section.
LEMMA ExecuteStep ==
  ASSUME Execute
  PROVE  /\ machine = "executing" /\ machine' \in {"executing", "wild"}
         /\ UNCHANGED <<assembly, code, ram>>
<1>1. CASE HALT \/ PUSH \/ POP \/ DUP \/ SUB \/ CMPEQ
  BY <1>1 DEF HALT, PUSH, POP, DUP, SUB, CMPEQ, Instruction, Executing
<1>2. CASE LOAD \/ LOADFails \/ JUMP \/ Branch \/ CALL \/ RET
  BY <1>2 DEF LOAD, LOADFails, JUMP, Branch, CALL, RET, Instruction, Executing
<1>3. CASE STORE_L \/ ISTORE_L \/ LOAD_L
  BY <1>3 DEF STORE_L, ISTORE_L, LOAD_L, Instruction, Executing
<1>4. CASE Stray
  BY <1>4 DEF Stray, Executing
<1> QED
  BY <1>1, <1>2, <1>3, <1>4 DEF Execute

\* With what the assembler has and the machine has unchanged, nothing happens to
\* the invariant.
LEMMA SameFiles ==
  ASSUME RunInv, UNCHANGED <<assembly, code, ram>>,
         machine' \in {"loaded", "executing", "wild"} =>
           machine \in {"loaded", "executing", "wild"}
  PROVE  RunInv'
<1>1. AsmInv'
  BY AsmStep DEF assembly, RunInv
<1> QED
  BY <1>1 DEF RunInv, RunsWholeBinary, assembly, vars, addresses

\* Every step of the commands keeps what the loader relies on.
LEMMA RunStep == RunInv /\ [ProgramNext]_programVars => RunInv'
<1> SUFFICES ASSUME RunInv, [ProgramNext]_programVars PROVE RunInv'
  OBVIOUS
<1>1. CASE Assemble
  <2>1. AsmInv'
    BY <1>1, AsmStep DEF Assemble, RunInv
  <2>2. pass \notin {0, 6}
    BY <1>1 DEF Assemble, Next, MapSection, MapData, MapFails, MapCode, EndOfMap, EmitSection,
                EmitNothing, EmitCode, EmitFails, OpenOutput, WriteHeader, WriteProgram,
                WriteData, CloseOutput, WriteFails, Reading, Writes
  <2>3. machine' \notin {"loaded", "executing", "wild"}
    BY <1>1, <2>2 DEF Assemble, RunInv
  <2> QED
    BY <2>1, <2>3 DEF RunInv, RunsWholeBinary
<1>2. CASE LoadFails
  BY <1>2, SameFiles DEF LoadFails
<1>3. CASE load_kdm_file
  <2>1. \/ file = Leftover
        \/ file.words = program /\ file.data = ramData /\ file.header[1] = globalStart
    BY <1>3, WholeFiles DEF load_kdm_file, RunInv
  <2>2. AsmInv'
    BY <1>3, AsmStep DEF load_kdm_file, assembly, RunInv
  <2>3. pass' \in {0, 6}
    BY <1>3 DEF load_kdm_file, CommandRun, assembly, vars
  <2>4. RunsWholeBinary'
    BY <1>3, <2>1 DEF load_kdm_file, RunsWholeBinary, assembly, vars, addresses
  <2> QED
    BY <2>2, <2>3, <2>4 DEF RunInv
<1>4. CASE StartExecution
  BY <1>4, SameFiles DEF StartExecution
<1>5. CASE Execute
  BY <1>5, ExecuteStep, SameFiles
<1>6. CASE UNCHANGED programVars
  BY <1>6, SameFiles DEF programVars
<1> QED
  BY <1>1, <1>2, <1>3, <1>4, <1>5, <1>6 DEF ProgramNext

\* It holds before the first command.
LEMMA RunInit == ProgramInit => RunInv
BY AsmInit DEF ProgramInit, RunInv, RunsWholeBinary

\* load_kdm_file accepts a file only if one run of the assembler has written all
\* of it: wherever the assembler fails, is killed, or leaves the file of an
\* earlier run alone, no program runs with a part of its code, or with the data
\* of another.
THEOREM WholeBinaries == ProgramSpec => []RunsWholeBinary
<1>1. RunInv => RunsWholeBinary
  BY DEF RunInv
<1> QED
  BY <1>1, RunInit, RunStep, PTL DEF ProgramSpec

\* kdvm -r only reads what the assembler has written, and nothing else of it: the
\* theorems about the assembler hold of every run of the commands.
THEOREM CommandsApart == ProgramSpec => Spec
<1>1. ProgramInit => Init
  BY DEF ProgramInit
<1>2. [ProgramNext]_programVars => [Next]_vars
  <2>1. Execute => UNCHANGED vars
    BY ExecuteStep DEF assembly
  <2> QED
    BY <2>1 DEF ProgramNext, Assemble, LoadFails, load_kdm_file, StartExecution, programVars,
                assembly
<1> QED
  BY <1>1, <1>2, PTL DEF ProgramSpec, Spec

----------------------------------------------------------------------------
(* What is executed.                                                        *)

\* The theorems about frames, for the thread of the program
VMP == INSTANCE CallFramesProofs WITH Starts <- Words, Payloads <- Words

MachineInv ==
  /\ RunInv /\ LocalInv /\ CodeInv
  /\ machine \in {"none", "refused", "loaded", "executing", "wild"}
  /\ machine = "loaded" => file.header[1] \in Nat
  /\ IsSeq(code) /\ Len(code) <= VM_PROGRAM_MEM /\ Assembled(code)
  /\ stack \in Seq(Words) /\ Len(stack) <= VM_STACK_SIZE
  /\ VMP!FrameInv

\* What CallFrames assumes of its constants
LEMMA FrameSizes ==
  /\ VM_PROGRAM_MEM \in Nat /\ CALL_STACK_MEM \in Nat \ {0} /\ THREAD_STACK_SIZE \in Nat \ {0}
  /\ WORD_MOD \in Nat /\ THREAD_STACK_SIZE < WORD_MOD
  /\ Words \subseteq Nat /\ 0 \in Words
  /\ CALL_STACK_MEM < THREAD_STACK_SIZE
  /\ Offsets \subseteq Nat
  /\ \A offset \in Offsets : offset + THREAD_STACK_SIZE < WORD_MOD
BY MachineAssumption, AssemblerAssumption DEF Words, Offsets

\* VM and VMP are one thread.
LEMMA SameVM ==
  /\ VM!Init => VMP!Init
  /\ VM!HALT => VMP!HALT
  /\ VM!NoJump => VMP!NoJump
  /\ VM!CallFails => VMP!CallFails
  /\ VM!RET => VMP!RET
  /\ VM!RetUnderflow => VMP!RetUnderflow
  /\ VM!Exit => VMP!Exit
  /\ \A t : /\ VM!vm_request_thread(t) => VMP!vm_request_thread(t)
            /\ VM!JUMP(t) => VMP!JUMP(t)
            /\ VM!CALL(t) => VMP!CALL(t)
            /\ VM!LOAD_L(t) => VMP!LOAD_L(t)
            /\ VM!LoadFails(t) => VMP!LoadFails(t)
            /\ VM!Address(t) = VMP!Address(t)
  /\ \A n, o, w : VM!LocalStore(n, o, w) => VMP!LocalStore(n, o, w)
  /\ \A n, o : VM!LocalStoreFails(n, o) => VMP!LocalStoreFails(n, o)
  /\ VMP!TypeOK => VM!TypeOK
  /\ VMP!LockStep => VM!LockStep
  /\ VMP!FramesApart => VM!FramesApart
  /\ VMP!LocalsKept => VM!LocalsKept
BY DEF VM!LockStep, VMP!LockStep, VM!FramesApart, VMP!FramesApart, VM!LocalsKept, VMP!LocalsKept,
       VM!Init, VMP!Init, VM!HALT, VMP!HALT, VM!NoJump, VMP!NoJump, VM!CallFails, VMP!CallFails,
       VM!RET, VMP!RET, VM!RetUnderflow, VMP!RetUnderflow, VM!Exit, VMP!Exit,
       VM!vm_request_thread, VMP!vm_request_thread, VM!JUMP, VMP!JUMP, VM!CALL, VMP!CALL,
       VM!LOAD_L, VMP!LOAD_L, VM!LoadFails, VMP!LoadFails, VM!LocalStore, VMP!LocalStore,
       VM!LocalStoreFails, VMP!LocalStoreFails, VM!TypeOK, VMP!TypeOK,
       VM!THREAD_FREE, VMP!THREAD_FREE, VM!THREAD_ACTIVE, VMP!THREAD_ACTIVE, VM!Frames, VMP!Frames,
       VM!NoFrame, VMP!NoFrame, VM!Activations, VMP!Activations, VM!Nothing, VMP!Nothing,
       VM!Fetched, VMP!Fetched, VM!CallRoom, VMP!CallRoom, VM!NextFrame, VMP!NextFrame,
       VM!Address, VMP!Address, VM!Grown, VMP!Grown

\* What the next fetches bring: words, and an offset where one is meant.
LEMMA OperandThere ==
  ASSUME MachineInv, NEW ops, NEW pops, NEW pushes, Instruction(ops, pops, pushes),
         "operand" \notin ops
  PROVE  /\ Opcode \in ops
         /\ \A n \in 1..Fetches(Opcode) : Operand(n) \in Words
         /\ Opcode \in LocalOps => Operand(Fetches(Opcode)) \in Offsets
<1> DEFINE f == Fetches(Opcode)
<1>1. /\ pc \in Nat /\ Len(code) \in Nat /\ DOMAIN code = 1..Len(code)
  BY LenProperties DEF MachineInv, VMP!FrameInv, VMP!TypeOK, IsSeq
<1>2. Opcode \in ops /\ pc + 1 \in DOMAIN code
  BY <1>1 DEF Instruction
<1>3. /\ pc + 1 + f \in DOMAIN code
      /\ Opcode \in LocalOps => code[pc + 1 + f].val \in Offsets
  BY <1>2 DEF MachineInv, Assembled, LocalOps, Opcode
<1>4. f \in 0..2
  BY DEF Fetches
<1>5. \A x \in Int : x % WORD_MOD \in Words
  BY FrameSizes DEF Words
<1>6. \A x \in Offsets : x % WORD_MOD = x
  <2>1. \A x \in Nat : x < WORD_MOD => x % WORD_MOD = x
    BY FrameSizes, SMTT(30)
  <2> QED
    BY <2>1, FrameSizes
<1> HIDE DEF f
<1>7. \A n \in 1..f : Operand(n) \in Words
  <2> SUFFICES ASSUME NEW n \in 1..f PROVE Operand(n) \in Words
    OBVIOUS
  <2>1. pc + 1 + n \in DOMAIN code
    BY <1>1, <1>3, <1>4
  <2> QED
    BY <1>5, <2>1 DEF Operand, MachineInv, Assembled
<1>8. Opcode \in LocalOps => Operand(f) \in Offsets
  <2>1. Operand(f) = code[pc + 1 + f].val % WORD_MOD
    BY DEF Operand
  <2> QED
    BY <1>3, <1>6, <2>1
<1> QED
  BY <1>2, <1>7, <1>8 DEF f

\* No instruction disturbs what CallFrames says of the thread.
LEMMA FramesUndisturbed ==
  ASSUME MachineInv, Execute
  PROVE  VMP!FrameInv'
<1>1. VMP!FrameInv /\ pc \in Nat /\ running \in BOOLEAN
  BY DEF MachineInv, VMP!FrameInv, VMP!TypeOK
<1>2. VMP!Next => VMP!FrameInv'
  BY <1>1, VMP!FrameStep, FrameSizes
<1>3. ASSUME NEW n \in Nat, Fetch(n) PROVE VMP!FrameInv'
  <2>1. /\ UNCHANGED <<csp, sfp, call_stack, stack_frame, ram_stack, stored>>
        /\ pc' \in Nat /\ running' \in BOOLEAN /\ status' = status
    BY <1>1, <1>3 DEF Fetch
  <2> QED
    BY <1>1, <2>1, VMP!SameFrames, FrameSizes
<1>4. ASSUME VM!Exit PROVE VMP!FrameInv'
  <2>1. /\ UNCHANGED <<csp, sfp, call_stack, stack_frame, ram_stack, stored>>
        /\ pc' \in Nat /\ running' \in BOOLEAN /\ status' = status
    BY <1>1, <1>4 DEF VM!Exit
  <2> QED
    BY <1>1, <2>1, VMP!SameFrames, FrameSizes
<1>5. CASE HALT
  BY <1>2, <1>5, SameVM DEF HALT, VMP!Next
<1>6. CASE PUSH \/ POP \/ DUP \/ SUB \/ CMPEQ \/ LOAD
  BY <1>3, <1>6 DEF PUSH, POP, DUP, SUB, CMPEQ, LOAD
<1>7. CASE LOADFails
  BY <1>4, <1>7 DEF LOADFails
<1>8. CASE JUMP \/ Branch \/ CALL
  <2>1. Operand(1) \in Words
    <3>1. \E pops : Instruction({"JUMP"}, pops, 0) \/ Instruction({"JZ", "JNZ"}, pops, 0)
                      \/ Instruction({"CALL"}, pops, 0)
      BY <1>8 DEF JUMP, Branch, CALL
    <3>2. Opcode \in Jumps /\ \A n \in 1..Fetches(Opcode) : Operand(n) \in Words
      BY <3>1, OperandThere DEF Jumps
    <3>3. Fetches(Opcode) = 1
      BY <3>2 DEF Fetches, Jumps, StoresImmediate, StoresLocal
    <3> QED
      BY <3>2, <3>3
  <2>2. VM!JUMP(Operand(1)) \/ VM!NoJump \/ VM!CALL(Operand(1)) \/ VM!CallFails
    BY <1>8 DEF JUMP, Branch, CALL
  <2> HIDE DEF Operand
  <2>3. VMP!Next
    BY <2>1, <2>2, SameVM DEF VMP!Next
  <2> QED
    BY <1>2, <2>3
<1>9. CASE RET
  BY <1>2, <1>9, SameVM DEF RET, VMP!Next
<1>10. CASE STORE_L
  <2>1. Instruction({"STORE_L"}, 1, 0)
    BY <1>10 DEF STORE_L
  <2>2. Operand(1) \in Offsets
    <3>1. Opcode = "STORE_L" /\ (Opcode \in LocalOps => Operand(Fetches(Opcode)) \in Offsets)
      BY <2>1, OperandThere
    <3> QED
      BY <3>1 DEF Fetches, LocalOps, UsesLocal, StoresImmediate, StoresLocal
  <2>3. stack[Depth] \in Words
    <3>1. stack \in Seq(Words) /\ Len(stack) \in Nat /\ Len(stack) >= 1
      BY <2>1, LenProperties DEF MachineInv, Instruction, Depth
    <3> QED
      BY <3>1, ElementOfSeq DEF Depth
  <2>4. VM!LocalStore(2, Operand(1), stack[Depth]) \/ VM!LocalStoreFails(2, Operand(1))
    BY <1>10 DEF STORE_L
  <2> HIDE DEF Operand, Depth
  <2>5. VMP!Next
    BY <2>2, <2>3, <2>4, SameVM DEF VMP!Next
  <2> QED
    BY <1>2, <2>5
<1>11. CASE ISTORE_L
  <2>1. Instruction({"ISTORE_L"}, 0, 0)
    BY <1>11 DEF ISTORE_L
  <2>2. Operand(2) \in Offsets /\ Operand(1) \in Words
    <3>1. /\ Opcode = "ISTORE_L" /\ (Opcode \in LocalOps => Operand(Fetches(Opcode)) \in Offsets)
          /\ \A n \in 1..Fetches(Opcode) : Operand(n) \in Words
      BY <2>1, OperandThere
    <3>2. Opcode \in LocalOps /\ Fetches(Opcode) = 2
      BY <3>1 DEF Fetches, LocalOps, StoresLocal
    <3> QED
      BY <3>1, <3>2
  <2>3. VM!LocalStore(3, Operand(2), Operand(1)) \/ VM!LocalStoreFails(3, Operand(2))
    BY <1>11 DEF ISTORE_L
  <2> HIDE DEF Operand
  <2>4. VMP!Next
    BY <2>2, <2>3, SameVM DEF VMP!Next
  <2> QED
    BY <1>2, <2>4
<1>12. CASE LOAD_L
  <2>1. Instruction({"LOAD_L"}, 0, 1)
    BY <1>12 DEF LOAD_L
  <2>2. Operand(1) \in Offsets
    <3>1. Opcode = "LOAD_L" /\ (Opcode \in LocalOps => Operand(Fetches(Opcode)) \in Offsets)
      BY <2>1, OperandThere
    <3> QED
      BY <3>1 DEF Fetches, LocalOps, UsesLocal, StoresImmediate, StoresLocal
  <2>3. VM!LOAD_L(Operand(1)) \/ VM!LoadFails(Operand(1))
    BY <1>12 DEF LOAD_L
  <2> HIDE DEF Operand
  <2>4. VMP!Next
    BY <2>2, <2>3, SameVM DEF VMP!Next
  <2> QED
    BY <1>2, <2>4
<1>13. CASE Stray
  BY <1>1, <1>13, VMP!SameFrames, FrameSizes DEF Stray, thread
<1> QED
  BY <1>5, <1>6, <1>7, <1>8, <1>9, <1>10, <1>11, <1>12, <1>13 DEF Execute

\* Words taken off the stack and others put there, with room for them
LEMMA Yielded ==
  ASSUME stack \in Seq(Words), NEW pops \in Nat, pops <= Len(stack), NEW words \in Seq(Words),
         Len(stack) - pops + Len(words) <= VM_STACK_SIZE, Yields(pops, words)
  PROVE  stack' \in Seq(Words) /\ Len(stack') <= VM_STACK_SIZE
<1> DEFINE rest == SubSeq(stack, 1, Len(stack) - pops)
<1>1. /\ Len(stack) \in Nat /\ Len(words) \in Nat
      /\ \A i \in 1..(Len(stack) - pops) : stack[i] \in Words
  BY LenProperties, ElementOfSeq
<1>2. /\ rest \in Seq(Words)
      /\ Len(rest) = IF 1 <= Len(stack) - pops THEN Len(stack) - pops - 1 + 1 ELSE 0
  BY <1>1, SubSeqProperties
<1>3. Len(rest) = Len(stack) - pops
  BY <1>1, <1>2
<1>4. stack' = rest \o words
  BY DEF Yields, Depth
<1> HIDE DEF rest
<1>5. stack' \in Seq(Words) /\ Len(stack') = Len(rest) + Len(words)
  BY <1>2, <1>4, ConcatProperties
<1> QED
  BY <1>3, <1>5

\* An instruction that leaves one word has a stack of words after it.
LEMMA OneYielded ==
  ASSUME stack \in Seq(Words), NEW pops \in Nat, pops <= Len(stack), NEW w \in Words,
         Len(stack) - pops + 1 <= VM_STACK_SIZE, Yields(pops, <<w>>)
  PROVE  stack' \in Seq(Words) /\ Len(stack') <= VM_STACK_SIZE
<1> DEFINE words == <<w>>
<1>1. words \in Seq(Words) /\ Len(words) = 1 /\ Yields(pops, words)
  OBVIOUS
<1> HIDE DEF words
<1> QED
  BY <1>1, Yielded

\* Every instruction leaves words on the stack, and no more than there is room for.
LEMMA StackTyped ==
  ASSUME MachineInv, Execute
  PROVE  stack' \in Seq(Words) /\ Len(stack') <= VM_STACK_SIZE
<1>1. /\ stack \in Seq(Words) /\ Len(stack) \in Nat /\ Len(stack) <= VM_STACK_SIZE
      /\ VM_STACK_SIZE \in Nat
  BY LenProperties, MachineAssumption DEF MachineInv
<1>2. \A i \in 1..Len(stack) : stack[i] \in Words
  BY <1>1, ElementOfSeq
<1>3. <<>> \in Seq(Words) /\ Len(<<>>) = 0
  OBVIOUS
<1>5. CASE HALT \/ LOADFails \/ JUMP \/ CALL \/ RET \/ ISTORE_L \/ Stray
  BY <1>1, <1>5 DEF HALT, LOADFails, JUMP, CALL, RET, ISTORE_L, Stray
<1>6. CASE PUSH
  <2>1. Instruction({"PUSH"}, 0, 1) /\ Yields(0, <<Operand(1)>>)
    BY <1>6 DEF PUSH
  <2>2. Opcode = "PUSH" /\ \A n \in 1..Fetches(Opcode) : Operand(n) \in Words
    BY <2>1, OperandThere
  <2>3. Operand(1) \in Words
    BY <2>2 DEF Fetches, StoresImmediate, StoresLocal, Pushes
  <2>4. Len(stack) - 0 + 1 <= VM_STACK_SIZE
    BY <2>1 DEF Instruction, Depth
  <2> HIDE DEF Operand
  <2> QED
    BY <1>1, <2>1, <2>3, <2>4, OneYielded
<1>7. CASE POP \/ Branch \/ STORE_L
  <2>1. Len(stack) >= 1 /\ Yields(1, <<>>)
    BY <1>7 DEF POP, Branch, STORE_L, Instruction, Depth
  <2> DEFINE none == <<>>
  <2>2. none \in Seq(Words) /\ Len(stack) - 1 + Len(none) <= VM_STACK_SIZE /\ Yields(1, none)
    BY <1>1, <1>3, <2>1
  <2> HIDE DEF none
  <2> QED
    BY <1>1, <2>1, <2>2, Yielded
<1>8. CASE DUP
  <2>1. /\ Len(stack) >= 1 /\ Len(stack) - 0 + 1 <= VM_STACK_SIZE
        /\ Yields(0, <<stack[Len(stack)]>>)
    BY <1>1, <1>8 DEF DUP, Instruction, Depth
  <2>2. stack[Len(stack)] \in Words
    BY <1>1, <1>2, <2>1
  <2> QED
    BY <1>1, <2>1, <2>2, OneYielded
<1>9. CASE SUB \/ CMPEQ
  <2>1. PICK w : Len(stack) >= 2 /\ Yields(2, <<w>>)
                 /\ \/ w = (stack[Len(stack) - 1] - stack[Len(stack)]) % WORD_MOD
                    \/ w \in {0, 1}
    BY <1>9 DEF SUB, CMPEQ, Instruction, Depth
  <2>2. stack[Len(stack)] \in Words /\ stack[Len(stack) - 1] \in Words
    BY <1>1, <1>2, <2>1
  <2>3. WORD_MOD \in Nat /\ WORD_MOD > 1
    BY MachineAssumption, AssemblerAssumption
  <2>4. w \in Words
    BY <2>1, <2>2, <2>3 DEF Words
  <2>5. Len(stack) - 2 + 1 <= VM_STACK_SIZE
    BY <1>1
  <2> QED
    BY <1>1, <2>1, <2>4, <2>5, OneYielded
<1>10. CASE LOAD
  <2>1. PICK w \in Words : Len(stack) >= 1 /\ Yields(1, <<w>>)
    BY <1>10 DEF LOAD, Instruction, Depth
  <2>2. Len(stack) - 1 + 1 <= VM_STACK_SIZE
    BY <1>1
  <2> QED
    BY <1>1, <2>1, <2>2, OneYielded
<1>11. CASE LOAD_L
  <2> DEFINE address == VM!Address(Operand(1))
  <2>1. /\ Instruction({"LOAD_L"}, 0, 1)
        /\ \/ VM!LOAD_L(Operand(1)) /\ Yields(0, <<ram_stack[address]>>)
           \/ UNCHANGED stack
    BY <1>11 DEF LOAD_L
  <2>2. Operand(1) \in Nat
    <3>1. Opcode = "LOAD_L" /\ \A n \in 1..Fetches(Opcode) : Operand(n) \in Words
      BY <2>1, OperandThere
    <3>2. Fetches(Opcode) = 1
      BY <3>1 DEF Fetches, StoresImmediate, StoresLocal, UsesLocal
    <3>3. Operand(1) \in Words
      BY <3>1, <3>2
    <3> QED
      BY <3>3, FrameSizes
  <2>3. CASE VM!LOAD_L(Operand(1)) /\ Yields(0, <<ram_stack[address]>>)
    <3>1. VM!THREAD_ACTIVE = VMP!THREAD_ACTIVE /\ status = VM!THREAD_ACTIVE
      BY <2>1 DEF Instruction, Executing, VM!THREAD_ACTIVE, VMP!THREAD_ACTIVE
    <3>2. stack_frame[sfp].start \in Nat
      BY <3>1, VMP!FrameThere, FrameSizes DEF MachineInv, VMP!FrameInv
    <3>3. address < THREAD_STACK_SIZE
      BY <2>3 DEF VM!LOAD_L
    <3>4. address \in Nat
      BY <2>2, <3>2, FrameSizes DEF VM!Address
    <3> HIDE DEF address
    <3>5. ram_stack[address] \in Words
      <4>1. ram_stack \in [0..(THREAD_STACK_SIZE - 1) -> Words \cup Residue]
        BY DEF MachineInv, VMP!FrameInv, VMP!TypeOK
      <4>2. Residue \subseteq Words /\ THREAD_STACK_SIZE \in Nat
        BY MachineAssumption
      <4> QED
        BY <3>3, <3>4, <4>1, <4>2
    <3>6. Len(stack) - 0 + 1 <= VM_STACK_SIZE
      BY <2>1 DEF Instruction, Depth
    <3>7. Yields(0, <<ram_stack[address]>>)
      BY <2>3 DEF address
    <3> QED
      BY <1>1, <3>5, <3>6, <3>7, OneYielded
  <2> QED
    BY <1>1, <2>1, <2>3
<1> QED
  BY <1>5, <1>6, <1>7, <1>8, <1>9, <1>10, <1>11 DEF Execute

\* Every step of the commands, and every instruction, keeps the machine in order.
LEMMA MachineStep == MachineInv /\ [ProgramNext]_programVars => MachineInv'
<1> SUFFICES ASSUME MachineInv, [ProgramNext]_programVars PROVE MachineInv'
  OBVIOUS
<1>1. RunInv'
  BY RunStep DEF MachineInv
<1>2. [Next]_vars
  BY ExecuteStep
     DEF ProgramNext, Assemble, LoadFails, load_kdm_file, StartExecution, programVars, assembly
<1>3. LocalInv' /\ CodeInv'
  BY <1>2, LocalStep, CodeStep DEF MachineInv, RunInv
<1>4. ASSUME UNCHANGED <<code, stack, thread>>,
             machine' \in {"none", "refused", "loaded", "executing", "wild"},
             machine' = "loaded" => file'.header[1] \in Nat
      PROVE  MachineInv'
  <2>1. VMP!FrameInv'
    BY <1>4, VMP!SameFrames, FrameSizes DEF MachineInv, thread, VMP!FrameInv, VMP!TypeOK
  <2> QED
    BY <1>1, <1>3, <1>4, <2>1 DEF MachineInv
<1>5. CASE Assemble
  <2>1. machine' # "loaded"
    BY <1>5 DEF Assemble, MachineInv, RunInv, Next, MapSection, MapData, MapFails, MapCode, EndOfMap,
                EmitSection, EmitNothing, EmitCode, EmitFails, OpenOutput, WriteHeader, WriteProgram,
                WriteData, CloseOutput, WriteFails, Reading, Writes
  <2> QED
    BY <1>4, <1>5, <2>1 DEF Assemble, MachineInv
<1>6. CASE LoadFails \/ UNCHANGED programVars
  BY <1>4, <1>6 DEF LoadFails, programVars, assembly, vars, MachineInv
<1>7. CASE load_kdm_file
  <2>1. /\ \/ file = Leftover
           \/ file.words = program /\ file.data = ramData /\ file.header[1] = globalStart
        /\ FileIsWhole
    BY <1>7, WholeFiles DEF load_kdm_file, MachineInv, RunInv
  <2>2. /\ IsSeq(Leftover.words) /\ Len(Leftover.words) <= VM_PROGRAM_MEM
        /\ Assembled(Leftover.words)
    BY LeftoverAssumption, AssemblerAssumption, SeqOfItsOwn
  <2>3. IsSeq(program) /\ Len(program) <= VM_PROGRAM_MEM /\ Assembled(program)
        /\ globalStart \in Nat
    BY DEF MachineInv, RunInv, AsmInv, Typed, TypeOK, CodeInv
  <2>4. code' = file.words /\ UNCHANGED <<stack, thread, file>> /\ machine' \in {"loaded", "wild"}
    BY <1>7 DEF load_kdm_file, assembly, vars
  <2>5. IsSeq(code') /\ Len(code') <= VM_PROGRAM_MEM /\ Assembled(code')
    BY <2>1, <2>2, <2>3, <2>4
  <2>6. file'.header[1] \in Nat
    BY <2>1, <2>3, <2>4, LeftoverAssumption DEF FileIsWhole
  <2>7. VMP!FrameInv'
    BY <2>4, VMP!SameFrames, FrameSizes DEF MachineInv, thread, VMP!FrameInv, VMP!TypeOK
  <2> QED
    BY <1>1, <1>3, <2>4, <2>5, <2>6, <2>7 DEF MachineInv
<1>8. CASE StartExecution
  <2>1. file.header[1] % WORD_MOD \in Words
    BY <1>8, FrameSizes DEF StartExecution, MachineInv, Words
  <2>2. VMP!vm_request_thread(file.header[1] % WORD_MOD)
    BY <1>8, SameVM DEF StartExecution
  <2>3. VMP!FrameInv'
    BY <2>1, <2>2, VMP!RequestStep, FrameSizes DEF MachineInv
  <2> QED
    BY <1>1, <1>3, <1>8, <2>3 DEF StartExecution, MachineInv
<1>9. CASE Execute
  <2>1. machine' \in {"executing", "wild"} /\ UNCHANGED code
    BY <1>9, ExecuteStep
  <2> QED
    BY <1>1, <1>3, <1>9, <2>1, StackTyped, FramesUndisturbed DEF MachineInv
<1> QED
  BY <1>5, <1>6, <1>7, <1>8, <1>9 DEF ProgramNext

\* It is in order before the first command.
LEMMA MachineInit == ProgramInit => MachineInv
<1> SUFFICES ASSUME ProgramInit PROVE MachineInv
  OBVIOUS
<1>1. RunInv /\ LocalInv /\ CodeInv
  BY RunInit, LocalInit, CodeInit DEF ProgramInit
<1>2. VMP!FrameInv
  BY VMP!FrameInit, SameVM, FrameSizes DEF ProgramInit
<1>3. machine = "none" /\ code = <<>> /\ stack = <<>>
  BY DEF ProgramInit
<1>4. <<>> \in Seq(Words) /\ Len(<<>>) = 0 /\ DOMAIN <<>> = {}
  BY EmptySeq
<1>5. IsSeq(<<>>)
  BY <1>4, SeqOfItsOwn
<1> QED
  BY <1>1, <1>4, <1>5, <1>2, <1>3, MachineAssumption, AssemblerAssumption DEF MachineInv, Assembled

\* Whatever text is assembled and wherever the assembler fails: what is executed has
\* its operands in the code, its values in a word, its frames and return addresses
\* inside their arrays.
THEOREM ProgramTyped == ProgramSpec => []ProgramTypeOK
<1>1. MachineInv => ProgramTypeOK
  BY SameVM DEF MachineInv, RunInv, AsmInv, Typed, ProgramTypeOK, VMP!FrameInv, Depth
<1> QED
  BY <1>1, MachineInit, MachineStep, PTL DEF ProgramSpec

\* The subroutines of an assembled program keep their locals across calls: the
\* offsets the assembler gives are such as CallFrames asks for.
THEOREM ProgramKeepsLocals == ProgramSpec => [](VM!LockStep /\ VM!FramesApart /\ VM!LocalsKept)
<1>1. MachineInv => VM!LockStep /\ VM!FramesApart /\ VM!LocalsKept
  BY SameVM DEF MachineInv, VMP!FrameInv
<1> QED
  BY <1>1, MachineInit, MachineStep, PTL DEF ProgramSpec

----------------------------------------------------------------------------
(* What RunsEnd rests on, apart from fairness: without jumps, each          *)
(* instruction counts down.                                                 *)

\* What an activation still has before it: the words behind the one it has come
\* to, or will come back to; nothing once it has returned.
StillAhead(i) ==
  LET from == IF i = csp + 1 THEN pc ELSE call_stack[i]
  IN  IF i > csp + 1 THEN 0 ELSE IF from >= Len(code) THEN 1 ELSE Len(code) + 1 - from

\* An activation comes further, and none below it has moved.
Further ==
  \E d \in 0..CALL_STACK_MEM :
    /\ StillAhead(d)' < StillAhead(d)
    /\ \A i \in 0..(d - 1) : StillAhead(i)' = StillAhead(i)

\* What is ahead is bounded by the length of the code, for as many activations as
\* the call stack allows: they cannot come further for ever.
AheadBounded == \A i \in 0..CALL_STACK_MEM : StillAhead(i) \in 0..(Len(code) + 1)

\* It is, in every state.
LEMMA BoundedAhead ==
  ASSUME MachineInv
  PROVE  AheadBounded
<1> SUFFICES ASSUME NEW i \in 0..CALL_STACK_MEM PROVE StillAhead(i) \in 0..(Len(code) + 1)
  BY DEF AheadBounded
<1>1. CALL_STACK_MEM \in Nat /\ Len(code) \in Nat
  BY FrameSizes, LenProperties DEF MachineInv, IsSeq
<1>2. /\ pc \in Nat /\ csp \in -1..(CALL_STACK_MEM - 1)
      /\ call_stack \in [0..(CALL_STACK_MEM - 1) -> Nat]
  BY DEF MachineInv, VMP!FrameInv, VMP!TypeOK
<1>3. i <= csp => call_stack[i] \in Nat
  BY <1>1, <1>2
<1> QED
  BY <1>1, <1>2, <1>3 DEF StillAhead

\* An instruction that stays in its subroutine leaves the callers where they are.
LEMMA FurtherHere ==
  ASSUME MachineInv, pc < Len(code), pc' \in Nat, pc' > pc,
         UNCHANGED <<code, csp, call_stack>>
  PROVE  Further
<1>1. CALL_STACK_MEM \in Nat /\ Len(code) \in Nat
  BY FrameSizes, LenProperties DEF MachineInv, IsSeq
<1>2. pc \in Nat /\ csp \in -1..(CALL_STACK_MEM - 1)
  BY DEF MachineInv, VMP!FrameInv, VMP!TypeOK
<1>3. PICK d \in 0..CALL_STACK_MEM : d = csp + 1
  BY <1>1, <1>2
<1>4. StillAhead(d)' < StillAhead(d)
  BY <1>1, <1>2, <1>3 DEF StillAhead
<1>5. \A i \in 0..(d - 1) : StillAhead(i)' = StillAhead(i)
  BY <1>1, <1>2, <1>3 DEF StillAhead
<1> QED
  BY <1>4, <1>5 DEF Further

\* A CALL brings its caller behind it, wherever the subroutine starts.
LEMMA FurtherByCall ==
  ASSUME MachineInv, pc < Len(code), NEW target, VM!CALL(target), code' = code
  PROVE  Further
<1>1. CALL_STACK_MEM \in Nat /\ Len(code) \in Nat
  BY FrameSizes, LenProperties DEF MachineInv, IsSeq
<1>2. /\ pc \in Nat /\ csp \in -1..(CALL_STACK_MEM - 1)
      /\ call_stack \in [0..(CALL_STACK_MEM - 1) -> Nat]
  BY DEF MachineInv, VMP!FrameInv, VMP!TypeOK
<1>3. /\ csp < CALL_STACK_MEM - 1 /\ csp' = csp + 1
      /\ call_stack' = [call_stack EXCEPT ![csp + 1] = pc + 2]
  BY DEF VM!CALL, VM!CallRoom
<1>4. PICK d \in 0..CALL_STACK_MEM : d = csp + 1
  BY <1>1, <1>2
<1>5. /\ d \in 0..(CALL_STACK_MEM - 1) /\ csp' = d /\ call_stack'[d] = pc + 2
      /\ \A i \in 0..(d - 1) : call_stack'[i] = call_stack[i]
  BY <1>1, <1>2, <1>3, <1>4
<1>6. StillAhead(d)' < StillAhead(d)
  <2>1. StillAhead(d) = Len(code) + 1 - pc
    BY <1>1, <1>2, <1>4 DEF StillAhead
  <2>2. StillAhead(d)' = IF pc + 2 >= Len(code) THEN 1 ELSE Len(code) + 1 - (pc + 2)
    BY <1>1, <1>5 DEF StillAhead
  <2> QED
    BY <1>1, <1>2, <2>1, <2>2
<1>7. \A i \in 0..(d - 1) : StillAhead(i)' = StillAhead(i)
  BY <1>1, <1>2, <1>4, <1>5 DEF StillAhead
<1> QED
  BY <1>6, <1>7 DEF Further

\* A RET takes an activation away, and its caller goes on where it was said to.
LEMMA FurtherByReturn ==
  ASSUME MachineInv, pc < Len(code), VM!RET, code' = code
  PROVE  Further
<1>1. CALL_STACK_MEM \in Nat /\ Len(code) \in Nat
  BY FrameSizes, LenProperties DEF MachineInv, IsSeq
<1>2. pc \in Nat /\ csp \in 0..(CALL_STACK_MEM - 1)
  BY DEF MachineInv, VMP!FrameInv, VMP!TypeOK, VM!RET
<1>3. csp' = csp - 1 /\ pc' = call_stack[csp] /\ call_stack' = call_stack
  BY DEF VM!RET
<1>4. PICK d \in 0..CALL_STACK_MEM : d = csp + 1
  BY <1>1, <1>2
<1>5. StillAhead(d)' < StillAhead(d)
  BY <1>1, <1>2, <1>3, <1>4 DEF StillAhead
<1>6. \A i \in 0..(d - 1) : StillAhead(i)' = StillAhead(i)
  BY <1>1, <1>2, <1>3, <1>4 DEF StillAhead
<1> QED
  BY <1>5, <1>6 DEF Further

\* Every instruction of a program without jumps, calls and returns included
LEMMA FurtherOrOver ==
  ASSUME MachineInv, Executing, NoJumps, Execute
  PROVE  ~Executing' \/ Further
<1>1. /\ IsSeq(code) /\ Len(code) \in Nat /\ code' = code
      /\ VM!THREAD_ACTIVE # VM!THREAD_FREE
  BY LenProperties, ExecuteStep DEF MachineInv, IsSeq, VM!THREAD_ACTIVE, VM!THREAD_FREE
<1>2. pc \in Nat
  BY DEF MachineInv, VMP!FrameInv, VMP!TypeOK
<1>3. ASSUME NEW n \in {1, 2, 3}, pc' = pc + n, UNCHANGED <<csp, call_stack>>, pc < Len(code)
      PROVE  Further
  BY <1>1, <1>2, <1>3, FurtherHere
<1>4. CASE PUSH \/ POP \/ DUP \/ SUB \/ CMPEQ \/ LOAD
  BY <1>3, <1>4 DEF PUSH, POP, DUP, SUB, CMPEQ, LOAD, Instruction, Fetch
<1>5. CASE HALT
  BY <1>1, <1>5 DEF HALT, VM!HALT, Executing
<1>6. CASE LOADFails
  BY <1>6 DEF LOADFails, VM!Exit, Executing
<1>7. CASE JUMP \/ Branch
  <2>1. pc + 1 \in DOMAIN code /\ Opcode \in {"JUMP", "JZ", "JNZ"}
    BY <1>1, <1>2, <1>7, LenProperties DEF JUMP, Branch, Instruction, IsSeq
  <2> QED
    BY <2>1 DEF NoJumps, Opcode
<1>8. CASE CALL
  <2>1. pc < Len(code) /\ Opcode = "CALL"
    BY <1>8 DEF CALL, Instruction
  <2>2. CASE VM!CallFails
    BY <2>2 DEF VM!CallFails, VM!Exit, Executing
  <2>3. CASE VM!CALL(Operand(1))
    BY <1>1, <2>1, <2>3, FurtherByCall
  <2> QED
    BY <1>8, <2>2, <2>3 DEF CALL
<1>9. CASE RET
  <2>1. pc < Len(code)
    BY <1>9 DEF RET, Instruction
  <2>2. CASE VM!RetUnderflow
    BY <1>1, <2>2 DEF VM!RetUnderflow, Executing
  <2>3. CASE VM!RET
    BY <1>1, <2>1, <2>3, FurtherByReturn
  <2> QED
    BY <1>9, <2>2, <2>3 DEF RET
<1>10. CASE STORE_L \/ ISTORE_L \/ LOAD_L
  <2>1. pc < Len(code)
    BY <1>10 DEF STORE_L, ISTORE_L, LOAD_L, Instruction
  <2>2. ASSUME VM!Exit PROVE ~Executing'
    BY <2>2 DEF VM!Exit, Executing
  <2>3. CASE \E n \in {2, 3}, o, w \in Int : VM!LocalStore(n, o, w)
    BY <1>3, <2>1, <2>3 DEF VM!LocalStore
  <2> QED
    BY <1>3, <1>10, <2>1, <2>2 DEF STORE_L, ISTORE_L, LOAD_L, VM!LocalStore, VM!LOAD_L,
       VM!LocalStoreFails, VM!LoadFails
<1>11. CASE Stray
  BY <1>11 DEF Stray, Executing
<1> QED
  BY <1>4, <1>5, <1>6, <1>7, <1>8, <1>9, <1>10, <1>11 DEF Execute

\* A program without jumps comes nearer to its end with every step, though it may
\* call itself: each instruction ends the run, or an activation comes further and
\* none below it has moved; and nothing but an instruction disturbs a run.
THEOREM RunsCountDown ==
  ProgramSpec =>
    [][Executing /\ NoJumps =>
         ~Executing' \/ (Further /\ AheadBounded' /\ code' = code)]_programVars
<1>1. ASSUME MachineInv, AheadBounded', ProgramNext, Executing, NoJumps
      PROVE  ~Executing' \/ (Further /\ AheadBounded' /\ code' = code)
  <2>1. machine = "executing" /\ pass \in {0, 6}
    BY <1>1 DEF Executing, MachineInv, RunInv
  <2>2. ~Next
    BY <2>1 DEF Next, MapSection, MapData, MapFails, MapCode, EndOfMap, EmitSection, EmitNothing,
                EmitCode, EmitFails, OpenOutput, WriteHeader, WriteProgram, WriteData,
                CloseOutput, WriteFails, Reading, Writes
  <2>3. Execute
    BY <1>1, <2>1, <2>2 DEF ProgramNext, Assemble, LoadFails, load_kdm_file, StartExecution,
                            CommandRun
  <2>4. code' = code
    BY <2>3, ExecuteStep
  <2> QED
    BY <1>1, <2>3, <2>4, FurtherOrOver
<1>2. MachineInv /\ AheadBounded' /\ [ProgramNext]_programVars =>
        [Executing /\ NoJumps =>
           ~Executing' \/ (Further /\ AheadBounded' /\ code' = code)]_programVars
  BY <1>1
<1>3. MachineInv => AheadBounded
  BY BoundedAhead
<1> QED
  BY <1>2, <1>3, MachineInit, MachineStep, PTL DEF ProgramSpec

=============================================================================
