------------------------------- MODULE SourceRun -------------------------------
(****************************************************************************)
(* What running a .grr text means, as README.md describes its instructions: *)
(* lines that follow one another, subroutines with named locals, a stack of *)
(* words.  There are no addresses of code, no offsets, no frames and no     *)
(* binary here; module Program, which has all of these, implements this.    *)
(*                                                                          *)
(* A text that breaks one of the rules of WellFormed may do anything, and   *)
(* so may a program from the moment it pops an empty stack or pushes to a   *)
(* full one.  What a local holds before it is stored is open.               *)
(****************************************************************************)
EXTENDS GrrSource

CONSTANTS
  Numerals, CALL_STACK_MEM, THREAD_STACK_SIZE, VM_STACK_SIZE, VM_RAM_SIZE, WORD_MOD

VARIABLES
  source,       \* the text
  state,        \* "idle", then "running", then "over", or "wild" if anything goes
  here,         \* the line that runs next
  activations,  \* the subroutines under way: name, locals stored, line to return to
  stack         \* the operand stack

vars == <<source, state, here, activations, stack>>

----------------------------------------------------------------------------
(* The text.                                                                *)

Subroutines == {source[k].name : k \in {j \in DOMAIN source : IsHeader(source[j])}} \ DataSections
SubroutineAt(k) == source[HeaderOf(source, k)].name
BodyOf(sub) == {k \in CodeLines(source) : SubroutineAt(k) = sub}
FirstOf(lines) == CHOOSE k \in lines : \A j \in lines : k <= j
LastOf(lines) == CHOOSE k \in lines : \A j \in lines : j <= k

\* The line the word n of a subroutine's code is the opcode of, every operand
\* being a word of its own, or none
WordsAhead(k) ==
  UNION {{j} \X (0..Len(source[j].args)) : j \in {i \in BodyOf(SubroutineAt(k)) : i < k}}
LinesAt(sub, n) == {k \in BodyOf(sub) : Cardinality(WordsAhead(k)) = n}

\* The data sections word by word, an array with its length in front, and where
\* the words of a declaration begin
Declarations ==
  {k \in DOMAIN source :
     source[k].kind = "data" /\ SubroutineAt(k) \in DataSections}
WordsIn(line) == IF line.array THEN <<Len(line.values) + 1>> \o line.values ELSE line.values
WordCount(lines) == Cardinality(UNION {{j} \X (DOMAIN WordsIn(source[j])) : j \in lines})
Address(k) == WordCount({i \in Declarations : i < k})
DataAt(address) ==
  {WordsIn(source[k])[address - Address(k) + 1] :
     k \in {j \in Declarations : address - Address(j) + 1 \in DOMAIN WordsIn(source[j])}}

DataNames == {source[k].name : k \in Declarations}
ValueOf(token) ==
  IF token \in DataNames
  THEN Address(CHOOSE k \in Declarations : source[k].name = token) ELSE Numerals[token]

OperandsOf(op) ==
  CASE op \in StoresImmediate \cup StoresLocal -> 2
    [] op \in Pushes \cup Jumps \cup UsesLocal -> 1
    [] OTHER -> 0

\* The rules of the language: one header for each subroutine, and names apart;
\* subroutines end in RET (::_global in HALT), or jump away; PUSH takes a number or
\* the name of data, CALL that of a subroutine, and a jump counts to an instruction
\* of its own; every instruction has its operands and no more, LOAD, STORE and OUT
\* none; no data section has a list of values without a type; the data fits in RAM.
WellFormed ==
  /\ "_global" \in Subroutines /\ ~LeadingCode(source)
  /\ \A sub \in Subroutines :
       /\ Cardinality(Headers(source, sub)) = 1
       /\ BodyOf(sub) # {}
       /\ source[LastOf(BodyOf(sub))].op \in {"RET", "HALT", "JUMP"}
  /\ DataNames \cap Subroutines = {} /\ (DataNames \cup Subroutines) \cap DOMAIN Numerals = {}
  /\ Cardinality(DataNames) = Cardinality(Declarations)
  /\ \A k \in DOMAIN source \ CodeLines(source) :
       source[k].kind = "code" => Len(source[k].args) <= 2
  /\ WordCount(Declarations) <= VM_RAM_SIZE
  /\ \A k \in CodeLines(source) :
       LET line == source[k]
       IN  /\ Len(line.args) = OperandsOf(line.op)
           /\ line.op = "PUSH" => line.args[1] \in DataNames \cup DOMAIN Numerals
           /\ line.op = "CALL" => line.args[1] \in Subroutines
           /\ line.op \in Jumps \ {"CALL"} =>
                /\ line.args[1] \in DOMAIN Numerals
                /\ LinesAt(SubroutineAt(k), Numerals[line.args[1]]) # {}

----------------------------------------------------------------------------
(* One action per instruction.                                              *)

Line == source[here]
Top == Len(activations)
NextLine(k) == FirstOf({j \in CodeLines(source) : j > k})
Depth == Len(stack)
Pop(n) == SubSeq(stack, 1, Depth - n)

Init == state = "idle" /\ here = 0 /\ activations = <<>> /\ stack = <<>>

Enter(sub, back) == [sub |-> sub, locals |-> [x \in {} |-> 0], back |-> back]

Start ==
  /\ state = "idle" /\ state' = "running" /\ WellFormed
  /\ here' = FirstOf(BodyOf("_global"))
  /\ activations' = <<Enter("_global", 0)>>
  /\ UNCHANGED <<source, stack>>

\* The end of the thread and that of the process are one here.
Stop(how) ==
  state' = how /\ here' = 0 /\ activations' = <<>> /\ stack' = <<>> /\ UNCHANGED source

\* An instruction that takes so many words off the stack and puts so many there
Instruction(ops, pops, pushes) ==
  /\ state = "running" /\ Line.op \in ops
  /\ Depth >= pops /\ Depth - pops + pushes <= VM_STACK_SIZE
  /\ UNCHANGED <<source, state>>
Goes(k) == here' = k
Yields(pops, words) == stack' = Pop(pops) \o words

Arithmetic(a, b) ==
  CASE Line.op = "SUB" -> (a - b) % WORD_MOD
    [] Line.op = "CMPEQ" -> IF a = b THEN 1 ELSE 0

Push ==
  /\ Instruction({"PUSH"}, 0, 1) /\ Yields(0, <<ValueOf(Line.args[1]) % WORD_MOD>>)
  /\ Goes(NextLine(here)) /\ UNCHANGED activations

Drop ==
  /\ Instruction({"POP"}, 1, 0) /\ Yields(1, <<>>)
  /\ Goes(NextLine(here)) /\ UNCHANGED activations

Duplicate ==
  /\ Instruction({"DUP"}, 1, 2) /\ Yields(0, <<stack[Depth]>>)
  /\ Goes(NextLine(here)) /\ UNCHANGED activations

Combine ==
  /\ Instruction({"SUB", "CMPEQ"}, 2, 1)
  /\ Yields(2, <<Arithmetic(stack[Depth - 1], stack[Depth])>>)
  /\ Goes(NextLine(here)) /\ UNCHANGED activations

\* Static data has the declared value; other memory has any.
Load ==
  /\ Instruction({"LOAD"}, 1, 1)
  /\ \E word \in 0..(WORD_MOD - 1) :
       /\ \A value \in DataAt(stack[Depth]) : word = value % WORD_MOD
       /\ Yields(1, <<word>>)
  /\ Goes(NextLine(here)) /\ UNCHANGED activations

\* A jump counts words from the start of its subroutine.
Target == FirstOf(LinesAt(activations[Top].sub, Numerals[Line.args[1]]))

Jump ==
  /\ Instruction({"JUMP"}, 0, 0) /\ Goes(Target) /\ UNCHANGED <<activations, stack>>

Branch ==
  /\ Instruction({"JZ", "JNZ"}, 1, 0) /\ Yields(1, <<>>) /\ UNCHANGED activations
  /\ Goes(IF (Line.op = "JZ") = (stack[Depth] = 0) THEN Target ELSE NextLine(here))

Call ==
  /\ Instruction({"CALL"}, 0, 0) /\ Top <= CALL_STACK_MEM
  /\ Goes(FirstOf(BodyOf(Line.args[1])))
  /\ activations' = Append(activations, Enter(Line.args[1], NextLine(here)))
  /\ UNCHANGED stack

Return ==
  /\ Instruction({"RET"}, 0, 0) /\ Top > 1
  /\ Goes(activations[Top].back)
  /\ activations' = SubSeq(activations, 1, Top - 1)
  /\ UNCHANGED stack

StoreAs(name, word) ==
  activations' = [activations EXCEPT ![Top].locals =
                    [x \in DOMAIN @ \cup {name} |-> IF x = name THEN word ELSE @[x]]]

StoreLocal ==
  /\ Instruction({"STORE_L"}, 1, 0) /\ Yields(1, <<>>)
  /\ StoreAs(LocalToken(Line), stack[Depth]) /\ Goes(NextLine(here))

StoreImmediate ==
  /\ Instruction({"ISTORE_L"}, 0, 0) /\ UNCHANGED stack
  /\ StoreAs(LocalToken(Line), Numerals[Line.args[1]] % WORD_MOD) /\ Goes(NextLine(here))

\* A local that this activation has stored has that value, any other has any.
LoadLocal ==
  /\ Instruction({"LOAD_L"}, 0, 1)
  /\ \E word \in 0..(WORD_MOD - 1) :
       /\ LocalToken(Line) \in DOMAIN activations[Top].locals
            => word = activations[Top].locals[LocalToken(Line)]
       /\ Yields(0, <<word>>)
  /\ Goes(NextLine(here)) /\ UNCHANGED activations

\* The program ends at a HALT, or a RET without a CALL, ...
Ends ==
  /\ state = "running"
  /\ Line.op = "HALT" \/ (Line.op = "RET" /\ Top = 1)
  /\ Stop("over")

\* ... at a CALL too deep, at an address or a local that is not there, or for want
\* of room, which there is for all locals named in the subroutines under way.
NamedIn(sub) == {LocalToken(source[k]) : k \in {j \in BodyOf(sub) : UsesLocals(source[j])}}
NoRoom ==
  THREAD_STACK_SIZE < Cardinality(UNION {{i} \X NamedIn(activations[i].sub) : i \in 1..Top})

Fails ==
  /\ state = "running"
  /\ \/ Line.op = "CALL" /\ Top > CALL_STACK_MEM
     \/ Line.op = "LOAD" /\ Depth > 0 /\ stack[Depth] >= VM_RAM_SIZE
     \/ Line.op = "LOAD_L" /\ LocalToken(Line) \notin DOMAIN activations[Top].locals
     \/ Line.op \in {"STORE_L", "ISTORE_L"} /\ NoRoom
  /\ Stop("over")

\* The code checks neither end of the stack.  Other instructions than these are
\* not described here.
Described ==
  {"HALT", "PUSH", "POP", "DUP", "SUB", "CMPEQ", "LOAD", "LOAD_L", "STORE_L", "ISTORE_L",
   "RET"} \cup Jumps
Pops == CASE Line.op \in {"SUB", "CMPEQ"} -> 2
          [] Line.op \in {"POP", "DUP", "LOAD", "STORE_L", "JZ", "JNZ"} -> 1
          [] OTHER -> 0
Undescribed ==
  /\ state = "running"
  /\ Line.op \notin Described \/ Depth < Pops
     \/ (Line.op \in {"PUSH", "DUP", "LOAD_L"} /\ Depth = VM_STACK_SIZE)
  /\ Stop("wild")

Anything == state' # "idle" /\ ~WellFormed /\ UNCHANGED source

Next ==
  \/ Start \/ Anything
  \/ Push \/ Drop \/ Duplicate \/ Combine \/ Load \/ Jump \/ Branch \/ Call \/ Return
  \/ StoreLocal \/ StoreImmediate \/ LoadLocal \/ Ends \/ Fails \/ Undescribed

Spec == Init /\ [][Next]_vars

=============================================================================
