------------------------------- MODULE Assembler -------------------------------
(****************************************************************************)
(* assembler/Assembler.java: two passes over the lines of a source file.    *)
(* The first gives addresses to the data and to the subroutines, by         *)
(* counting the words each instruction will take; the second emits the      *)
(* words and resolves operands.  Then the binary is written over the one    *)
(* that an earlier run has left.  Whether an address of the first pass is   *)
(* the one the code gets in the second, and whether the VM fetches as many  *)
(* operands as were emitted, is what this module is about; what the binary  *)
(* does is in module Program.                                               *)
(*                                                                          *)
(* A declaration read as code is an instruction without a mnemonic.         *)
(****************************************************************************)
EXTENDS GrrSource

CONSTANTS
  Sources,          \* the texts that are assembled
  Numerals,         \* token |-> its value, for tokens that are numbers
  VM_PROGRAM_MEM,   \* words of program memory (1024)
  Leftover          \* the binary an earlier run of the assembler has left

ASSUME AssemblerAssumption ==
  /\ VM_PROGRAM_MEM \in Nat
  /\ Sources \subseteq Seq(Lines)
  /\ \A token \in DOMAIN Numerals : Numerals[token] \in Int
  /\ Len(Leftover.words) \in 0..VM_PROGRAM_MEM

VARIABLES
  source,     \* the lines of the file
  pass,       \* 1 and 2, then 3 to 5 as the binary is written, 6 when it has been,
              \* 0 after an error
  at,         \* the line that is read next
  section,    \* currentSection
  counter,    \* codeWordCounter of the first pass
  symbols,    \* symbolTable
  starts,     \* subroutineMap: the programLine of each subroutine
  locals,     \* subroutineMap: its locals, the one with offset i at i + 1
  globalStart,
  ramData,    \* the words of the data sections
  current,    \* currentSubroutine of the second pass
  program,    \* the words emitted, each with the line it comes from
  file        \* the .grro file

addresses == <<symbols, starts, globalStart, ramData>>
vars == <<source, pass, at, section, counter, addresses, locals, current, program, file>>

NoEntries == [x \in {} |-> 0]
NoFile == [header |-> <<>>, words |-> <<>>, data |-> <<>>]

\* f with x mapped to y, and the same unless x is there already
Put(f, x, y) == [z \in DOMAIN f \cup {x} |-> IF z = x THEN y ELSE f[z]]
PutIfAbsent(f, x, y) == IF x \in DOMAIN f THEN f ELSE Put(f, x, y)

Init ==
  /\ source \in Sources
  /\ pass = 1 /\ at = 1
  /\ section = NoName /\ current = NoName
  /\ counter = 0 /\ globalStart = 0 /\ ramData = <<>>
  /\ symbols = NoEntries /\ starts = NoEntries /\ locals = NoEntries
  /\ program = <<>> /\ file = Leftover

Line == source[at]
Reading(n) == pass = n /\ at <= Len(source)

----------------------------------------------------------------------------
(* The first pass.                                                          *)

\* A count that would forget the operand LOAD, STORE and OUT may have
WordCountNoOperand(line) ==
  IF line.op \in StoresImmediate \cup StoresLocal THEN 3
  ELSE IF line.op \in Pushes \cup Jumps \cup UsesLocal THEN 2 ELSE 1

getInstructionWordCount(line) ==
  IF line.op \in StoresImmediate \cup StoresLocal THEN 3
  ELSE IF line.op \in Pushes \cup Jumps \cup UsesLocal THEN 2
  ELSE IF line.op \in OptionalOperand /\ line.args # <<>> THEN 2 ELSE 1

WORD_OPEN == 1
WORD_CONSTANT == 2

\* The words of a line of a data section.  An array has its length in front, that
\* word included.  An instruction is read as a declaration of no known type, whose
\* name is the first operand: its values get no words, but several are an array,
\* and that has a length.
Elements(line) ==
  IF line.kind = "code" THEN IF Len(line.args) > 2 THEN <<Len(line.args)>> ELSE <<>>
  ELSE IF line.array THEN <<Len(line.values) + 1>> \o line.values ELSE line.values

DataWords(line) ==
  LET state == IF section = "_const_data" THEN WORD_CONSTANT ELSE WORD_OPEN
  IN  [i \in DOMAIN Elements(line) |-> [val |-> Elements(line)[i], word_state |-> state]]

DeclaredName(line) == IF line.kind = "code" THEN line.args[1] ELSE line.name

\* An instruction with an operand that would be a value, and is no number
Unparsable(line) ==
  line.kind = "code" /\ \E i \in 2..Len(line.args) : line.args[i] \notin DOMAIN Numerals

MapSection ==
  /\ Reading(1) /\ IsHeader(Line)
  /\ at' = at + 1
  /\ IF Line.name \in DataSections
     THEN /\ section' = Line.name
          /\ UNCHANGED <<symbols, starts, locals, globalStart>>
     ELSE /\ section' = "code"
          /\ starts' = Put(starts, Line.name, counter)
          /\ locals' = Put(locals, Line.name, <<>>)
          /\ symbols' = Put(symbols, Line.name, counter)
          /\ globalStart' = IF Line.name = "_global" THEN counter ELSE globalStart
  /\ UNCHANGED <<source, pass, counter, ramData, current, program, file>>

\* In a data section every line is a declaration; one without words has no address
\* either.
MapData ==
  /\ Reading(1) /\ section \in DataSections /\ ~IsHeader(Line) /\ ~Unparsable(Line)
  /\ at' = at + 1
  /\ IF DataWords(Line) # <<>>
     THEN /\ symbols' = PutIfAbsent(symbols, DeclaredName(Line), Len(ramData))
          /\ ramData' = ramData \o DataWords(Line)
     ELSE UNCHANGED <<symbols, ramData>>
  /\ UNCHANGED <<source, pass, section, counter, starts, locals, globalStart, current, program, file>>

\* The exception nobody catches
MapFails ==
  /\ Reading(1) /\ section \in DataSections /\ ~IsHeader(Line) /\ Unparsable(Line)
  /\ pass' = 0
  /\ UNCHANGED <<source, at, section, counter, addresses, locals, current, program, file>>

\* Outside the data sections; before the first header nothing is counted.
MapCode ==
  /\ Reading(1) /\ section \notin DataSections /\ ~IsHeader(Line)
  /\ at' = at + 1
  /\ counter' = IF section = "code" THEN counter + getInstructionWordCount(Line) ELSE counter
  /\ UNCHANGED <<source, pass, section, addresses, locals, current, program, file>>

EndOfMap ==
  /\ pass = 1 /\ at > Len(source)
  /\ pass' = IF "_global" \in DOMAIN starts THEN 2 ELSE 0
  /\ at' = 1 /\ section' = NoName
  /\ UNCHANGED <<source, counter, addresses, locals, current, program, file>>

----------------------------------------------------------------------------
(* The second pass.                                                         *)

Known(token) == token \in DOMAIN symbols \cup DOMAIN Numerals
resolveVal(token) == IF token \in DOMAIN symbols THEN symbols[token] ELSE Numerals[token]

\* A target that would count from the start of the program
TargetFromZero(token) ==
  IF token \in DOMAIN symbols THEN symbols[token] ELSE Numerals[token]

\* Symbols first; a number counts from the start of the subroutine.
resolveJumpTarget(token) ==
  IF token \in DOMAIN symbols THEN symbols[token]
  ELSE IF current # NoName THEN starts[current] + Numerals[token] ELSE Numerals[token]

HasLocal(name) == \E i \in DOMAIN locals[current] : locals[current][i] = name
OffsetOf(seq, name) == (CHOOSE i \in DOMAIN seq : seq[i] = name) - 1

\* A map that would keep the last local alone
LocalsForgotten(name) == [locals EXCEPT ![current] = <<name>>]

getOrCreateLocal(name) ==
  IF HasLocal(name) THEN locals ELSE [locals EXCEPT ![current] = Append(@, name)]

\* The operands that are emitted: further tokens are not looked at.
OperandTokens(line) ==
  LET most == IF line.op \in ZeroOperand THEN 0
              ELSE IF line.op \in StoresImmediate \cup StoresLocal THEN 2 ELSE 1
  IN  IF Len(line.args) <= most THEN line.args ELSE SubSeq(line.args, 1, most)

\* The first operand of these is a number, and no symbol.
TakesNumber(line) == line.op \in StoresImmediate \cup StoresLocal \cup {"FPUSH", "CPUSH", "BPUSH"}

\* The word of operand i, with the locals as getOrCreateLocal leaves them
OperandWord(line, i) ==
  LET token == OperandTokens(line)[i]
  IN  IF line.op \in Jumps THEN resolveJumpTarget(token)
      ELSE IF i = 1 /\ TakesNumber(line) THEN Numerals[token]
      ELSE IF UsesLocals(line) THEN OffsetOf(locals'[current], token)
      ELSE resolveVal(token)

Word(op, val) == [op |-> op, val |-> val, line |-> at]

EmitSection ==
  /\ Reading(2) /\ IsHeader(Line)
  /\ at' = at + 1 /\ section' = Line.name
  /\ current' = IF Line.name \in DataSections THEN current ELSE Line.name
  /\ UNCHANGED <<source, pass, counter, addresses, locals, program, file>>

EmitNothing ==
  /\ Reading(2) /\ ~IsHeader(Line) /\ section \in DataSections
  /\ at' = at + 1
  /\ UNCHANGED <<source, pass, section, counter, addresses, locals, current, program, file>>

\* An unknown instruction, one without its operands, a token that is neither
\* symbol nor number, or a local outside every subroutine
Malformed(line) ==
  \/ line.op \notin Mnemonics
  \/ line.op \in Pushes \cup Jumps \cup UsesLocal /\ line.args = <<>>
  \/ line.op \in StoresImmediate \cup StoresLocal /\ Len(line.args) < 2
  \/ TakesNumber(line) /\ line.args[1] \notin DOMAIN Numerals
  \/ UsesLocals(line) /\ current = NoName
  \/ /\ ~UsesLocals(line)
     /\ \E i \in DOMAIN OperandTokens(line) : ~Known(OperandTokens(line)[i])

WordsOf(line) == 1 + Len(OperandTokens(line))

\* A check that would look at the opcode's word alone
RoomForOpcode(n) == Len(program) < VM_PROGRAM_MEM

\* The check of emit, for the n words of an instruction
RoomFor(n) == Len(program) + n <= VM_PROGRAM_MEM

EmitCode ==
  /\ Reading(2) /\ ~IsHeader(Line) /\ section \notin DataSections
  /\ ~Malformed(Line) /\ RoomFor(WordsOf(Line))
  /\ locals' = IF UsesLocals(Line) THEN getOrCreateLocal(LocalToken(Line)) ELSE locals
  /\ program' = program \o <<Word(Line.op, 0)>>
                   \o [i \in 1..(WordsOf(Line) - 1) |-> Word("operand", OperandWord(Line, i))]
  /\ at' = at + 1
  /\ UNCHANGED <<source, pass, section, counter, addresses, current, file>>

\* The error ends the run of the assembler before the binary is opened.
EmitFails ==
  /\ Reading(2) /\ ~IsHeader(Line) /\ section \notin DataSections
  /\ Malformed(Line) \/ ~RoomFor(WordsOf(Line))
  /\ pass' = 0
  /\ UNCHANGED <<source, at, section, counter, addresses, locals, current, program, file>>

----------------------------------------------------------------------------
(* Writing the binary.  A write that is torn is as good as none for the     *)
(* loader, which reads the same three parts, each of them whole or not.     *)

Writes(step, next) ==
  /\ pass = step /\ pass' = next
  /\ UNCHANGED <<source, at, section, counter, addresses, locals, current, program>>

\* The FileOutputStream empties the file.
OpenOutput == at > Len(source) /\ Writes(2, 3) /\ file' = NoFile

WriteHeader ==
  /\ Writes(3, 4)
  /\ file' = [file EXCEPT !.header = <<globalStart, Len(program), Len(ramData)>>]

WriteProgram == Writes(4, 5) /\ file' = [file EXCEPT !.words = program]

WriteData ==
  /\ Len(file.data) < Len(ramData) /\ Writes(5, 5)
  /\ file' = [file EXCEPT !.data = Append(@, ramData[Len(@) + 1])]

\* After the listing has been written too
CloseOutput == Len(file.data) = Len(ramData) /\ Writes(5, 6) /\ UNCHANGED file

\* An IOException, that of the listing included, or the assembler is killed
WriteFails == (\E step \in 3..5 : Writes(step, 0)) /\ UNCHANGED file

Next ==
  \/ MapSection \/ MapData \/ MapFails \/ MapCode \/ EndOfMap
  \/ EmitSection \/ EmitNothing \/ EmitCode \/ EmitFails
  \/ OpenOutput \/ WriteHeader \/ WriteProgram \/ WriteData \/ CloseOutput \/ WriteFails

Spec == Init /\ [][Next]_vars

----------------------------------------------------------------------------
(* The VM's side: what the instructions fetch behind their opcode, in       *)
(* stack_vm_execute and mem_vm_execute, and Jumps in                        *)
(* control_flow_vm_execute and IN in io_vm_execute.                         *)

\* A VM that would fetch one operand for a local store of an immediate value
FetchesOneForLocals(op) ==
  IF op \in StoresImmediate THEN 2
  ELSE IF op \in Pushes \cup Jumps \cup UsesLocal \cup StoresLocal THEN 1 ELSE 0

Fetches(op) ==
  IF op \in StoresImmediate \cup StoresLocal THEN 2
  ELSE IF op \in Pushes \cup Jumps \cup UsesLocal THEN 1 ELSE 0

----------------------------------------------------------------------------
(* What the binary has to be.                                               *)

\* The words are all there, and do not change any more.
Emitted == pass = 3
WordsBefore(k) == Cardinality({p \in DOMAIN program : program[p].line < k})

\* An operand written behind LOAD, STORE or OUT, which no document has
UndocumentedOperand ==
  \E k \in DOMAIN source :
    source[k].kind = "code" /\ source[k].op \in OptionalOperand /\ source[k].args # <<>>

TypeOK ==
  /\ pass \in 0..6 /\ at \in 1..(Len(source) + 1)
  /\ counter \in Nat /\ globalStart \in 0..counter
  /\ DOMAIN starts = DOMAIN locals /\ DOMAIN starts \subseteq DOMAIN symbols
  /\ Len(program) <= VM_PROGRAM_MEM
  /\ Len(file.words) <= VM_PROGRAM_MEM

\* The code of a subroutine is where the first pass said it would be, so that a
\* CALL finds it: behind the first header the two passes count the same words
\* for every instruction.
CodeWhereMapped ==
  Emitted /\ ~LeadingCode(source) =>
    \A name \in DOMAIN starts : starts[name] = WordsBefore(LastHeader(source, name))

\* The VM finds an opcode behind the operands of the instruction before it: it
\* fetches as many words as the assembler has emitted.
DecodesAsWritten ==
  Emitted /\ ~UndocumentedOperand =>
    \A p \in DOMAIN program : program[p].op # "operand" =>
      LET next == p + 1 + Fetches(program[p].op)
      IN  /\ next <= Len(program) => program[next].op # "operand"
          /\ next <= Len(program) + 1
          /\ \A q \in (p + 1)..(next - 1) : program[q].op = "operand"

\* The local a word names is a local of its subroutine: two words of code of one
\* subroutine, wherever it is continued, have one offset if and only if they
\* name one local.
LocalsApart ==
  Emitted =>
    \A p, q \in DOMAIN program :
      LET k == program[p].line
          j == program[q].line
      IN  /\ program[p].op \in StoresLocal \cup UsesLocal
          /\ program[q].op \in StoresLocal \cup UsesLocal
          /\ source[HeaderOf(source, k)].name = source[HeaderOf(source, j)].name
          => (program[p + Fetches(program[p].op)].val = program[q + Fetches(program[q].op)].val)
               <=> (LocalToken(source[k]) = LocalToken(source[j]))

=============================================================================
