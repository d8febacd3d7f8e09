------------------------------- MODULE GrrSource -------------------------------
(****************************************************************************)
(* The lines of a .grr file as assembler/Assembler.java reads them, each as *)
(* its parts: a section header, a declaration of data, or an instruction    *)
(* with its operand tokens.  A name stands for itself with or without $ and *)
(* ::, which resolveVal strips: a text in which the two forms of a name are *)
(* declared as different things is not among these.  Neither is a line of a *)
(* data section with a comma and no type in front, nor one whose name is a  *)
(* part of its type (the assembler looks for its values behind that part).  *)
(*                                                                          *)
(*   [kind |-> "section", name |-> header]                                  *)
(*   [kind |-> "data", name |-> symbol, array |-> whether it is one,        *)
(*    values |-> its elements, op, args |-> the same tokens read as code]   *)
(*   [kind |-> "code", op |-> mnemonic, args |-> operand tokens]            *)
(****************************************************************************)
EXTENDS Integers, Sequences, FiniteSets

DataSections == {"_data", "_const_data"}

\* The null of a variable that holds a name; no header is called so.
NoName == "none"

\* The opcodes, in classes of instructions with the same layout
StoresImmediate == {"ISTORE", "FSTORE", "CSTORE", "BSTORE"}
StoresLocal == {"ISTORE_L", "FSTORE_L", "CSTORE_L", "BSTORE_L"}
Pushes == {"PUSH", "FPUSH", "CPUSH", "BPUSH", "IN"}
Jumps == {"JUMP", "JZ", "JNZ", "CALL"}
UsesLocal == {"LOAD_L", "STORE_L"}
OptionalOperand == {"LOAD", "STORE", "OUT"}
ZeroOperand ==
  {"HALT", "POP", "DUP", "SWAP", "ROT", "PEEK", "ADD", "SUB", "MUL", "DIV", "MOD",
   "INC", "DEC", "H_ALLOC", "H_FREE", "CMPEQ", "CMPNEQ", "CMPLT", "CMPLE", "CMPGT",
   "CMPGE", "OUT_LN", "FOUT", "FOUT_LN", "SYS_READ", "SYS_WRITE", "RET",
   "STORE_OFF", "LOAD_OFF"}
Mnemonics == StoresImmediate \cup StoresLocal \cup Pushes \cup Jumps \cup UsesLocal
               \cup OptionalOperand \cup ZeroOperand

\* The lines.  The type in front of a declaration is no mnemonic.
Lines ==
  [kind : {"section"}, name : STRING \ {NoName}]
    \cup [kind : {"data"}, name : STRING, array : BOOLEAN, values : Seq(Int),
          op : STRING \ Mnemonics, args : Seq(STRING)]
    \cup [kind : {"code"}, op : STRING, args : Seq(STRING)]

IsHeader(line) == line.kind = "section"
UsesLocals(line) == line.op \in StoresLocal \cup UsesLocal
LocalToken(line) == line.args[IF line.op \in StoresLocal THEN 2 ELSE 1]

\* Where a header stands, and the last of one name
Headers(text, name) == {k \in DOMAIN text : IsHeader(text[k]) /\ text[k].name = name}
LastHeader(text, name) ==
  CHOOSE k \in Headers(text, name) : \A j \in Headers(text, name) : j <= k

\* The header line k stands under, for a line that has one before it
HeaderOf(text, k) ==
  CHOOSE h \in 1..k : IsHeader(text[h]) /\ \A j \in (h + 1)..k : ~IsHeader(text[j])

\* A line of code before the first section header
LeadingCode(text) == text # <<>> /\ ~IsHeader(text[1])

\* The lines that become instructions, in a text that starts with a header
CodeLines(text) ==
  {k \in DOMAIN text :
     ~IsHeader(text[k]) /\ text[HeaderOf(text, k)].name \notin DataSections}

=============================================================================
