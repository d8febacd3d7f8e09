------------------------------- MODULE MCProgram -------------------------------
EXTENDS Program

Section(s) == [kind |-> "section", name |-> s]
Code(o, a) == [kind |-> "code", op |-> o, args |-> a]
Array(s, v) == [kind |-> "data", name |-> s, values |-> v, array |-> TRUE,
                op |-> "word", args |-> <<>>]
Scalar(s, v) == [kind |-> "data", name |-> s, values |-> v, array |-> FALSE,
                 op |-> "word", args |-> <<>>]

UpTo(n, lines) == UNION {[1..k -> lines] : k \in 0..n}

\* Every text of up to four lines, one line of every layout
AnyLines ==
  {Section("f"), Section("_global"), Section("_data"), Array("x", <<1>>), Scalar("y", <<3>>),
   Code("ISTORE", <<"2", "x">>), Code("LOAD", <<>>), Code("LOAD", <<"2">>),
   Code("STORE_L", <<"a">>), Code("LOAD_L", <<"a">>), Code("ISTORE_L", <<"2", "b">>),
   Code("CALL", <<"f">>), Code("JUMP", <<"2">>), Code("RET", <<>>)}

\* A subroutine f, which may call itself, and ::_global, which may call it, with
\* locals on both sides
InF == {Code("STORE_L", <<"a">>), Code("ISTORE_L", <<"2", "b">>), Code("LOAD_L", <<"b">>),
        Code("LOAD_L", <<"a">>), Code("CALL", <<"f">>)}
InGlobal == {Code("ISTORE_L", <<"-1", "c">>), Code("PUSH", <<"3">>), Code("STORE_L", <<"a">>),
             Code("LOAD_L", <<"c">>), Code("CALL", <<"f">>)}
Calls ==
  {<<Section("f")>> \o f \o <<Code("RET", <<>>), Section("_global")>> \o g \o <<Code("HALT", <<>>)>> :
     f \in UpTo(2, InF), g \in UpTo(3, InGlobal)}

\* Data of two declarations, and code that finds them by their names, and
\* what is past the end of ram[]
Declared == {Section("_data"), Section("_const_data"), Array("x", <<3, 5>>),
             Scalar("x", <<6>>), Scalar("y", <<-4>>), Array("y", <<2, 2, 2, 2>>)}
Lookups ==
  {d \o <<Section("_global")>> \o g \o <<Code("HALT", <<>>)>> :
     d \in [1..4 -> Declared],
     g \in {<<Code("PUSH", <<s>>), Code("LOAD", <<>>)>> : s \in {"x", "y", "8"}}}

\* Two subroutines that call one another, from before and from behind
Mutual ==
  {<<Section("f")>> \o f \o <<Code("RET", <<>>), Section("g")>> \o g
     \o <<Code("RET", <<>>), Section("_global")>> \o h \o <<Code("HALT", <<>>)>> :
     f \in UpTo(2, {Code("CALL", <<"g">>), Code("ISTORE_L", <<"2", "b">>), Code("LOAD_L", <<"b">>)}),
     g \in UpTo(1, {Code("CALL", <<"f">>), Code("ISTORE_L", <<"1", "a">>)}),
     h \in UpTo(2, {Code("CALL", <<"f">>), Code("CALL", <<"g">>), Code("ISTORE_L", <<"3", "c">>),
                    Code("LOAD_L", <<"c">>)})}

\* A subroutine that is begun, left and continued under a second header
Continued ==
  {<<Section("f"), k, Section("g"), l, Section("f"), m, Section("_global"), Code("HALT", <<>>)>> :
     k, l, m \in {Code("STORE_L", <<"a">>), Code("ISTORE_L", <<"2", "b">>), Code("LOAD_L", <<"a">>)}}

\* Instructions with too few operands, too many, or one of the wrong kind, and some
\* among the data
Crooked ==
  {<<Section("f"), Code("RET", <<>>), Section("_global"), k, Code("CALL", <<"f">>), Code("HALT", <<>>)>> :
     k \in {Code("STORE_L", <<>>), Code("ISTORE_L", <<"2">>), Code("ISTORE_L", <<"f", "b">>),
            Code("PUSH", <<"3", "2">>), Code("POP", <<"f">>), Code("BPUSH", <<"f">>),
            Code("JUMP", <<>>), Code("CALL", <<"f", "f">>), Code("OUT", <<"f", "2">>),
            Code("ISTORE", <<"f", "2">>), Code("LOAD_L", <<"a", "b">>), Code("PUSH", <<"f">>)}}
  \cup {<<Section(d), Array("x", <<3>>), k, Section("_global"), Code("PUSH", <<"z">>),
           Code("LOAD", <<>>), Code("HALT", <<>>)>> :
            d \in DataSections,
            k \in {Code("POP", <<"z", "1", "2">>), Code("POP", <<"x", "1", "2">>),
                   Code("POP", <<"z", "1">>), Code("POP", <<"z", "1", "x">>)}}
  \cup {<<Section("2"), Code("RET", <<>>), Section("_global"), Code("PUSH", <<"2">>), Code("HALT", <<>>)>>}

\* Loops under another subroutine, and the recursion of tests/test_recursion.grr
Loops ==
  {<<Section("f")>> \o f \o <<Section("_global"), Code("PUSH", <<n>>)>> \o g
     \o <<Code("HALT", <<>>)>> :
     n \in {"1", "2"},
     f \in {<<Code("PUSH", <<"1">>), Code("SUB", <<>>), Code("DUP", <<>>),
              Code(j, <<t>>), Code("RET", <<>>)>> :
              j \in {"JUMP", "JZ", "JNZ"}, t \in {"0", "2", "3"}}
           \cup
           {<<Code("DUP", <<>>), Code("PUSH", <<"0">>), Code("CMPEQ", <<>>), Code("JZ", <<"8">>),
              Code("POP", <<>>), Code("RET", <<>>),
              Code("PUSH", <<"1">>), Code("SUB", <<>>), Code("CALL", <<"f">>), Code("RET", <<>>)>>},
     g \in {<<Code("CALL", <<"f">>)>>,
            <<Code("DUP", <<>>), Code("CALL", <<"f">>), Code("JUMP", <<"8">>), Code("POP", <<>>)>>}}

AllSources == UpTo(4, AnyLines) \cup Calls \cup Mutual \cup Continued \cup Crooked \cup Lookups \cup Loops

Digits == [t \in {"-1", "0", "1", "2", "3", "6", "8"} |->
             CASE t = "-1" -> -1 [] t = "0" -> 0 [] t = "1" -> 1 [] t = "2" -> 2 [] t = "3" -> 3
               [] t = "6" -> 6 [] t = "8" -> 8]

OldBinary ==
  [header |-> <<0, 1, 1>>, words |-> <<[op |-> "HALT", val |-> 0, line |-> 0]>>,
   data |-> <<[val |-> 7, word_state |-> 1]>>]
=============================================================================
