------------------------------ MODULE Language -------------------------------
(***************************************************************************)
(* The grammar of the language and the text of a tree, which follow the    *)
(* tokens and the tree however deep they are nested.                       *)
(***************************************************************************)
EXTENDS Parse

\* The grammar of the language, as alternatives of sequences.
Grammar ==
  [graves   |-> {<<>>, <<"a_grave", "graves">>},
   a_grave  |-> {<<"~ATH", "(", "name", ")", "lbrace", "graves", "rbrace",
                   "EXECUTE", "(", "executed", ")", "semicolon">>,
                 <<"bifurcate", "name", "[", "name", "comma", "name", "]", "semicolon">>,
                 <<"import", "type", "name", "semicolon">>,
                 <<"dying", ".DIE", "(", ")", "semicolon">>},
   executed |-> {<<"PRINT", "string">>, <<"NULL">>, <<"a_grave">>},
   dying    |-> {<<"THIS">>, <<"name">>, <<"[", "name", "names", "]">>},
   names    |-> {<<>>, <<"comma", "name", "names">>}]

\* Where what the symbols derive may end in the text when it starts at i; 0 when the
\* text ends before it does.
RECURSIVE Ends(_, _, _)
Ends(text, symbols, i) ==
  CASE symbols = <<>>         -> {i}
    [] symbols # <<>> /\ Head(symbols) \in DOMAIN Grammar ->
         UNION {Ends(text, rule \o Tail(symbols), i) : rule \in Grammar[Head(symbols)]}
    [] symbols # <<>> /\ Head(symbols) \notin DOMAIN Grammar ->
         IF i > Len(text) THEN {0}
         ELSE IF text[i] = Head(symbols) THEN Ends(text, Tail(symbols), i + 1) ELSE {}

CanBecomeProgram(text) == 0 \in Ends(text, <<"graves">>, 1)
IsGraves(text)         == Len(text) + 1 \in Ends(text, <<"graves">>, 1)

ThisDie == <<"THIS", ".DIE", "(", ")", "semicolon">>

\* The parser accepts exactly the lists of graves that end with THIS.DIE();, and what it
\* says of another file is so: no program begins with what it calls a syntax error, and
\* a file it calls unfinished, or reads beyond, is the beginning of a program and none.
Verdict ==
  CASE status = "parsing"                -> TRUE
    [] status = "accepted"               -> IsGraves(read) /\ IsSuffix(ThisDie, read)
    [] status = "no THIS.DIE()"          -> IsGraves(read) /\ ~ IsSuffix(ThisDie, read)
    [] status = "syntax error"           -> ~ CanBecomeProgram(Append(read, next))
    [] status \in {"unexpected end of file", "undefined"} ->
         next = "eof" /\ CanBecomeProgram(read) /\ ~ IsGraves(read)
    [] status = "segv"                   -> read = <<>>

\* The tokens a node was made from, without brackets: X.DIE and [X].DIE are one node.
RECURSIVE Text(_)
Text(node) ==
  LET child == node.children
      Of(first, last) == FlattenSeq([i \in 1 .. last - first + 1 |-> Text(child[first + i - 1])])
      List(n) == FlattenSeq([i \in 1 .. n |-> IF i = 1 THEN Text(child[1])
                                                        ELSE <<"comma">> \o Text(child[i])])
  IN CASE node.op = "ROOT"      -> Of(1, Len(child))
       [] node.op = "LOOP"      ->
            <<"~ATH", "(">> \o Text(child[1]) \o <<")", "lbrace">> \o Of(2, Len(child) - 1)
            \o <<"rbrace", "EXECUTE", "(">> \o Text(Last(child)) \o <<")", "semicolon">>
       [] node.op = "BIFURCATE" ->
            <<"bifurcate">> \o Text(child[1]) \o Text(child[2]) \o <<"comma">> \o Text(child[3])
            \o <<"semicolon">>
       [] node.op = "IMPORT"    -> <<"import">> \o Of(1, 2) \o <<"semicolon">>
       [] node.op = "DIE"       -> List(Len(child)) \o <<".DIE", "(", ")", "semicolon">>
       [] node.op = "PRINT"     -> <<"PRINT">> \o Text(child[1])
       [] OTHER                 -> <<node.op>>

\* The tree of an accepted file has the children generate_il takes from it without a
\* look at their number (a loop's name first and what it executes last, two halves of a
\* bifurcation) and is the file; a library's is the file without its THIS.DIE();.
TreeReadsBack ==
  status = "accepted" =>
    Text(tree[1]) \o (IF is_library THEN ThisDie ELSE <<>>)
      = SelectSeq(read, LAMBDA token : token \notin {"[", "]"})

=============================================================================
