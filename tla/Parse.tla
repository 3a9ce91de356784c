------------------------------- MODULE Parse --------------------------------
(***************************************************************************)
(* The parser (src/parse.c), recursive descent over the list of tokens.    *)
(* What its calls have still to do is a stack of symbols, so that one step *)
(* is one look at a token, one test of the bounds or one change of the     *)
(* tree.  The tokens are chosen as the parser advances to them, "eof" when *)
(* there are no more.  A macro ASSERT_TOKEN_IN_BOUNDS of the code is the   *)
(* symbol "in_bounds"; where the code has none there is none.              *)
(***************************************************************************)
EXTENDS Integers, Sequences, SequencesExt

CONSTANT MaxTokens  \* bound: the length of the file

ASSUME ParseAssumption == MaxTokens \in Nat

\* One token stands for every import type, one for every name, one for every string,
\* and one for all that is none of these; four punctuation marks are spelled out.
Tokens ==
  {"~ATH", "bifurcate", "import", "EXECUTE", "PRINT", ".DIE", "(", ")", "[", "]", "lbrace",
   "rbrace", "semicolon", "comma", "THIS", "NULL", "type", "name", "string", "other"}

VARIABLES
  read,    \* the tokens before cur_token
  next,    \* the token at cur_token, or "eof"
  stack,   \* what the calls under way have still to do, the next thing first
  tree,    \* the nodes not finished yet, innermost last
  status,  \* "parsing", "accepted", or how the parser ended
  is_library  \* whether parse is called for a library

vars == <<read, next, stack, tree, status, is_library>>

\* A node of the tree; a STRING_NODE keeps the kind of token it was made from.
Node(op) == [op |-> op, children |-> <<>>]

(***************************************************************************)
(* The functions of the parser, as what they do in order.  A token is      *)
(* ASSERT_TOKEN_MATCH and cur_token++; "node" and an operation make a new  *)
(* node, "end" finishes it.                                                *)
(***************************************************************************)
\* A token of this kind is made a STRING_NODE; "is_valid_var" demands a name.
variable == <<"is_valid_var", "string_node">>

\* The name is not followed by a test of the bounds, nor is a grave of the body.
loop ==
  <<"node", "LOOP", "~ATH", "in_bounds", "(", "in_bounds">> \o variable
  \o <<")", "in_bounds", "lbrace", "in_bounds", "body", "end">>

\* Mutant of bifurcate: no test of the bounds after "[".
BifurcateUnchecked ==
  <<"node", "BIFURCATE", "bifurcate", "in_bounds">> \o variable
  \o <<"in_bounds", "[">> \o variable
  \o <<"in_bounds", "comma", "in_bounds">> \o variable
  \o <<"in_bounds", "]", "in_bounds", "semicolon", "end">>

bifurcate ==
  <<"node", "BIFURCATE", "bifurcate", "in_bounds">> \o variable
  \o <<"in_bounds", "[", "in_bounds">> \o variable
  \o <<"in_bounds", "comma", "in_bounds">> \o variable
  \o <<"in_bounds", "]", "in_bounds", "semicolon", "end">>

import ==
  <<"node", "IMPORT", "import", "in_bounds", "is_valid_import", "string_node", "in_bounds">>
  \o variable \o <<"in_bounds", "semicolon", "end">>

\* Neither the single name nor the further names of a list are followed by a test.
death == <<"node", "DIE", "dying", ".DIE", "in_bounds", "(", "in_bounds", ")",
           "in_bounds", "semicolon", "end">>

dying(token) ==
  CASE token = "["    -> <<"[", "in_bounds">> \o variable \o <<"in_bounds", "more_names">>
    [] token = "THIS" -> <<"string_node", "in_bounds">>
    [] OTHER          -> variable

more_names(token) ==
  IF token = "comma" THEN <<"comma", "in_bounds">> \o variable \o <<"more_names">>
                     ELSE <<"]", "in_bounds">>

grave(token) ==
  CASE token = "~ATH"      -> loop
    [] token = "bifurcate" -> bifurcate
    [] token = "import"    -> import
    [] OTHER               -> death

\* Mutant of execute: NULL makes no node.
ExecuteNullNoNode(token) ==
  CASE token = "PRINT" -> <<"node", "PRINT", "PRINT", "in_bounds", "is_string",
                            "string_node", "in_bounds", "end", "in_bounds">>
    [] token = "NULL"  -> <<"NULL", "in_bounds">>
    [] OTHER           -> <<"grave", "in_bounds">>

\* What stands between the parentheses of EXECUTE.
execute(token) ==
  CASE token = "PRINT" -> <<"node", "PRINT", "PRINT", "in_bounds", "is_string",
                            "string_node", "in_bounds", "end", "in_bounds">>
    [] token = "NULL"  -> <<"node", "NULL", "NULL", "end", "in_bounds">>
    [] OTHER           -> <<"grave", "in_bounds">>

\* A loop from the end of its body on.
loop_end ==
  <<"rbrace", "in_bounds", "EXECUTE", "in_bounds", "(", "in_bounds", "executed", ")",
    "in_bounds", "semicolon">>

\* Mutant of body: the loop ends at the first grave, found or not.
BodyOfOne(token) == IF token = "rbrace" THEN loop_end ELSE <<"grave">> \o loop_end

body(token) == IF token = "rbrace" THEN loop_end ELSE <<"grave", "body">>

Decisions == {"grave", "body", "dying", "more_names", "executed"}

Chosen(symbol, token) ==
  CASE symbol = "grave"      -> grave(token)
    [] symbol = "body"       -> body(token)
    [] symbol = "dying"      -> dying(token)
    [] symbol = "more_names" -> more_names(token)
    [] symbol = "executed"   -> execute(token)

(***************************************************************************)
(* The steps.                                                              *)
(***************************************************************************)
Parsing  == status = "parsing"
Symbol   == Head(stack)
AtSymbol(S) == Parsing /\ stack # <<>> /\ Symbol \in S

Stop(how) == status' = how /\ UNCHANGED <<read, next, stack, tree, is_library>>

\* cur_token++, to a token or to the end.
Advance ==
  /\ read' = Append(read, next)
  /\ next' \in IF Len(read) + 1 < MaxTokens THEN Tokens \cup {"eof"} ELSE {"eof"}

AddChild(t, node) == [t EXCEPT ![Len(t)].children = Append(@, node)]

InBounds ==
  /\ AtSymbol({"in_bounds"})
  /\ \/ /\ next # "eof"
        /\ stack' = Tail(stack)
        /\ UNCHANGED <<read, next, tree, status, is_library>>
     \/ next = "eof" /\ Stop("unexpected end of file")

Choose ==
  /\ AtSymbol(Decisions) /\ next # "eof"
  /\ stack' = Chosen(Symbol, next) \o Tail(stack)
  /\ UNCHANGED <<read, next, tree, status, is_library>>

\* What the code demands of the token, and what it says when it is another.
Match ==
  /\ AtSymbol(Tokens) /\ next # "eof"
  /\ \/ /\ next = Symbol
        /\ Advance
        /\ stack' = Tail(stack)
        /\ UNCHANGED <<tree, status, is_library>>
     \/ next # Symbol /\ Stop("syntax error")

Demands == [is_valid_var |-> "name", is_valid_import |-> "type", is_string |-> "string"]

Check ==
  /\ AtSymbol(DOMAIN Demands) /\ next # "eof"
  /\ \/ /\ next = Demands[Symbol]
        /\ stack' = Tail(stack)
        /\ UNCHANGED <<read, next, tree, status, is_library>>
     \/ next # Demands[Symbol] /\ Stop("syntax error")

StringNode ==
  /\ AtSymbol({"string_node"})
  /\ Advance
  /\ tree' = AddChild(tree, Node(next))
  /\ stack' = Tail(stack)
  /\ UNCHANGED <<status, is_library>>

OpenNode ==
  /\ AtSymbol({"node"})
  /\ tree' = Append(tree, Node(stack[2]))
  /\ stack' = Tail(Tail(stack))
  /\ UNCHANGED <<read, next, status, is_library>>

CloseNode ==
  /\ AtSymbol({"end"})
  /\ tree' = AddChild(SubSeq(tree, 1, Len(tree) - 1), tree[Len(tree)])
  /\ stack' = Tail(stack)
  /\ UNCHANGED <<read, next, status, is_library>>

\* tokens->tokens[cur_token] with cur_token = tokens->length: memory that was never
\* written, whatever the test makes of it.
ReadBeyond ==
  /\ AtSymbol(Decisions \cup Tokens \cup DOMAIN Demands) /\ next = "eof"
  /\ Stop("undefined")

Root == tree[1].children

NextGrave ==
  /\ Parsing /\ stack = <<>> /\ next # "eof"
  /\ stack' = <<"grave">>
  /\ UNCHANGED <<read, next, tree, status, is_library>>

IsThisDie(node) == node.op = "DIE" /\ node.children[1].op = "THIS"

\* A file without tokens has no last grave: children[-1] of a null pointer.
Finish ==
  /\ Parsing /\ stack = <<>> /\ next = "eof"
  /\ \/ Root = <<>> /\ Stop("segv")
     \/ Root # <<>> /\ ~ IsThisDie(Last(Root)) /\ Stop("no THIS.DIE()")
     \/ /\ Root # <<>> /\ IsThisDie(Last(Root))
        /\ status' = "accepted"
        /\ tree' = IF is_library THEN <<[tree[1] EXCEPT !.children = Front(@)]>> ELSE tree
        /\ UNCHANGED <<read, next, stack, is_library>>

Init ==
  /\ read = <<>>
  /\ next \in Tokens \cup {"eof"}
  /\ stack = <<>>
  /\ tree = <<Node("ROOT")>>
  /\ status = "parsing"
  /\ is_library \in BOOLEAN

Next ==
  \/ NextGrave \/ Finish
  \/ InBounds \/ Choose \/ Match \/ Check \/ ReadBeyond
  \/ StringNode \/ OpenNode \/ CloseNode
  \/ ~ Parsing /\ UNCHANGED vars

Spec == Init /\ [][Next]_vars

(***************************************************************************)
(* Properties.                                                             *)
(***************************************************************************)
\* The file ends after the name of a loop or of an object that dies.
EndsAfterName(text) ==
  /\ text # <<>> /\ Last(text) = "name"
  /\ Len(text) > 1 => text[Len(text) - 1] \in {"semicolon", "lbrace", "(", "comma"}

\* The file ends after a grave, and a body has been opened.
EndsInBody(text) == text # <<>> /\ Last(text) = "semicolon" /\ Contains(text, "lbrace")

\* Memory beyond the tokens is read only when the file ends after the name of a loop or
\* of an object that dies, or between the graves of a loop's body; everywhere else the
\* end of the file is noticed.
ReadsBeyondOnly == status = "undefined" => EndsAfterName(read) \/ EndsInBody(read)

(***************************************************************************)
(* Why it is noticed.  Every symbol that looks at the token at cur_token   *)
(* stands behind a test of the bounds, or behind one of the few symbols    *)
(* after which there is none; s is a stack, r the tokens read, n the next. *)
(***************************************************************************)
Looking == Decisions \cup Tokens \cup DOMAIN Demands
Operations == {"LOOP", "BIFURCATE", "IMPORT", "DIE", "PRINT", "NULL"}
Symbols == Looking \cup Operations \cup {"in_bounds", "string_node", "node", "end"}

ParseTypes ==
  /\ read \in Seq(Tokens \cup {"eof"})
  /\ next \in Tokens \cup {"eof"}
  /\ stack \in Seq(Symbols)

\* A grave, or the first name of a loop or of a list's next, may come now.
AfterStart(r) == r = <<>> \/ Last(r) \in {"semicolon", "lbrace", "(", "comma"}

\* A name after which the bounds are not tested.
Unchecked(s, i) ==
  /\ i \in 1 .. Len(s) - 1
  /\ s[i] = "string_node" /\ s[i + 1] \in {")", ".DIE", "more_names"}

\* It comes after the token that makes it the name of a loop or of an object that dies.
NamesPlaced(s, r, n) ==
  \A i \in DOMAIN s : Unchecked(s, i) =>
    /\ i = 1 => n = "name"
    /\ i > 1 => s[i - 1] = "is_valid_var"
    /\ i > 2 => s[i - 2] = "in_bounds"
    /\ IF i > 3 THEN s[i - 3] \in {"(", "comma"} ELSE AfterStart(r)

\* What is not converted yet is a grave, up to here.
AfterGrave(s, r, i) ==
  \/ s[i - 1] = "grave"
  \/ s[i - 1] = "end" /\ IF i > 2 THEN s[i - 2] \in {"semicolon", "body"}
                                 ELSE r # <<>> /\ Last(r) = "semicolon"

\* The symbols that look behind no test of the bounds.
Guarded(s) ==
  \A i \in 2 .. Len(s) : s[i] \in Looking =>
    \/ s[i - 1] = "in_bounds"
    \/ Unchecked(s, i - 1)
    \/ i < 4 /\ s[1] = "node"
    \/ s[i] = "body"
    \/ s[i] = ")" /\ s[i - 1] = "executed"
    \/ s[i] = ".DIE" /\ s[i - 1] \in {"dying", "more_names"}

\* Where the decisions stand, and what stands behind them.
DecisionsPlaced(s, r) ==
  \A i \in DOMAIN s :
    /\ s[i] \in {"grave", "dying"} => AfterStart(r)
    /\ s[i] = "grave" => i = 1
    /\ s[i] = "dying" => i = 1 \/ (i = 3 /\ s[1] = "node")
    /\ s[i] \in {"dying", "more_names"} => i < Len(s) /\ s[i + 1] = ".DIE"
    /\ s[i] = "executed" =>
         /\ i < Len(s) /\ s[i + 1] = ")"
         /\ i > 1 => s[i - 1] = "in_bounds"
         /\ IF i > 2 THEN s[i - 2] = "(" ELSE AfterStart(r)

\* Where the graves of a body come, and that its bracket has been read by then.
BodiesPlaced(s, r) ==
  \A i \in DOMAIN s : s[i] = "body" =>
    /\ i < Len(s) /\ s[i + 1] = "end"
    /\ Contains(r, "lbrace") \/ \E j \in 1 .. i - 1 : s[j] = "lbrace"
    /\ \/ i = 1 /\ AfterStart(r)
       \/ i > 1 /\ AfterGrave(s, r, i)
       \/ i > 1 /\ s[i - 1] = "in_bounds" /\ IF i > 2 THEN s[i - 2] = "lbrace" ELSE AfterStart(r)

\* Whole graves are left to be read.
GravesLeft(s, r) == IF s = <<>> THEN AfterStart(r) ELSE AfterGrave(s, r, Len(s) + 1)

\* What comes next may look at its token.
HeadGuarded(s, r, n) ==
  s # <<>> =>
    /\ s[1] \in Looking => n # "eof" \/ EndsAfterName(r) \/ EndsInBody(r)
    /\ s[1] = "node" => n # "eof" /\ Len(s) > 2 /\ s[2] \in Operations
    /\ \A i \in 2 .. Len(s) : s[i] # "node"

StackFits(s, r, n) ==
  /\ NamesPlaced(s, r, n)
  /\ Guarded(s)
  /\ DecisionsPlaced(s, r)
  /\ BodiesPlaced(s, r)
  /\ GravesLeft(s, r)
  /\ HeadGuarded(s, r, n)

\* The inductive invariant.
ParseInv == ParseTypes /\ StackFits(stack, read, next) /\ ReadsBeyondOnly

=============================================================================
