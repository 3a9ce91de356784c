------------------------------ MODULE Tokenize ------------------------------
(***************************************************************************)
(* The tokenizer (src/tokenize.c).  tokenize reads the file line by line   *)
(* and calls get_next_token until it finds nothing more in the line; a     *)
(* call is one step.  A file is a sequence of characters, in which one     *)
(* stands for every character the code treats alike: "X" for those of a    *)
(* word, "n" for the two letters that follow a backslash, "(" for the      *)
(* punctuation, "^" for what is not printable.  The literals of the array  *)
(* tokens are one character each: "EXECUTE" stands for those made of       *)
(* letters.                                                                *)
(***************************************************************************)
EXTENDS Integers, Sequences, SequencesExt

CONSTANTS
  MaxText,   \* bound: the length of a file
  MaxTokens  \* bound: the tokens memory has room for

ASSUME TokenizeAssumption == MaxText \in Nat /\ MaxTokens \in Nat

Space     == " "
Quote     == "\""
Backslash == "\\"
Newline   == "\n"

Characters ==
  {"EXECUTE", ".DIE", "(", "X", "n", Space, ".", "#", "^", Quote, Backslash, Newline}

VARIABLES
  text,    \* the file
  instr,   \* the place of instr in it
  eol,     \* the end of the line that was read last: a newline, or the end of the file
  lineno,
  tokens,  \* output->tokens
  status   \* "reading", "done", or how the tokenizer ended

vars == <<text, instr, eol, lineno, tokens, status>>

isspace(c)  == c \in {Space, Newline}
Token(c)    == c \in {"EXECUTE", ".DIE", "("}

\* The first place from i on whose character is in S; n when there is none before n.
FirstOf(i, n, S) ==
  CHOOSE j \in i .. n : /\ j = n \/ text[j] \in S
                       /\ \A k \in i .. j - 1 : text[k] \notin S

(***************************************************************************)
(* get_next_token.                                                         *)
(***************************************************************************)
\* What comes after the space before it.
Start == FirstOf(instr, eol, {c \in Characters : ~ isspace(c)})

\* The end of the file is for the code like a newline.
CharAt(i) == IF i < eol THEN text[i] ELSE Newline

Found(str, rest) ==
  /\ Len(tokens) < MaxTokens
  /\ tokens' = Append(tokens, [str |-> str, lineno |-> lineno])
  /\ instr' = rest
  /\ UNCHANGED <<text, eol, lineno, status>>

Stop(how) == status' = how /\ UNCHANGED <<text, instr, eol, lineno, tokens>>

Reading == status = "reading" /\ Start < eol

Literal ==
  /\ Reading /\ Token(text[Start])
  /\ Found(<<text[Start]>>, Start + 1)

\* The end of a string: the next quote, or a character that may not be in one.
StringEnd == FirstOf(Start + 1, eol, {Quote, "^"})

\* Mutant of String: a pair of backslashes is not passed over as one.
CopySingly[i \in Start .. StringEnd + 1] ==
  CASE i > StringEnd                        -> <<>>
    [] i <= StringEnd /\ text[i] # Backslash -> <<text[i]>> \o CopySingly[i + 1]
    [] i <= StringEnd /\ text[i] = Backslash ->
         (IF text[i + 1] \in {"n", Backslash} THEN <<Backslash>> ELSE <<>>) \o CopySingly[i + 1]

StringCopiedSingly ==
  /\ Reading /\ text[Start] = Quote
  /\ \/ CharAt(StringEnd) = Quote /\ Found(CopySingly[Start], StringEnd + 1)
     \/ CharAt(StringEnd) = Newline /\ Stop("unterminated")
     \/ CharAt(StringEnd) = "^" /\ Stop("malformed")

\* The string without the backslashes that begin no \n, \t or \\.  A quote ends a string
\* wherever it stands, so that a backslash is never its last character.
Copy[i \in Start .. StringEnd + 1] ==
  CASE i > StringEnd                        -> <<>>
    [] i <= StringEnd /\ text[i] # Backslash -> <<text[i]>> \o Copy[i + 1]
    [] i <= StringEnd /\ text[i] = Backslash ->
         CASE text[i + 1] = "n"       -> <<Backslash>> \o Copy[i + 1]
           [] text[i + 1] = Backslash -> <<Backslash, Backslash>> \o Copy[i + 2]
           [] OTHER                   -> Copy[i + 1]

String ==
  /\ Reading /\ text[Start] = Quote
  /\ \/ CharAt(StringEnd) = Quote /\ Found(Copy[Start], StringEnd + 1)
     \/ CharAt(StringEnd) = Newline /\ Stop("unterminated")
     \/ CharAt(StringEnd) = "^" /\ Stop("malformed")

\* What ends a word.
WordEnders == {Space, Newline, ".", ".DIE", "(", Quote, "#"}

WordEnd == FirstOf(Start, eol, WordEnders \cup {"^"})

AtWord == Reading /\ ~ Token(text[Start]) /\ text[Start] \notin {Quote, "#"}

\* Mutant of Word: after a comment the line is read from the comment again.
WordKeepsComment ==
  /\ AtWord
  /\ IF CharAt(WordEnd) = "^" THEN Stop("malformed")
     ELSE Found(SubSeq(text, Start, WordEnd - 1),
                IF CharAt(WordEnd) = "#" THEN Start ELSE WordEnd)

\* Anything else is a word, which may have no characters: a "." that is no .DIE.  The rest
\* of the line after "#" is a comment.
Word ==
  /\ AtWord
  /\ \/ CharAt(WordEnd) = "^" /\ Stop("malformed")
     \/ CharAt(WordEnd) = "#" /\ Found(SubSeq(text, Start, WordEnd - 1), eol)
     \/ CharAt(WordEnd) \notin {"^", "#"} /\ Found(SubSeq(text, Start, WordEnd - 1), WordEnd)

\* malloc or realloc fails.
NoMemory ==
  /\ Reading /\ text[Start] # "#" /\ Len(tokens) = MaxTokens
  /\ text[Start] = Quote => CharAt(StringEnd) = Quote
  /\ AtWord => CharAt(WordEnd) # "^"
  /\ Stop("exhausted")

(***************************************************************************)
(* tokenize.                                                               *)
(***************************************************************************)
\* get_next_token finds nothing more in the line.
LineDone == status = "reading" /\ (Start < eol => text[Start] = "#")

NextLine ==
  /\ LineDone /\ eol < Len(text)
  /\ instr' = eol + 1
  /\ eol' = FirstOf(eol + 1, Len(text) + 1, {Newline})
  /\ lineno' = lineno + 1
  /\ UNCHANGED <<text, tokens, status>>

EndOfFile == LineDone /\ eol >= Len(text) /\ Stop("done")

Init ==
  /\ text \in BoundedSeq(Characters, MaxText)
  /\ instr = 0 /\ eol = 0 /\ lineno = 0
  /\ tokens = <<>>
  /\ status = "reading"

Next == Literal \/ String \/ Word \/ NoMemory \/ NextLine \/ EndOfFile

Spec == Init /\ [][Next]_vars

(***************************************************************************)
(* Properties.                                                             *)
(***************************************************************************)
\* A scanner that reads the file once, a character at a time: what it has found, the word
\* or string it is in, and how it must stop.  Where a word may begin it takes a literal
\* of letters for a token, as get_next_token does.
Scanner == [found |-> <<>>, mode |-> "code", current |-> <<>>, lineno |-> 1]

Emit(r, str) ==
  IF str = <<>> THEN r ELSE [r EXCEPT !.found = Append(@, [str |-> str, lineno |-> r.lineno])]

\* The word under way ends, and the scanner goes on in a mode.
WordOver(r, mode) == [Emit(r, r.current) EXCEPT !.current = <<>>, !.mode = mode]

Take(r, str, mode) == [r EXCEPT !.current = @ \o str, !.mode = mode]

ScanCode(r, c) ==
  CASE c = Space                  -> WordOver(r, "code")
    [] c = Newline              -> [WordOver(r, "code") EXCEPT !.lineno = @ + 1]
    [] c = "#"                  -> WordOver(r, "comment")
    [] c = Quote                -> Take(WordOver(r, "string"), <<Quote>>, "string")
    [] c \in {"(", ".DIE"}      -> Emit(WordOver(r, "code"), <<c>>)
    [] c = "EXECUTE" /\ r.current = <<>> -> Emit(r, <<c>>)
    [] c = "."                  -> WordOver(r, "exhausted")
    [] c = "^"                  -> [r EXCEPT !.mode = "malformed"]
    [] OTHER                    -> Take(r, <<c>>, "code")

ScanString(r, c) ==
  CASE c = Quote   -> WordOver(Take(r, <<Quote>>, "string"), "code")
    [] c = Newline -> [r EXCEPT !.mode = "unterminated"]
    [] c = "^"     -> [r EXCEPT !.mode = "malformed"]
    [] c = Backslash /\ r.mode = "string"          -> Take(r, <<>>, "escape")
    [] c \in {"n", Backslash} /\ r.mode = "escape" -> Take(r, <<Backslash, c>>, "string")
    [] OTHER       -> Take(r, <<c>>, "string")

Scan(r, c) ==
  CASE r.mode = "code"                  -> ScanCode(r, c)
    [] r.mode \in {"string", "escape"}  -> ScanString(r, c)
    [] r.mode = "comment" /\ c = Newline -> [r EXCEPT !.mode = "code", !.lineno = @ + 1]
    [] OTHER                            -> r

\* The scanner after so many characters.
Scans[i \in 0 .. Len(text)] == IF i = 0 THEN Scanner ELSE Scan(Scans[i - 1], text[i])

AtEnd(last) ==
  CASE last.mode \in {"code", "comment"}  -> WordOver(last, "done")
    [] last.mode \in {"string", "escape"} -> [last EXCEPT !.mode = "unterminated"]
    [] OTHER                              -> last

Scanned == AtEnd(Scans[Len(text)])

\* The scanner of the language: README.md lets a name be any word of capital letters,
\* digits and underscores, so that one may begin with a literal of letters, and such a
\* literal is a token only where it is the whole word.  This scanner stops, in the mode
\* "name", at a word that begins with the literal and goes on.
ScanName(r, c) ==
  CASE r.mode = "code" /\ r.current = <<>> /\ c = "EXECUTE" -> Take(r, <<c>>, "code")
    [] r.mode = "code" /\ r.current = <<"EXECUTE">> /\ c \notin WordEnders
                                                            -> [r EXCEPT !.mode = "name"]
    [] OTHER                                                -> Scan(r, c)

NameScans[i \in 0 .. Len(text)] ==
  IF i = 0 THEN Scanner ELSE ScanName(NameScans[i - 1], text[i])

Named == AtEnd(NameScans[Len(text)])

\* Line by line, with its look ahead for the end of a string, the tokenizer finds the
\* tokens that reading the file once finds, with their lines, and refuses the same files.
\* There are two exceptions.  The tokenizer cuts a name that begins with a literal of
\* letters in two: only what stands before the first such name is compared.  And when it
\* comes to a "." that is no .DIE it finds empty tokens until they fill the memory; of
\* the tokens that memory has no room for it finds the first.
ScansOnce ==
  status # "reading" =>
    \/ status = Named.mode /\ tokens = Named.found
    \/ Named.mode = "name" /\ IsPrefix(Named.found, tokens)
    \/ /\ status = "exhausted" /\ Len(tokens) = MaxTokens
       /\ \/ IsPrefix(tokens, Named.found)
          \/ Named.mode = "exhausted" /\ IsPrefix(Named.found, tokens)

\* In a string the only quotes are the first and the last character, and of the backslashes
\* in a row before another character all are paired, but the last before an n or a t.
Escaped(str) ==
  LET Escapes(i, j) == /\ \A m \in i .. j : str[m] = Backslash
                       /\ str[i - 1] # Backslash /\ str[j + 1] # Backslash
  IN str # <<>> /\ Head(str) = Quote =>
       /\ Len(str) > 1 /\ \A i \in DOMAIN str : str[i] = Quote <=> i \in {1, Len(str)}
       /\ \A i, j \in 2 .. Len(str) - 1 :
            i <= j /\ Escapes(i, j) => (j - i + 1) % 2 = 0 \/ str[j + 1] = "n"

\* The assembler, which reads every string again, finds only the escapes \n, \t and \\ in
\* it, and no quote before its end.
StringsEscaped == \A k \in DOMAIN tokens : Escaped(tokens[k].str)

(***************************************************************************)
(* Why it is so: between two calls of get_next_token the scanner, when it  *)
(* comes to instr, has found the same tokens.                              *)
(***************************************************************************)
Strings == Seq(Characters)
Tok     == [str : Strings, lineno : Nat]

TokenizeTypes ==
  /\ text \in Strings
  /\ eol \in 0 .. Len(text) + 1 /\ instr \in 0 .. eol
  /\ lineno \in Nat
  /\ tokens \in Seq(Tok) /\ Len(tokens) <= MaxTokens
  /\ status \in {"reading", "done", "unterminated", "malformed", "exhausted"}

\* instr and eol are a line of the file, or nothing has been read.
InLine ==
  IF eol = 0 THEN lineno = 0 /\ tokens = <<>>
  ELSE /\ instr > 0
       /\ \A i \in instr .. eol - 1 : text[i] # Newline
       /\ eol <= Len(text) => text[eol] = Newline

\* The tokens found, and the word under way as if it were over.
FoundBy(r) == Emit(r, r.current).found

\* A word that is under way ends at instr, and there is a "." at instr when empty tokens
\* have been found.
ScannerAgrees(r) ==
  /\ r.lineno = lineno
  /\ r.mode = "code" \/ (r.mode = "comment" /\ r.current = <<>> /\ instr = eol)
  /\ r.current # <<>> => CharAt(instr) \in WordEnders
  /\ IsPrefix(FoundBy(r), tokens) /\ (tokens # FoundBy(r) => CharAt(instr) = ".")

\* When the tokenizer has stopped it has found what the scanner that takes literals where
\* the tokenizer does finds.
EndAgrees ==
  status # "reading" =>
    \/ status = Scanned.mode /\ tokens = Scanned.found
    \/ /\ status = "exhausted" /\ Len(tokens) = MaxTokens
       /\ \/ IsPrefix(tokens, Scanned.found)
          \/ Scanned.mode = "exhausted" /\ IsPrefix(Scanned.found, tokens)

\* The inductive invariant.
TokenizeInv ==
  /\ TokenizeTypes /\ InLine
  /\ status = "reading" /\ eol > 0 => ScannerAgrees(Scans[instr - 1])
  /\ EndAgrees /\ StringsEscaped

=============================================================================
