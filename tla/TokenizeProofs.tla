--------------------------- MODULE TokenizeProofs ---------------------------
(***************************************************************************)
(* The tokenizer, which works line by line and looks ahead for the end of  *)
(* a string or a word, finds what a scanner finds that reads the file once *)
(* and a character at a time. The invariant says where the scanner is when *)
(* it comes to the place the tokenizer has come to; every call of          *)
(* get_next_token takes it to the next such place.                         *)
(***************************************************************************)
EXTENDS Tokenize, SequenceTheorems, WellFoundedInduction, TLAPS

(***************************************************************************)
(* The scanner, a step at a time.                                          *)
(***************************************************************************)
\* The characters are different.
LEMMA Chars ==
  /\ Quote # Backslash /\ Quote # Newline /\ Backslash # Newline
  /\ Space # Quote /\ Space # Backslash /\ Space # Newline
  /\ \A c \in {"EXECUTE", ".DIE", "(", "X", "n", ".", "#", "^"} :
       c # Space /\ c # Quote /\ c # Backslash /\ c # Newline
BY DEF Space, Quote, Backslash, Newline

Modes == {"code", "comment", "string", "escape", "exhausted", "malformed", "unterminated", "done"}

\* What the scanner may be.
Scanners == [found : Seq(Tok), mode : Modes, current : Strings, lineno : Nat]

\* The scanner r has found f, ...
Is(r, f, m, cur, l) ==
  r \in Scanners /\ r.found = f /\ r.mode = m /\ r.current = cur /\ r.lineno = l

\* ... and f with the token under way, when there is one.
With(f, str, l) == IF str = <<>> THEN f ELSE Append(f, [str |-> str, lineno |-> l])

\* Tokens with one more.
LEMMA WithType ==
  ASSUME NEW f \in Seq(Tok), NEW str \in Strings, NEW l \in Nat
  PROVE  With(f, str, l) \in Seq(Tok)
<1>1. [str |-> str, lineno |-> l] \in Tok
  BY DEF Tok
<1> QED BY <1>1, AppendProperties DEF With

\* Sequences of one and two characters.
LEMMA SmallSeqs ==
  /\ <<>> \in Strings /\ <<Quote>> \in Strings /\ <<Backslash>> \in Strings /\ <<Backslash>> # <<>>
  /\ \A c \in Characters : /\ <<c>> \in Strings /\ <<Backslash, c>> \in Strings
                           /\ <<>> \o <<c>> = <<c>>
                           /\ <<Backslash>> \o <<c>> = <<Backslash, c>>
  /\ <<>> \o <<Quote>> = <<Quote>>
<1>1. Quote \in Characters /\ Backslash \in Characters
  BY DEF Characters
<1>2. <<Backslash>> # <<>>
  OBVIOUS
<1>3. ASSUME NEW c \in Characters PROVE <<Backslash>> \o <<c>> = <<Backslash, c>>
  <2> DEFINE s == <<Backslash>> \o <<c>>
  <2>1. s \in Seq(Characters) /\ Len(s) = 2 /\ s[1] = Backslash /\ s[2] = c
    BY <1>1, ConcatProperties
  <2>2. <<Backslash, c>> \in Seq(Characters) /\ Len(<<Backslash, c>>) = 2
    BY <1>1
  <2> HIDE DEF s
  <2>3. \A i \in 1 .. Len(s) : s[i] = <<Backslash, c>>[i]
    BY <2>1
  <2>4. s = <<Backslash, c>>
    BY <2>1, <2>2, <2>3, SeqEqual
  <2> QED BY <2>4 DEF s
<1>4. \A c \in Characters : <<>> \o <<c>> = <<c>>
  OBVIOUS
<1> QED BY <1>1, <1>2, <1>3, <1>4 DEF Strings

\* A token is found, ...
LEMMA EmitIs ==
  ASSUME NEW r, NEW f, NEW m, NEW cur, NEW l, Is(r, f, m, cur, l), NEW str \in Strings
  PROVE  Is(Emit(r, str), With(f, str, l), m, cur, l)
<1>1. r \in Scanners /\ f \in Seq(Tok) /\ l \in Nat
  BY DEF Is, Scanners
<1>2. With(f, str, l) \in Seq(Tok)
  BY <1>1, WithType
<1>3. CASE str = <<>>
  BY <1>3 DEF Is, Emit, With
<1>4. CASE str # <<>>
  <2>1. Emit(r, str) = [r EXCEPT !.found = With(f, str, l)]
    BY <1>4 DEF Emit, With, Is
  <2> QED BY <2>1, <1>1, <1>2 DEF Is, Scanners
<1> QED BY <1>3, <1>4

\* ... the word under way is found, ...
LEMMA OverIs ==
  ASSUME NEW r, NEW f, NEW m, NEW cur, NEW l, Is(r, f, m, cur, l), NEW m2 \in Modes
  PROVE  Is(WordOver(r, m2), With(f, cur, l), m2, <<>>, l)
<1>1. r.current = cur /\ cur \in Strings
  BY DEF Is, Scanners
<1>2. Is(Emit(r, cur), With(f, cur, l), m, cur, l)
  BY <1>1, EmitIs
<1>3. WordOver(r, m2) = [Emit(r, cur) EXCEPT !.current = <<>>, !.mode = m2]
  BY <1>1 DEF WordOver
<1>4. <<>> \in Strings
  BY DEF Strings
<1> QED BY <1>2, <1>3, <1>4 DEF Is, Scanners

\* ... or it goes on.
LEMMA TakeIs ==
  ASSUME NEW r, NEW f, NEW m, NEW cur, NEW l, Is(r, f, m, cur, l), NEW m2 \in Modes,
         NEW str \in Strings
  PROVE  Is(Take(r, str, m2), f, m2, cur \o str, l)
<1>1. cur \o str \in Strings
  BY DEF Is, Scanners, Strings
<1> QED BY <1>1 DEF Is, Scanners, Take

\* What has been found when the word under way is over.
LEMMA FoundByIs ==
  ASSUME NEW r, NEW f, NEW m, NEW cur, NEW l, Is(r, f, m, cur, l)
  PROVE  FoundBy(r) = With(f, cur, l)
BY EmitIs DEF FoundBy, Is, Scanners

\* What the scanner does in code, ...
LEMMA InCode ==
  ASSUME NEW r, NEW f, NEW cur, NEW l, Is(r, f, "code", cur, l), NEW c \in Characters
  PROVE  /\ c = Space => Is(Scan(r, c), With(f, cur, l), "code", <<>>, l)
         /\ c = Newline => Is(Scan(r, c), With(f, cur, l), "code", <<>>, l + 1)
         /\ c = "#" => Is(Scan(r, c), With(f, cur, l), "comment", <<>>, l)
         /\ c = Quote => Is(Scan(r, c), With(f, cur, l), "string", <<Quote>>, l)
         /\ c \in {"(", ".DIE"} =>
              Is(Scan(r, c), With(With(f, cur, l), <<c>>, l), "code", <<>>, l)
         /\ c = "EXECUTE" /\ cur = <<>> => Is(Scan(r, c), With(f, <<c>>, l), "code", <<>>, l)
         /\ c = "." => Is(Scan(r, c), With(f, cur, l), "exhausted", <<>>, l)
         /\ c = "^" => Is(Scan(r, c), f, "malformed", cur, l)
         /\ c \in {"X", "n", Backslash} \/ (c = "EXECUTE" /\ cur # <<>>) =>
              Is(Scan(r, c), f, "code", cur \o <<c>>, l)
<1>1. Scan(r, c) = ScanCode(r, c) /\ r.current = cur
  BY DEF Scan, Is
<1>2. \A m \in Modes : Is(WordOver(r, m), With(f, cur, l), m, <<>>, l)
  BY OverIs
<1>3. <<c>> \in Strings /\ <<Quote>> \in Strings /\ <<>> \o <<Quote>> = <<Quote>>
  BY SmallSeqs
<1>11. /\ c = Space => Scan(r, c) = WordOver(r, "code")
       /\ c = Newline => Scan(r, c) = [WordOver(r, "code") EXCEPT !.lineno = WordOver(r, "code").lineno + 1]
       /\ c = "#" => Scan(r, c) = WordOver(r, "comment")
       /\ c = Quote => Scan(r, c) = Take(WordOver(r, "string"), <<Quote>>, "string")
       /\ c \in {"(", ".DIE"} => Scan(r, c) = Emit(WordOver(r, "code"), <<c>>)
       /\ c = "EXECUTE" /\ cur = <<>> => Scan(r, c) = Emit(r, <<c>>)
       /\ c = "." => Scan(r, c) = WordOver(r, "exhausted")
       /\ c = "^" => Scan(r, c) = [r EXCEPT !.mode = "malformed"]
       /\ c \in {"X", "n", Backslash} \/ (c = "EXECUTE" /\ cur # <<>>) =>
            Scan(r, c) = Take(r, <<c>>, "code")
  BY <1>1, Chars DEF ScanCode
<1>m. /\ "code" \in Modes /\ "comment" \in Modes /\ "string" \in Modes /\ "exhausted" \in Modes
      /\ "malformed" \in Modes
  BY DEF Modes
<1>4. c = Newline => Is(Scan(r, c), With(f, cur, l), "code", <<>>, l + 1)
  <2> DEFINE o == WordOver(r, "code")
  <2>1. Is(o, With(f, cur, l), "code", <<>>, l)
    BY <1>2, <1>m
  <2>2. c = Newline => Scan(r, c) = [o EXCEPT !.lineno = o.lineno + 1]
    BY <1>11
  <2> HIDE DEF o
  <2> QED BY <2>1, <2>2 DEF Is, Scanners
<1>5. c = Quote => Is(Scan(r, c), With(f, cur, l), "string", <<Quote>>, l)
  <2>1. Is(WordOver(r, "string"), With(f, cur, l), "string", <<>>, l)
    BY <1>2, <1>m
  <2>2. Is(Take(WordOver(r, "string"), <<Quote>>, "string"), With(f, cur, l), "string", <<>> \o <<Quote>>, l)
    BY <2>1, <1>3, <1>m, TakeIs
  <2> QED BY <2>2, <1>3, <1>11
<1>6. c \in {"(", ".DIE"} => Is(Scan(r, c), With(With(f, cur, l), <<c>>, l), "code", <<>>, l)
  <2>1. Is(WordOver(r, "code"), With(f, cur, l), "code", <<>>, l)
    BY <1>2, <1>m
  <2>2. Is(Emit(WordOver(r, "code"), <<c>>), With(With(f, cur, l), <<c>>, l), "code", <<>>, l)
    BY <2>1, <1>3, EmitIs
  <2> QED BY <2>2, <1>11
<1>7. c = "EXECUTE" /\ cur = <<>> => Is(Scan(r, c), With(f, <<c>>, l), "code", <<>>, l)
  <2>2. Is(Emit(r, <<c>>), With(f, <<c>>, l), "code", cur, l)
    BY <1>3, EmitIs
  <2> QED BY <2>2, <1>11
<1>8. c = "^" => Is(Scan(r, c), f, "malformed", cur, l)
  <2>1. c = "^" => Scan(r, c) = [r EXCEPT !.mode = "malformed"]
    BY <1>11
  <2> QED BY <2>1, <1>m DEF Is, Scanners
<1>9. c \in {"X", "n", Backslash} \/ (c = "EXECUTE" /\ cur # <<>>) =>
              Is(Scan(r, c), f, "code", cur \o <<c>>, l)
  <2>1. Is(Take(r, <<c>>, "code"), f, "code", cur \o <<c>>, l)
    BY <1>3, <1>m, TakeIs
  <2> QED BY <2>1, <1>11
<1> QED BY <1>2, <1>11, <1>m, <1>4, <1>5, <1>6, <1>7, <1>8, <1>9

\* ... in a string, ...
LEMMA InString ==
  ASSUME NEW r, NEW f, NEW m \in {"string", "escape"}, NEW cur, NEW l, Is(r, f, m, cur, l),
         NEW c \in Characters
  PROVE  /\ c = Quote => Is(Scan(r, c), With(f, cur \o <<Quote>>, l), "code", <<>>, l)
         /\ c = Newline => Is(Scan(r, c), f, "unterminated", cur, l)
         /\ c = "^" => Is(Scan(r, c), f, "malformed", cur, l)
         /\ c = Backslash /\ m = "string" => Is(Scan(r, c), f, "escape", cur, l)
         /\ c \in {"n", Backslash} /\ m = "escape" =>
              Is(Scan(r, c), f, "string", cur \o <<Backslash, c>>, l)
         /\ c \notin {Quote, Newline, "^", Backslash} /\ (m = "escape" => c # "n") =>
              Is(Scan(r, c), f, "string", cur \o <<c>>, l)
<1>1. Scan(r, c) = ScanString(r, c) /\ r.mode = m
  BY DEF Scan, Is
<1>2. /\ <<c>> \in Strings /\ <<Quote>> \in Strings /\ <<>> \in Strings /\ <<Backslash>> \in Strings
      /\ <<Backslash, c>> \in Strings /\ <<Backslash>> \o <<c>> = <<Backslash, c>>
      /\ <<>> \o <<c>> = <<c>> /\ <<Backslash>> # <<>>
  BY SmallSeqs
<1>3. cur \in Strings /\ cur \o <<>> = cur
  <2>1. cur \in Strings
    BY DEF Is, Scanners
  <2> QED BY <2>1, ConcatEmptySeq DEF Strings
<1>m. /\ "code" \in Modes /\ "escape" \in Modes /\ "string" \in Modes
      /\ "unterminated" \in Modes /\ "malformed" \in Modes
  BY DEF Modes
<1>11. /\ c = Quote => Scan(r, c) = WordOver(Take(r, <<Quote>>, "string"), "code")
       /\ c = Newline => Scan(r, c) = [r EXCEPT !.mode = "unterminated"]
       /\ c = "^" => Scan(r, c) = [r EXCEPT !.mode = "malformed"]
       /\ c = Backslash /\ m = "string" => Scan(r, c) = Take(r, <<>>, "escape")
       /\ c \in {"n", Backslash} /\ m = "escape" => Scan(r, c) = Take(r, <<Backslash, c>>, "string")
       /\ c \notin {Quote, Newline, "^", Backslash} /\ (m = "escape" => c # "n") =>
            Scan(r, c) = Take(r, <<c>>, "string")
  BY <1>1, Chars DEF ScanString
<1>4. c = Quote => Is(Scan(r, c), With(f, cur \o <<Quote>>, l), "code", <<>>, l)
  <2>1. Is(Take(r, <<Quote>>, "string"), f, "string", cur \o <<Quote>>, l)
    BY <1>2, <1>m, TakeIs
  <2>2. Is(WordOver(Take(r, <<Quote>>, "string"), "code"), With(f, cur \o <<Quote>>, l), "code", <<>>, l)
    BY <2>1, <1>m, OverIs
  <2> QED BY <2>2, <1>11
<1>5. c = Newline => Is(Scan(r, c), f, "unterminated", cur, l)
  <2>1. c = Newline => Scan(r, c) = [r EXCEPT !.mode = "unterminated"]
    BY <1>11
  <2> QED BY <2>1, <1>m DEF Is, Scanners
<1>6. c = "^" => Is(Scan(r, c), f, "malformed", cur, l)
  <2>1. c = "^" => Scan(r, c) = [r EXCEPT !.mode = "malformed"]
    BY <1>11
  <2> QED BY <2>1, <1>m DEF Is, Scanners
<1>7. c = Backslash /\ m = "string" => Is(Scan(r, c), f, "escape", cur, l)
  <2>1. Is(Take(r, <<>>, "escape"), f, "escape", cur \o <<>>, l)
    BY <1>m, <1>2, TakeIs
  <2> QED BY <2>1, <1>3, <1>11
<1>8. c \in {"n", Backslash} /\ m = "escape" => Is(Scan(r, c), f, "string", cur \o <<Backslash, c>>, l)
  <2>1. Is(Take(r, <<Backslash, c>>, "string"), f, "string", cur \o <<Backslash, c>>, l)
    BY <1>m, <1>2, TakeIs
  <2> QED BY <2>1, <1>11
<1>9. c \notin {Quote, Newline, "^", Backslash} /\ (m = "escape" => c # "n") =>
              Is(Scan(r, c), f, "string", cur \o <<c>>, l)
  <2>1. Is(Take(r, <<c>>, "string"), f, "string", cur \o <<c>>, l)
    BY <1>m, <1>2, TakeIs
  <2> QED BY <2>1, <1>11
<1> QED BY <1>4, <1>5, <1>6, <1>7, <1>8, <1>9

\* ... and in a comment.
LEMMA InComment ==
  ASSUME NEW r, NEW f, NEW cur, NEW l, Is(r, f, "comment", cur, l), NEW c
  PROVE  /\ c = Newline => Is(Scan(r, c), f, "code", cur, l + 1)
         /\ c # Newline => Is(Scan(r, c), f, "comment", cur, l)
<1>m. "code" \in Modes
  BY DEF Modes
<1>1. CASE c = Newline
  <2>1. Scan(r, c) = [r EXCEPT !.mode = "code", !.lineno = r.lineno + 1]
    BY <1>1 DEF Scan, Is
  <2> DEFINE s == [r EXCEPT !.mode = "code"]
  <2>2. Is(s, f, "code", cur, l)
    BY <1>m DEF Is, Scanners
  <2>3. Scan(r, c) = [s EXCEPT !.lineno = s.lineno + 1]
    BY <2>1 DEF Is, Scanners
  <2> HIDE DEF s
  <2>4. Is(Scan(r, c), f, "code", cur, l + 1)
    BY <2>2, <2>3 DEF Is, Scanners
  <2> QED BY <1>1, <2>4
<1>2. CASE c # Newline
  BY <1>2 DEF Scan, Is
<1> QED BY <1>1, <1>2

\* The modes in which it stops.
Ends == {"exhausted", "malformed", "unterminated"}

\* ... in which it stays.
LEMMA Ended ==
  ASSUME NEW r, r.mode \in Ends, NEW c
  PROVE  Scan(r, c) = r
BY DEF Scan, Ends

(***************************************************************************)
(* Induction, and the recursive functions.                                 *)
(***************************************************************************)
\* Induction over the natural numbers, for a set.
LEMMA SetInduction ==
  ASSUME NEW S, 0 \in S, \A n \in Nat : n \in S => n + 1 \in S
  PROVE  \A n \in Nat : n \in S
<1> DEFINE T == {n \in Nat : n \notin S}
<1> SUFFICES ASSUME T # {} PROVE FALSE
  OBVIOUS
<1>1. IsWellFoundedOn(OpToRel(<, Nat), Nat)
  BY NatLessThanWellFounded
<1>2. PICK x \in T : \A y \in T : ~ (<<y, x>> \in OpToRel(<, Nat))
  BY <1>1, WFMin
<1>3. x \in Nat /\ x # 0
  OBVIOUS
<1>4. x - 1 \in Nat /\ x - 1 < x
  BY <1>3
<1>5. <<x - 1, x>> \in OpToRel(<, Nat)
  BY <1>3, <1>4 DEF OpToRel
<1>6. x - 1 \in S
  BY <1>2, <1>5, <1>4
<1> QED BY <1>3, <1>4, <1>6

\* From one bound of an interval to the other.
LEMMA Upwards ==
  ASSUME NEW m \in Int, NEW n \in Int, NEW S,
         m \in S, \A i \in m .. n - 1 : i \in S => i + 1 \in S
  PROVE  \A i \in m .. n : i \in S
<1> DEFINE T == {k \in Nat : m + k <= n => m + k \in S}
<1>1. 0 \in T
  OBVIOUS
<1>2. \A k \in Nat : k \in T => k + 1 \in T
  <2> SUFFICES ASSUME NEW k \in Nat, k \in T, m + (k + 1) <= n PROVE m + (k + 1) \in S
    OBVIOUS
  <2>1. m + k \in m .. n - 1 /\ m + k \in S
    OBVIOUS
  <2> QED BY <2>1
<1>3. \A k \in Nat : k \in T
  <2> HIDE DEF T
  <2> QED BY <1>1, <1>2, SetInduction
<1> SUFFICES ASSUME NEW i \in m .. n PROVE i \in S
  OBVIOUS
<1>4. i - m \in Nat
  OBVIOUS
<1>5. i - m \in T
  BY <1>3, <1>4
<1> QED BY <1>5

\* ... and back.
LEMMA Downwards ==
  ASSUME NEW m \in Int, NEW n \in Int, NEW S,
         n \in S, \A i \in m .. n - 1 : i + 1 \in S => i \in S
  PROVE  \A i \in m .. n : i \in S
<1> DEFINE T == {k \in Nat : m <= n - k => n - k \in S}
<1>1. 0 \in T
  OBVIOUS
<1>2. \A k \in Nat : k \in T => k + 1 \in T
  <2> SUFFICES ASSUME NEW k \in Nat, k \in T, m <= n - (k + 1) PROVE n - (k + 1) \in S
    OBVIOUS
  <2>1. n - (k + 1) \in m .. n - 1 /\ n - (k + 1) + 1 \in S
    OBVIOUS
  <2> QED BY <2>1
<1>3. \A k \in Nat : k \in T
  <2> HIDE DEF T
  <2> QED BY <1>1, <1>2, SetInduction
<1> SUFFICES ASSUME NEW i \in m .. n PROVE i \in S
  OBVIOUS
<1>4. n - i \in Nat
  OBVIOUS
<1>5. n - i \in T
  BY <1>3, <1>4
<1> QED BY <1>5

\* FirstOf is the first place.
LEMMA FirstOfIs ==
  ASSUME NEW i \in Int, NEW n \in Int, i <= n, NEW C
  PROVE  /\ FirstOf(i, n, C) \in i .. n
         /\ FirstOf(i, n, C) = n \/ text[FirstOf(i, n, C)] \in C
         /\ \A k \in i .. FirstOf(i, n, C) - 1 : text[k] \notin C
<1> DEFINE First(j) == /\ j = n \/ text[j] \in C
                       /\ \A k \in i .. j - 1 : text[k] \notin C
           S == {m \in i .. n : (\E j \in i .. m : First(j)) \/ (\A k \in i .. m - 1 : text[k] \notin C)}
<1>1. i \in S
  OBVIOUS
<1>2. \A m \in i .. n - 1 : m \in S => m + 1 \in S
  <2> SUFFICES ASSUME NEW m \in i .. n - 1, m \in S PROVE m + 1 \in S
    OBVIOUS
  <2>1. CASE \E j \in i .. m : First(j)
    BY <2>1
  <2>2. CASE \A k \in i .. m - 1 : text[k] \notin C
    <3>1. CASE text[m] \in C
      <4>1. First(m)
        BY <2>2, <3>1
      <4> QED BY <4>1
    <3>2. CASE text[m] \notin C
      <4>1. \A k \in i .. m : text[k] \notin C
        BY <2>2, <3>2
      <4> QED BY <4>1
    <3> QED BY <3>1, <3>2
  <2> QED BY <2>1, <2>2
<1>3. n \in S
  <2> HIDE DEF S
  <2>1. \A k \in i .. n : k \in S
    BY <1>1, <1>2, Upwards
  <2> QED BY <2>1
<1>4. \E j \in i .. n : First(j)
  BY <1>3
<1> QED BY <1>4 DEF FirstOf

\* The recursive function Scans exists: it is its definition.
LEMMA ScansDef ==
  ASSUME text \in Strings
  PROVE  Scans = [i \in 0 .. Len(text) |-> IF i = 0 THEN Scanner ELSE Scan(Scans[i - 1], text[i])]
<1> DEFINE L == Len(text)
           Def(f, n) == f = [i \in 0 .. n |-> IF i = 0 THEN Scanner ELSE Scan(f[i - 1], text[i])]
           S == {n \in 0 .. L : \E f : Def(f, n)}
<1>1. L \in Nat
  BY DEF Strings
<1>2. 0 \in S
  <2>1. Def([i \in 0 .. 0 |-> Scanner], 0)
    OBVIOUS
  <2> HIDE DEF Def
  <2> QED BY <2>1, <1>1
<1>3. \A n \in 0 .. L - 1 : n \in S => n + 1 \in S
  <2> SUFFICES ASSUME NEW n \in 0 .. L - 1, n \in S PROVE n + 1 \in S
    OBVIOUS
  <2>1. PICK f : Def(f, n)
    OBVIOUS
  <2> DEFINE g == [i \in 0 .. n + 1 |-> IF i <= n THEN f[i] ELSE Scan(f[n], text[n + 1])]
  <2>2. Def(g, n + 1)
    <3>1. ASSUME NEW i \in 0 .. n + 1
          PROVE  g[i] = IF i = 0 THEN Scanner ELSE Scan(g[i - 1], text[i])
      <4>1. CASE i = 0
        BY <2>1, <4>1, <1>1
      <4>2. CASE i \in 1 .. n
        <5>1. g[i] = f[i] /\ g[i - 1] = f[i - 1]
          BY <4>2, <1>1
        <5>2. f[i] = Scan(f[i - 1], text[i])
          BY <2>1, <4>2, <1>1
        <5> QED BY <5>1, <5>2, <4>2
      <4>3. CASE i = n + 1
        <5>1. g[i] = Scan(f[n], text[n + 1]) /\ g[i - 1] = f[n]
          BY <4>3, <1>1
        <5> QED BY <5>1, <4>3, <1>1
      <4> QED BY <4>1, <4>2, <4>3
    <3>2. g = [i \in 0 .. n + 1 |-> g[i]]
      OBVIOUS
    <3> HIDE DEF g
    <3> QED BY <3>1, <3>2
  <2> HIDE DEF Def, g
  <2> QED BY <2>2, <1>1
<1>4. L \in S
  <2> HIDE DEF S, L
  <2>1. \A n \in 0 .. L : n \in S
    BY <1>1, <1>2, <1>3, Upwards
  <2> QED BY <2>1, <1>1
<1>5. \E f : f = [i \in 0 .. L |-> IF i = 0 THEN Scanner ELSE Scan(f[i - 1], text[i])]
  BY <1>4
<1> QED BY <1>5 DEF Scans

\* So does NameScans.
LEMMA NameScansDef ==
  ASSUME text \in Strings
  PROVE  NameScans = [i \in 0 .. Len(text) |-> IF i = 0 THEN Scanner ELSE ScanName(NameScans[i - 1], text[i])]
<1> DEFINE L == Len(text)
           Def(f, n) == f = [i \in 0 .. n |-> IF i = 0 THEN Scanner ELSE ScanName(f[i - 1], text[i])]
           S == {n \in 0 .. L : \E f : Def(f, n)}
<1>1. L \in Nat
  BY DEF Strings
<1>2. 0 \in S
  <2>1. Def([i \in 0 .. 0 |-> Scanner], 0)
    OBVIOUS
  <2> HIDE DEF Def
  <2> QED BY <2>1, <1>1
<1>3. \A n \in 0 .. L - 1 : n \in S => n + 1 \in S
  <2> SUFFICES ASSUME NEW n \in 0 .. L - 1, n \in S PROVE n + 1 \in S
    OBVIOUS
  <2>1. PICK f : Def(f, n)
    OBVIOUS
  <2> DEFINE g == [i \in 0 .. n + 1 |-> IF i <= n THEN f[i] ELSE ScanName(f[n], text[n + 1])]
  <2>2. Def(g, n + 1)
    <3>1. ASSUME NEW i \in 0 .. n + 1
          PROVE  g[i] = IF i = 0 THEN Scanner ELSE ScanName(g[i - 1], text[i])
      <4>1. CASE i = 0
        BY <2>1, <4>1, <1>1
      <4>2. CASE i \in 1 .. n
        <5>1. g[i] = f[i] /\ g[i - 1] = f[i - 1]
          BY <4>2, <1>1
        <5>2. f[i] = ScanName(f[i - 1], text[i])
          BY <2>1, <4>2, <1>1
        <5> QED BY <5>1, <5>2, <4>2
      <4>3. CASE i = n + 1
        <5>1. g[i] = ScanName(f[n], text[n + 1]) /\ g[i - 1] = f[n]
          BY <4>3, <1>1
        <5> QED BY <5>1, <4>3, <1>1
      <4> QED BY <4>1, <4>2, <4>3
    <3>2. g = [i \in 0 .. n + 1 |-> g[i]]
      OBVIOUS
    <3> HIDE DEF g
    <3> QED BY <3>1, <3>2
  <2> HIDE DEF Def, g
  <2> QED BY <2>2, <1>1
<1>4. L \in S
  <2> HIDE DEF S, L
  <2>1. \A n \in 0 .. L : n \in S
    BY <1>1, <1>2, <1>3, Upwards
  <2> QED BY <2>1, <1>1
<1>5. \E f : f = [i \in 0 .. L |-> IF i = 0 THEN Scanner ELSE ScanName(f[i - 1], text[i])]
  BY <1>4
<1> QED BY <1>5 DEF NameScans

\* One step of the copy of a string.
CopyAt(f, i, last) ==
  CASE i > last                          -> <<>>
    [] i <= last /\ text[i] # Backslash   -> <<text[i]>> \o f[i + 1]
    [] i <= last /\ text[i] = Backslash   ->
         CASE text[i + 1] = "n"       -> <<Backslash>> \o f[i + 1]
           [] text[i + 1] = Backslash -> <<Backslash, Backslash>> \o f[i + 2]
           [] OTHER                   -> f[i + 1]

\* The function Copy exists, when the string ends: built from its end.
LEMMA CopyExists ==
  ASSUME NEW first \in Int, NEW last \in Int, first <= last, text[last] = Quote
  PROVE  \E f : f = [i \in first .. last + 1 |-> CopyAt(f, i, last)]
<1> DEFINE Def(f, n) == f = [i \in n .. last + 1 |-> CopyAt(f, i, last)]
           S == {n \in first .. last + 1 : \E f : Def(f, n)}
<1>1. last + 1 \in S
  <2>1. Def([i \in last + 1 .. last + 1 |-> <<>>], last + 1)
    BY DEF CopyAt
  <2> HIDE DEF Def
  <2> QED BY <2>1
<1>2. \A n \in first .. last : n + 1 \in S => n \in S
  <2> SUFFICES ASSUME NEW n \in first .. last, n + 1 \in S PROVE n \in S
    OBVIOUS
  <2>1. PICK f : Def(f, n + 1)
    OBVIOUS
  <2> DEFINE g == [i \in n .. last + 1 |-> IF i > n THEN f[i] ELSE CopyAt(f, n, last)]
  <2>2. Def(g, n)
    <3>0. \A i \in n + 1 .. last + 1 : g[i] = f[i]
      OBVIOUS
    <3>1. ASSUME NEW i \in n .. last + 1
          PROVE  g[i] = CopyAt(g, i, last)
      <4>0. CopyAt(g, i, last) = CopyAt(f, i, last)
        <5>1. CASE i > last
          BY <5>1 DEF CopyAt
        <5>2. CASE i <= last /\ text[i] # Backslash
          <6>1. g[i + 1] = f[i + 1]
            BY <5>2, <3>0
          <6> HIDE DEF g
          <6> QED BY <5>2, <6>1 DEF CopyAt
        <5>3. CASE i <= last /\ text[i] = Backslash
          <6>1. i < last
            <7>1. i # last
              BY <5>3, Chars
            <7> HIDE DEF g
            <7> QED BY <5>3, <7>1
          <6>2. g[i + 1] = f[i + 1] /\ g[i + 2] = f[i + 2]
            BY <6>1, <3>0
          <6> HIDE DEF g
          <6> QED BY <5>3, <6>2 DEF CopyAt
        <5> HIDE DEF g
        <5> QED BY <5>1, <5>2, <5>3
      <4>1. CASE i = n
        BY <4>0, <4>1
      <4>2. CASE i \in n + 1 .. last + 1
        <5>1. g[i] = f[i]
          BY <4>2, <3>0
        <5>2. f[i] = CopyAt(f, i, last)
          BY <2>1, <4>2
        <5> HIDE DEF g
        <5> QED BY <5>1, <5>2, <4>0
      <4> HIDE DEF g
      <4> QED BY <4>1, <4>2
    <3>2. g = [i \in n .. last + 1 |-> g[i]]
      OBVIOUS
    <3> HIDE DEF g
    <3> QED BY <3>1, <3>2
  <2> HIDE DEF Def, g
  <2> QED BY <2>2
<1>3. first \in S
  <2> HIDE DEF S
  <2>1. \A n \in first .. last + 1 : n \in S
    <3>1. \A n \in first .. (last + 1) - 1 : n + 1 \in S => n \in S
      BY <1>2
    <3>2. last + 1 \in Int
      OBVIOUS
    <3> QED BY <1>1, <3>1, <3>2, Downwards
  <2> QED BY <2>1
<1> HIDE DEF Def
<1>4. \E f : Def(f, first)
  BY <1>3
<1> QED BY <1>4 DEF Def

\* ... and is its definition.
LEMMA CopyDef ==
  ASSUME Start \in Int, StringEnd \in Int, Start <= StringEnd, text[StringEnd] = Quote
  PROVE  Copy = [i \in Start .. StringEnd + 1 |-> CopyAt(Copy, i, StringEnd)]
<1>1. \E f : f = [i \in Start .. StringEnd + 1 |-> CopyAt(f, i, StringEnd)]
  BY CopyExists
<1> QED BY <1>1 DEF Copy, CopyAt

(***************************************************************************)
(* Prefixes, and what the scanner has found.                               *)
(***************************************************************************)
\* Prefixes.
LEMMA PrefixIs ==
  ASSUME NEW S, NEW s \in Seq(S), NEW t \in Seq(S)
  PROVE  IsPrefix(s, t) <=> Len(s) <= Len(t) /\ \A i \in 1 .. Len(s) : s[i] = t[i]
<1>1. CASE Len(s) > Len(t)
  BY <1>1 DEF IsPrefix
<1>2. CASE Len(s) <= Len(t)
  <2>1. /\ SubSeq(s, 1, Len(s)) \in Seq(S) /\ Len(SubSeq(s, 1, Len(s))) = Len(s)
        /\ \A i \in 1 .. Len(s) : SubSeq(s, 1, Len(s))[i] = s[i]
    BY SubSeqFull
  <2>2. \A i \in 1 .. Len(s) : t[i] \in S
    BY <1>2
  <2>3. /\ SubSeq(t, 1, Len(s)) \in Seq(S) /\ Len(SubSeq(t, 1, Len(s))) = Len(s)
        /\ \A i \in 1 .. Len(s) : SubSeq(t, 1, Len(s))[i] = t[i]
    <3>1. Len(s) \in Int /\ 1 \in Int
      OBVIOUS
    <3> QED BY <1>2, <2>2, <3>1, SubSeqProperties
  <2>4. SubSeq(s, 1, Len(s)) = SubSeq(t, 1, Len(s)) <=> \A i \in 1 .. Len(s) : s[i] = t[i]
    <3>1. ASSUME SubSeq(s, 1, Len(s)) = SubSeq(t, 1, Len(s)) PROVE \A i \in 1 .. Len(s) : s[i] = t[i]
      BY <2>1, <2>3, <3>1
    <3>2. ASSUME \A i \in 1 .. Len(s) : s[i] = t[i] PROVE SubSeq(s, 1, Len(s)) = SubSeq(t, 1, Len(s))
      BY <2>1, <2>3, <3>2, SeqEqual
    <3> QED BY <3>1, <3>2
  <2> QED BY <1>2, <2>4 DEF IsPrefix
<1> QED BY <1>1, <1>2

\* Every sequence is a prefix of itself.
LEMMA PrefixSelf ==
  ASSUME NEW S, NEW s \in Seq(S)
  PROVE  IsPrefix(s, s)
BY PrefixIs

\* The prefix of a prefix is one.
LEMMA PrefixTrans ==
  ASSUME NEW S, NEW s \in Seq(S), NEW t \in Seq(S), NEW u \in Seq(S), IsPrefix(s, t), IsPrefix(t, u)
  PROVE  IsPrefix(s, u)
<1>1. /\ Len(s) <= Len(t) /\ \A i \in 1 .. Len(s) : s[i] = t[i]
      /\ Len(t) <= Len(u) /\ \A i \in 1 .. Len(t) : t[i] = u[i]
  BY PrefixIs
<1>2. Len(s) <= Len(u) /\ \A i \in 1 .. Len(s) : s[i] = u[i]
  BY <1>1
<1> QED BY <1>2, PrefixIs

\* A prefix stays one when the sequence gets longer.
LEMMA PrefixAppend ==
  ASSUME NEW S, NEW s \in Seq(S), NEW t \in Seq(S), NEW e \in S, IsPrefix(s, t)
  PROVE  IsPrefix(s, Append(t, e))
<1>1. Append(t, e) \in Seq(S) /\ Len(Append(t, e)) = Len(t) + 1
      /\ \A i \in 1 .. Len(t) : Append(t, e)[i] = t[i]
  BY AppendProperties
<1>2. Len(s) <= Len(t) /\ \A i \in 1 .. Len(s) : s[i] = t[i]
  BY PrefixIs
<1>3. Len(s) <= Len(Append(t, e)) /\ \A i \in 1 .. Len(s) : s[i] = Append(t, e)[i]
  BY <1>1, <1>2
<1> QED BY <1>1, <1>3, PrefixIs

\* What has been found is a prefix of what is found next.
LEMMA PrefixWith ==
  ASSUME NEW f \in Seq(Tok), NEW str \in Strings, NEW l \in Nat
  PROVE  With(f, str, l) \in Seq(Tok) /\ IsPrefix(f, With(f, str, l))
<1>1. [str |-> str, lineno |-> l] \in Tok
  BY DEF Tok
<1> QED BY <1>1, WithType, PrefixSelf, PrefixAppend DEF With

\* One step of the scanner is a scanner that has found no less.
LEMMA ScanType ==
  ASSUME NEW r \in Scanners, r.mode # "done", NEW c \in Characters
  PROVE  Scan(r, c) \in Scanners /\ Scan(r, c).mode # "done" /\ IsPrefix(r.found, Scan(r, c).found)
<1> DEFINE f == r.found
           cur == r.current
           l == r.lineno
<1>1. Is(r, f, r.mode, cur, l) /\ f \in Seq(Tok) /\ cur \in Strings /\ l \in Nat
  BY DEF Is, Scanners
<1>2. <<c>> \in Strings /\ <<Quote>> \in Strings
  BY SmallSeqs
<1>3. cur \o <<Quote>> \in Strings
  BY <1>1, <1>2 DEF Strings
<1>4. /\ With(f, cur, l) \in Seq(Tok) /\ IsPrefix(f, With(f, cur, l))
      /\ With(f, <<c>>, l) \in Seq(Tok) /\ IsPrefix(f, With(f, <<c>>, l))
      /\ With(f, cur \o <<Quote>>, l) \in Seq(Tok) /\ IsPrefix(f, With(f, cur \o <<Quote>>, l))
  BY <1>1, <1>2, <1>3, PrefixWith
<1>5. /\ With(With(f, cur, l), <<c>>, l) \in Seq(Tok)
      /\ IsPrefix(f, With(With(f, cur, l), <<c>>, l))
  <2>1. With(With(f, cur, l), <<c>>, l) \in Seq(Tok)
        /\ IsPrefix(With(f, cur, l), With(With(f, cur, l), <<c>>, l))
    BY <1>1, <1>2, <1>4, PrefixWith
  <2> QED BY <1>1, <1>4, <2>1, PrefixTrans
<1>6. IsPrefix(f, f)
  BY <1>1, PrefixSelf
<1>7. ASSUME NEW g, NEW m, NEW x, NEW n, Is(Scan(r, c), g, m, x, n), m # "done", IsPrefix(f, g)
      PROVE  Scan(r, c) \in Scanners /\ Scan(r, c).mode # "done" /\ IsPrefix(r.found, Scan(r, c).found)
  BY <1>7 DEF Is
<1> HIDE DEF f, cur, l
<1>8. CASE r.mode = "code"
  <2>1. Is(r, f, "code", cur, l)
    BY <1>1, <1>8
  <2>2. CASE c \in {Space, Newline, "#", Quote, "."}
    BY <2>1, <2>2, <1>4, <1>7, InCode
  <2>3. CASE c \in {"(", ".DIE"}
    BY <2>1, <2>3, <1>5, <1>7, InCode
  <2>4. CASE c = "EXECUTE" /\ cur = <<>>
    BY <2>1, <2>4, <1>4, <1>7, InCode
  <2>5. CASE c \in {"X", "n", Backslash, "^"} \/ (c = "EXECUTE" /\ cur # <<>>)
    BY <2>1, <2>5, <1>6, <1>7, InCode
  <2> QED BY <2>2, <2>3, <2>4, <2>5 DEF Characters
<1>9. CASE r.mode \in {"string", "escape"}
  <2>1. CASE c = Quote
    <3>1. Is(Scan(r, c), With(f, cur \o <<Quote>>, l), "code", <<>>, l)
      BY <1>1, <1>9, <2>1, InString
    <3> QED BY <3>1, <1>4, <1>7
  <2>2. CASE c \in {Newline, "^"}
    <3>1. \E m \in {"unterminated", "malformed"} : Is(Scan(r, c), f, m, cur, l)
      BY <1>1, <1>9, <2>2, InString
    <3> QED BY <3>1, <1>6, <1>7
  <2>3. CASE c = Backslash /\ r.mode = "string"
    <3>1. Is(Scan(r, c), f, "escape", cur, l)
      BY <1>1, <1>9, <2>3, InString
    <3> QED BY <3>1, <1>6, <1>7
  <2>4. CASE c \in {"n", Backslash} /\ r.mode = "escape"
    <3>1. Is(Scan(r, c), f, "string", cur \o <<Backslash, c>>, l)
      BY <1>1, <1>9, <2>4, InString
    <3> QED BY <3>1, <1>6, <1>7
  <2>5. CASE c \notin {Quote, Newline, "^", Backslash} /\ (r.mode = "escape" => c # "n")
    BY <1>1, <1>9, <2>5, <1>6, <1>7, InString
  <2> QED BY <1>9, <2>1, <2>2, <2>3, <2>4, <2>5
<1>10. CASE r.mode = "comment"
  BY <1>1, <1>10, <1>6, <1>7, InComment
<1>11. CASE r.mode \in Ends
  BY <1>1, <1>11, <1>6, Ended DEF f
<1> QED BY <1>1, <1>8, <1>9, <1>10, <1>11 DEF Is, Scanners, Modes, Ends

\* The scanner after one more character.
LEMMA ScansIs ==
  ASSUME text \in Strings
  PROVE  /\ Scans[0] = Scanner
         /\ \A i \in 1 .. Len(text) : Scans[i] = Scan(Scans[i - 1], text[i]) /\ text[i] \in Characters
<1>1. Len(text) \in Nat
  BY DEF Strings
<1>2. \A i \in 1 .. Len(text) : text[i] \in Characters
  BY DEF Strings
<1> QED BY <1>1, <1>2, ScansDef

\* It is always a scanner, ...
LEMMA ScansType ==
  ASSUME text \in Strings
  PROVE  \A i \in 0 .. Len(text) : Scans[i] \in Scanners /\ Scans[i].mode # "done"
<1> DEFINE L == Len(text)
           S == {i \in 0 .. L : Scans[i] \in Scanners /\ Scans[i].mode # "done"}
<1>0. L \in Nat
  BY DEF Strings
<1>1. 0 \in S
  <2>1. Scanner \in Scanners /\ Scanner.mode = "code"
    BY DEF Scanner, Scanners, Strings, Modes
  <2> QED BY <1>0, <2>1, ScansIs
<1>2. \A i \in 0 .. L - 1 : i \in S => i + 1 \in S
  <2> SUFFICES ASSUME NEW i \in 0 .. L - 1, i \in S PROVE i + 1 \in S
    OBVIOUS
  <2>1. i + 1 \in 1 .. L
    BY <1>0
  <2>2. Scans[i + 1] = Scan(Scans[i], text[i + 1]) /\ text[i + 1] \in Characters
    BY <2>1, <1>0, ScansIs
  <2> QED BY <2>1, <2>2, <1>0, ScanType
<1> HIDE DEF S, L
<1>3. \A i \in 0 .. L : i \in S
  BY <1>0, <1>1, <1>2, Upwards
<1> QED BY <1>3 DEF S, L

\* ... and what it has found later begins with what it has found before.
LEMMA FoundGrows ==
  ASSUME text \in Strings, NEW p \in 0 .. Len(text), NEW q \in p .. Len(text)
  PROVE  IsPrefix(Scans[p].found, Scans[q].found)
<1> DEFINE S == {i \in p .. q : IsPrefix(Scans[p].found, Scans[i].found)}
<1>0. Len(text) \in Nat
  BY DEF Strings
<1>t. \A i \in 0 .. Len(text) : Scans[i].found \in Seq(Tok)
  BY ScansType DEF Scanners
<1>1. p \in S
  BY <1>0, <1>t, PrefixSelf
<1>2. \A i \in p .. q - 1 : i \in S => i + 1 \in S
  <2> SUFFICES ASSUME NEW i \in p .. q - 1, i \in S PROVE i + 1 \in S
    OBVIOUS
  <2>1. i + 1 \in 1 .. Len(text) /\ i \in 0 .. Len(text) /\ i + 1 \in p .. q
    BY <1>0
  <2>2. Scans[i + 1] = Scan(Scans[i], text[i + 1]) /\ text[i + 1] \in Characters
    BY <2>1, <1>0, ScansIs
  <2>3. IsPrefix(Scans[i].found, Scans[i + 1].found)
    BY <2>1, <2>2, ScansType, ScanType
  <2>4. /\ Scans[p].found \in Seq(Tok) /\ Scans[i].found \in Seq(Tok) /\ Scans[i + 1].found \in Seq(Tok)
    BY <1>t, <2>1
  <2>5. IsPrefix(Scans[p].found, Scans[i + 1].found)
    BY <2>3, <2>4, PrefixTrans
  <2> QED BY <2>1, <2>5
<1> HIDE DEF S
<1>3. \A i \in p .. q : i \in S
  BY <1>0, <1>1, <1>2, Upwards
<1> QED BY <1>3 DEF S

\* The scanner does not go on after an error.
LEMMA EndedStays ==
  ASSUME text \in Strings, NEW p \in 0 .. Len(text), Scans[p].mode \in Ends
  PROVE  Scans[Len(text)] = Scans[p]
<1> DEFINE L == Len(text)
           S == {i \in p .. L : Scans[i] = Scans[p]}
<1>0. L \in Nat
  BY DEF Strings
<1>1. p \in S
  BY <1>0
<1>2. \A i \in p .. L - 1 : i \in S => i + 1 \in S
  <2> SUFFICES ASSUME NEW i \in p .. L - 1, i \in S PROVE i + 1 \in S
    OBVIOUS
  <2>1. i + 1 \in 1 .. L /\ i + 1 \in p .. L
    BY <1>0
  <2>2. Scans[i + 1] = Scan(Scans[i], text[i + 1])
    BY <2>1, <1>0, ScansIs
  <2>3. Scans[i] = Scans[p] /\ Scans[i].mode \in Ends
    OBVIOUS
  <2>4. Scan(Scans[i], text[i + 1]) = Scans[i]
    BY <2>3, Ended
  <2> QED BY <2>1, <2>2, <2>3, <2>4
<1> HIDE DEF S, L
<1>4. p \in Int /\ L \in Int /\ p <= L
  BY <1>0 DEF L
<1>3. \A i \in p .. L : i \in S
  BY <1>1, <1>2, <1>4, Upwards
<1>5. L \in S
  BY <1>0, <1>3, <1>4
<1> QED BY <1>5 DEF S, L

(***************************************************************************)
(* The scanner over a part of the file.                                    *)
(***************************************************************************)
\* The characters from p to q are in C.
AllIn(p, q, C) == \A k \in p .. q : text[k] \in C

LEMMA InAll ==
  ASSUME NEW p, NEW q, NEW C, AllIn(p, q, C), NEW k \in p .. q
  PROVE  text[k] \in C
BY DEF AllIn

\* The characters that do not end a word.
WordCharacters == {"X", "n", Backslash, "EXECUTE"}

\* From the place p to the place q the scanner passes over spaces.
LEMMA PassSpaces ==
  ASSUME text \in Strings, NEW p \in Nat, NEW q \in Nat, 1 <= p, p <= q, q <= Len(text),
         AllIn(p, q, {Space}),
         NEW f, NEW cur, NEW l, Is(Scans[p - 1], f, "code", cur, l)
  PROVE  Is(Scans[q], With(f, cur, l), "code", <<>>, l)
<1> DEFINE g == With(f, cur, l)
           S == {k \in p .. q : Is(Scans[k], g, "code", <<>>, l)}
<1>0. Len(text) \in Nat
  BY DEF Strings
<1>1. p \in S
  <2>1. p \in 1 .. Len(text)
    BY <1>0
  <2>0. text[p] \in {Space}
    BY InAll
  <2>2. Scans[p] = Scan(Scans[p - 1], Space) /\ Space \in Characters
    BY <1>0, <2>0, <2>1, ScansIs
  <2>3. Is(Scans[p], g, "code", <<>>, l)
    BY <2>2, InCode
  <2> HIDE DEF g
  <2> QED BY <1>0, <2>3
<1>2. \A k \in p .. q - 1 : k \in S => k + 1 \in S
  <2> SUFFICES ASSUME NEW k \in p .. q - 1, k \in S PROVE k + 1 \in S
    OBVIOUS
  <2>1. k + 1 \in 1 .. Len(text) /\ k + 1 \in p .. q
    BY <1>0
  <2>0. text[k + 1] \in {Space}
    BY <2>1, InAll
  <2>2. Scans[k + 1] = Scan(Scans[k], Space) /\ Space \in Characters
    BY <1>0, <2>0, <2>1, ScansIs
  <2>3. Is(Scans[k], g, "code", <<>>, l)
    OBVIOUS
  <2>4. Is(Scans[k + 1], With(g, <<>>, l), "code", <<>>, l)
    BY <2>2, <2>3, InCode
  <2>5. With(g, <<>>, l) = g
    BY DEF With
  <2> HIDE DEF g
  <2> QED BY <2>1, <2>4, <2>5
<1> HIDE DEF S
<1>3. \A k \in p .. q : k \in S
  BY <1>0, <1>1, <1>2, Upwards
<1>4. q \in S
  BY <1>0, <1>3
<1> QED BY <1>4 DEF S

\* A comment goes on to the end of the line.
LEMMA PassComment ==
  ASSUME text \in Strings, NEW p \in Nat, NEW q \in Nat, p <= q, q <= Len(text),
         AllIn(p + 1, q, Characters \ {Newline}),
         NEW f, NEW cur, NEW l, Is(Scans[p], f, "comment", cur, l)
  PROVE  Is(Scans[q], f, "comment", cur, l)
<1> DEFINE S == {k \in p .. q : Is(Scans[k], f, "comment", cur, l)}
<1>0. Len(text) \in Nat
  BY DEF Strings
<1>1. p \in S
  BY <1>0
<1>2. \A k \in p .. q - 1 : k \in S => k + 1 \in S
  <2> SUFFICES ASSUME NEW k \in p .. q - 1, k \in S PROVE k + 1 \in S
    OBVIOUS
  <2>1. k + 1 \in 1 .. Len(text) /\ k + 1 \in p + 1 .. q
    BY <1>0
  <2>2. Scans[k + 1] = Scan(Scans[k], text[k + 1]) /\ text[k + 1] # Newline
    BY <1>0, <2>1, ScansIs, InAll
  <2>3. Is(Scans[k + 1], f, "comment", cur, l)
    BY <2>2, InComment
  <2> QED BY <2>1, <2>3
<1> HIDE DEF S
<1>3. \A k \in p .. q : k \in S
  BY <1>0, <1>1, <1>2, Upwards
<1>4. q \in S
  BY <1>0, <1>3
<1> QED BY <1>4 DEF S

\* A word goes on to the first character that ends one.
LEMMA PassWord ==
  ASSUME text \in Strings, NEW p \in Nat, NEW q \in Nat, 1 <= p, p <= q, q <= Len(text),
         text[p] # "EXECUTE", AllIn(p, q, WordCharacters),
         NEW f, NEW l, Is(Scans[p - 1], f, "code", <<>>, l)
  PROVE  Is(Scans[q], f, "code", SubSeq(text, p, q), l)
<1> DEFINE S == {k \in p .. q : Is(Scans[k], f, "code", SubSeq(text, p, k), l)}
<1>0. Len(text) \in Nat /\ text \in Seq(Characters)
  BY DEF Strings
<1>1. p \in S
  <2>1. Scans[p] = Scan(Scans[p - 1], text[p]) /\ text[p] \in Characters
    BY <1>0, ScansIs
  <2>2. text[p] \in WordCharacters
    BY InAll
  <2>3. text[p] \in {"X", "n", Backslash}
    BY <2>2 DEF WordCharacters
  <2>4. Is(Scans[p], f, "code", <<>> \o <<text[p]>>, l)
    BY <2>1, <2>3, InCode
  <2>5. <<>> \o <<text[p]>> = <<text[p]>>
    BY <2>1, SmallSeqs
  <2>6. SubSeq(text, p, p) = <<text[p]>>
    <3>1. SubSeq(text, p, p) = <<text[p]>> \o SubSeq(text, p + 1, p)
      BY <1>0, SubSeqRecursiveFirst
    <3>2. SubSeq(text, p + 1, p) = <<>>
      BY <1>0, SubSeqEmpty
    <3>3. <<text[p]>> \in Seq(Characters)
      BY <2>1
    <3> QED BY <3>1, <3>2, <3>3, ConcatEmptySeq
  <2>7. p \in p .. q /\ Is(Scans[p], f, "code", SubSeq(text, p, p), l)
    BY <1>0, <2>4, <2>5, <2>6
  <2> QED BY <2>7
<1>2. \A k \in p .. q - 1 : k \in S => k + 1 \in S
  <2> SUFFICES ASSUME NEW k \in p .. q - 1, k \in S PROVE k + 1 \in S
    OBVIOUS
  <2>1. k + 1 \in 1 .. Len(text) /\ k + 1 \in p .. q /\ k + 1 \in p .. Len(text) /\ (k + 1) - 1 = k
    BY <1>0
  <2>2. Scans[k + 1] = Scan(Scans[k], text[k + 1]) /\ text[k + 1] \in Characters
    BY <1>0, <2>1, ScansIs
  <2>3. text[k + 1] \in WordCharacters
    BY <2>1, InAll
  <2>4. Is(Scans[k], f, "code", SubSeq(text, p, k), l)
    OBVIOUS
  <2>5. SubSeq(text, p, k) # <<>>
    <3>1. SubSeq(text, p, k) = <<text[p]>> \o SubSeq(text, p + 1, k)
      BY <1>0, <2>1, SubSeqRecursiveFirst
    <3>2. Len(SubSeq(text, p, k)) = k - p + 1
      BY <1>0, <2>1
    <3>3. Len(<<>>) = 0 /\ k - p + 1 > 0
      BY <1>0, <2>1
    <3> QED BY <3>2, <3>3
  <2>6. Is(Scans[k + 1], f, "code", SubSeq(text, p, k) \o <<text[k + 1]>>, l)
    BY <2>2, <2>3, <2>4, <2>5, InCode DEF WordCharacters
  <2>7. SubSeq(text, p, k + 1) = SubSeq(text, p, k) \o <<text[k + 1]>>
    <3>1. SubSeq(text, p, k + 1) = SubSeq(text, p, (k + 1) - 1) \o <<text[k + 1]>>
      BY <1>0, <2>1, SubSeqRecursiveSecond
    <3> QED BY <3>1, <2>1
  <2> QED BY <2>1, <2>6, <2>7
<1> HIDE DEF S
<1>3. \A k \in p .. q : k \in S
  BY <1>0, <1>1, <1>2, Upwards
<1>4. q \in S
  BY <1>0, <1>3
<1> QED BY <1>4 DEF S

\* The scanner is in a string.
Unclosed(r, f, l) == \E m, str : m \in {"string", "escape"} /\ Is(r, f, m, str, l)

\* A string goes on to the first quote, or to a character that may not be in one.
LEMMA PassString ==
  ASSUME text \in Strings, NEW p \in Nat, NEW q \in Nat, p <= q, q <= Len(text),
         AllIn(p + 1, q, Characters \ {Quote, "^", Newline}),
         NEW f, NEW l, Unclosed(Scans[p], f, l)
  PROVE  Unclosed(Scans[q], f, l)
<1> DEFINE S == {k \in p .. q : Unclosed(Scans[k], f, l)}
<1>0. Len(text) \in Nat
  BY DEF Strings
<1>1. p \in S
  BY <1>0
<1>2. \A k \in p .. q - 1 : k \in S => k + 1 \in S
  <2> SUFFICES ASSUME NEW k \in p .. q - 1, k \in S PROVE k + 1 \in S
    OBVIOUS
  <2>1. k + 1 \in 1 .. Len(text) /\ k + 1 \in p + 1 .. q /\ k + 1 \in p .. q
    BY <1>0
  <2>2. Scans[k + 1] = Scan(Scans[k], text[k + 1]) /\ text[k + 1] \in Characters
    BY <1>0, <2>1, ScansIs
  <2>3. PICK m, str : m \in {"string", "escape"} /\ Is(Scans[k], f, m, str, l)
    BY DEF Unclosed
  <2>4. text[k + 1] \notin {Quote, "^", Newline}
    BY <2>1, InAll
  <2>5. CASE text[k + 1] = Backslash /\ m = "string"
    <3>1. Is(Scans[k + 1], f, "escape", str, l)
      BY <2>2, <2>3, <2>5, InString
    <3>2. Unclosed(Scans[k + 1], f, l)
      BY <3>1 DEF Unclosed
    <3> QED BY <2>1, <3>2
  <2>6. CASE text[k + 1] \in {"n", Backslash} /\ m = "escape"
    <3>1. Is(Scans[k + 1], f, "string", str \o <<Backslash, text[k + 1]>>, l)
      BY <2>2, <2>3, <2>6, InString
    <3>2. Unclosed(Scans[k + 1], f, l)
      BY <3>1 DEF Unclosed
    <3> QED BY <2>1, <3>2
  <2>7. CASE text[k + 1] # Backslash /\ (m = "escape" => text[k + 1] # "n")
    <3>1. Is(Scans[k + 1], f, "string", str \o <<text[k + 1]>>, l)
      BY <2>2, <2>3, <2>4, <2>7, InString
    <3>2. Unclosed(Scans[k + 1], f, l)
      BY <3>1 DEF Unclosed
    <3> QED BY <2>1, <3>2
  <2> QED BY <2>3, <2>5, <2>6, <2>7
<1> HIDE DEF S
<1>3. \A k \in p .. q : k \in S
  BY <1>0, <1>1, <1>2, Upwards
<1>4. q \in S
  BY <1>0, <1>3
<1> QED BY <1>4 DEF S

(***************************************************************************)
(* The copy of a string.                                                   *)
(***************************************************************************)
\* A sequence with one character before it.
LEMMA OneBefore ==
  ASSUME NEW x \in Characters, NEW u \in Strings
  PROVE  /\ <<x>> \o u \in Strings /\ Len(<<x>> \o u) = Len(u) + 1
         /\ (<<x>> \o u)[1] = x /\ \A i \in 2 .. Len(u) + 1 : (<<x>> \o u)[i] = u[i - 1]
<1>0. u \in Seq(Characters) /\ <<x>> \in Seq(Characters)
  BY DEF Strings
<1>1. <<x>> \in Seq(Characters) /\ Len(<<x>>) = 1 /\ <<x>>[1] = x /\ u \in Seq(Characters)
  BY <1>0
<1>2. Len(u) \in Nat
  BY <1>1
<1>3. /\ <<x>> \o u \in Seq(Characters) /\ Len(<<x>> \o u) = 1 + Len(u)
      /\ \A i \in 1 .. 1 + Len(u) : (<<x>> \o u)[i] = IF i <= 1 THEN <<x>>[i] ELSE u[i - 1]
  BY <1>1, ConcatProperties
<1> QED BY <1>1, <1>2, <1>3 DEF Strings

\* A sequence with two characters before it.
LEMMA TwoBefore ==
  ASSUME NEW x \in Characters, NEW y \in Characters, NEW u \in Strings
  PROVE  /\ <<x, y>> \o u \in Strings /\ Len(<<x, y>> \o u) = Len(u) + 2
         /\ (<<x, y>> \o u)[1] = x /\ (<<x, y>> \o u)[2] = y
         /\ \A i \in 3 .. Len(u) + 2 : (<<x, y>> \o u)[i] = u[i - 2]
<1>1. /\ <<x, y>> \in Seq(Characters) /\ Len(<<x, y>>) = 2 /\ <<x, y>>[1] = x /\ <<x, y>>[2] = y
      /\ u \in Seq(Characters)
  BY DEF Strings
<1>2. Len(u) \in Nat
  BY <1>1
<1>3. /\ <<x, y>> \o u \in Seq(Characters) /\ Len(<<x, y>> \o u) = 2 + Len(u)
      /\ \A i \in 1 .. 2 + Len(u) : (<<x, y>> \o u)[i] = IF i <= 2 THEN <<x, y>>[i] ELSE u[i - 2]
  BY <1>1, ConcatProperties
<1> QED BY <1>1, <1>2, <1>3 DEF Strings

\* The rest of a string, in which of the backslashes in a row all are paired, but the last
\* before an n or a t.
Run(t, a, b) ==
  /\ \A m \in a .. b : t[m] = Backslash
  /\ a = 1 \/ t[a - 1] # Backslash
  /\ t[b + 1] # Backslash

Paired(t, a, b) == (b - a + 1) % 2 = 0 \/ t[b + 1] = "n"

Closed(t) ==
  /\ t \in Strings /\ Len(t) > 0
  /\ \A i \in 1 .. Len(t) : t[i] = Quote <=> i = Len(t)
  /\ \A a, b \in 1 .. Len(t) - 1 : a <= b /\ Run(t, a, b) => Paired(t, a, b)

\* The shortest of them is a quote.
LEMMA ClosedQuote == Closed(<<Quote>>)
<1>1. <<Quote>> \in Strings /\ Len(<<Quote>>) = 1 /\ <<Quote>>[1] = Quote
  BY SmallSeqs
<1> QED BY <1>1 DEF Closed

\* A character that is no backslash before it.
LEMMA ClosedOther ==
  ASSUME NEW c \in Characters, c # Quote, c # Backslash, NEW u, Closed(u)
  PROVE  Closed(<<c>> \o u)
<1> DEFINE t == <<c>> \o u
<1>1. u \in Strings /\ Len(u) \in Nat /\ Len(u) > 0
  BY DEF Closed, Strings
<1>2. t \in Strings /\ Len(t) = Len(u) + 1 /\ t[1] = c /\ \A i \in 2 .. Len(u) + 1 : t[i] = u[i - 1]
  BY <1>1, OneBefore
<1> HIDE DEF t
<1>3. \A i \in 1 .. Len(t) : t[i] = Quote <=> i = Len(t)
  <2>1. \A i \in 1 .. Len(u) : u[i] = Quote <=> i = Len(u)
    BY DEF Closed
  <2> QED BY <1>1, <1>2, <2>1
<1>4. ASSUME NEW a \in 1 .. Len(t) - 1, NEW b \in 1 .. Len(t) - 1, a <= b, Run(t, a, b)
      PROVE  Paired(t, a, b)
  <2>1. a > 1
    BY <1>1, <1>2, <1>4, Chars DEF Run
  <2>2. a - 1 \in 1 .. Len(u) - 1 /\ b - 1 \in 1 .. Len(u) - 1 /\ a - 1 <= b - 1
    BY <1>1, <1>2, <1>4, <2>1
  <2>3. Run(u, a - 1, b - 1)
    <3>1. ASSUME NEW m \in a - 1 .. b - 1 PROVE u[m] = Backslash
      <4>1. m + 1 \in a .. b /\ m + 1 \in 2 .. Len(u) + 1 /\ (m + 1) - 1 = m
        BY <1>1, <1>2, <2>1, <2>2
      <4> QED BY <1>2, <1>4, <4>1 DEF Run
    <3>2. a - 1 = 1 \/ u[(a - 1) - 1] # Backslash
      <4>1. CASE a > 2
        <5>1. a - 1 \in 2 .. Len(u) + 1 /\ t[a - 1] # Backslash
          BY <1>1, <1>2, <1>4, <4>1 DEF Run
        <5> QED BY <1>2, <5>1
      <4> QED BY <2>1, <4>1
    <3>3. u[(b - 1) + 1] # Backslash
      <4>1. b + 1 \in 2 .. Len(u) + 1 /\ (b + 1) - 1 = (b - 1) + 1
        BY <1>1, <1>2
      <4> QED BY <1>2, <1>4, <4>1 DEF Run
    <3> QED BY <3>1, <3>2, <3>3 DEF Run
  <2>4. Paired(u, a - 1, b - 1)
    BY <2>2, <2>3 DEF Closed
  <2>5. t[b + 1] = u[(b - 1) + 1] /\ (b - 1) - (a - 1) + 1 = b - a + 1
    <3>1. b + 1 \in 2 .. Len(u) + 1 /\ (b + 1) - 1 = (b - 1) + 1
      BY <1>1, <1>2
    <3> QED BY <1>2, <3>1
  <2> QED BY <2>4, <2>5 DEF Paired
<1>5. Closed(t)
  BY <1>1, <1>2, <1>3, <1>4 DEF Closed
<1> QED BY <1>5 DEF t

\* A backslash before an n.
LEMMA ClosedEscape ==
  ASSUME NEW u, Closed(u), u[1] = "n"
  PROVE  Closed(<<Backslash>> \o u)
<1> DEFINE t == <<Backslash>> \o u
<1>0. Backslash \in Characters
  BY DEF Characters
<1>1. u \in Strings /\ Len(u) \in Nat /\ Len(u) > 0
  BY DEF Closed, Strings
<1>2. /\ t \in Strings /\ Len(t) = Len(u) + 1 /\ t[1] = Backslash
      /\ \A i \in 2 .. Len(u) + 1 : t[i] = u[i - 1]
  BY <1>0, <1>1, OneBefore
<1> HIDE DEF t
<1>3. \A i \in 1 .. Len(t) : t[i] = Quote <=> i = Len(t)
  <2>1. \A i \in 1 .. Len(u) : u[i] = Quote <=> i = Len(u)
    BY DEF Closed
  <2> QED BY <1>1, <1>2, <2>1, Chars
<1>n. t[2] = "n" /\ "n" # Backslash
  BY <1>1, <1>2, Chars
<1>4. ASSUME NEW a \in 1 .. Len(t) - 1, NEW b \in 1 .. Len(t) - 1, a <= b, Run(t, a, b)
      PROVE  Paired(t, a, b)
  <2>0. Len(t) \in Nat
    BY <1>1, <1>2
  <2>1. CASE a = 1
    <3>1. b = 1
      <4>1. b >= 2 => 2 \in a .. b
        BY <2>0, <2>1
      <4> QED BY <2>0, <4>1, <1>n, <1>4 DEF Run
    <3> QED BY <3>1, <1>n DEF Paired
  <2>2. CASE a = 2
    BY <2>0, <2>2, <1>n, <1>4 DEF Run
  <2>3. CASE a > 2
    <3>2. a - 1 \in 1 .. Len(u) - 1 /\ b - 1 \in 1 .. Len(u) - 1 /\ a - 1 <= b - 1
      BY <1>1, <1>2, <1>4, <2>3
    <3>3. Run(u, a - 1, b - 1)
      <4>1. ASSUME NEW m \in a - 1 .. b - 1 PROVE u[m] = Backslash
        <5>1. m + 1 \in a .. b /\ m + 1 \in 2 .. Len(u) + 1 /\ (m + 1) - 1 = m
          BY <1>1, <1>2, <2>3, <3>2
        <5> QED BY <1>2, <1>4, <5>1 DEF Run
      <4>2. u[(a - 1) - 1] # Backslash
        <5>1. a - 1 \in 2 .. Len(u) + 1 /\ t[a - 1] # Backslash
          BY <1>1, <1>2, <1>4, <2>3 DEF Run
        <5> QED BY <1>2, <5>1
      <4>3. u[(b - 1) + 1] # Backslash
        <5>1. b + 1 \in 2 .. Len(u) + 1 /\ (b + 1) - 1 = (b - 1) + 1
          BY <1>1, <1>2
        <5> QED BY <1>2, <1>4, <5>1 DEF Run
      <4> QED BY <4>1, <4>2, <4>3 DEF Run
    <3>4. Paired(u, a - 1, b - 1)
      BY <3>2, <3>3 DEF Closed
    <3>5. t[b + 1] = u[(b - 1) + 1] /\ (b - 1) - (a - 1) + 1 = b - a + 1
      <4>1. b + 1 \in 2 .. Len(u) + 1 /\ (b + 1) - 1 = (b - 1) + 1
        BY <1>1, <1>2
      <4> QED BY <1>2, <4>1
    <3> QED BY <3>4, <3>5 DEF Paired
  <2> QED BY <2>0, <2>1, <2>2, <2>3
<1>5. Closed(t)
  BY <1>1, <1>2, <1>3, <1>4 DEF Closed
<1> QED BY <1>5 DEF t

\* A pair of backslashes.
LEMMA ClosedPair ==
  ASSUME NEW u, Closed(u)
  PROVE  Closed(<<Backslash, Backslash>> \o u)
<1> DEFINE t == <<Backslash, Backslash>> \o u
<1>0. Backslash \in Characters
  BY DEF Characters
<1>1. u \in Strings /\ Len(u) \in Nat /\ Len(u) > 0
  BY DEF Closed, Strings
<1>2. /\ t \in Strings /\ Len(t) = Len(u) + 2 /\ t[1] = Backslash /\ t[2] = Backslash
      /\ \A i \in 3 .. Len(u) + 2 : t[i] = u[i - 2]
  BY <1>0, <1>1, TwoBefore
<1> HIDE DEF t
<1>3. \A i \in 1 .. Len(t) : t[i] = Quote <=> i = Len(t)
  <2>1. \A i \in 1 .. Len(u) : u[i] = Quote <=> i = Len(u)
    BY DEF Closed
  <2> QED BY <1>1, <1>2, <2>1, Chars
<1>4. ASSUME NEW a \in 1 .. Len(t) - 1, NEW b \in 1 .. Len(t) - 1, a <= b, Run(t, a, b)
      PROVE  Paired(t, a, b)
  <2>0. Len(t) \in Nat
    BY <1>1, <1>2
  <2>1. a # 2
    BY <1>2, <1>4 DEF Run
  <2>2. b >= 2
    <3>1. CASE b = 1
      BY <1>2, <1>4, <3>1 DEF Run
    <3> QED BY <2>0, <3>1
  <2>3. CASE b = 2
    <3>1. a = 1
      BY <1>4, <2>0, <2>1, <2>3
    <3> QED BY <2>3, <3>1 DEF Paired
  <2>4. CASE b > 2
    <3> DEFINE x == IF a = 1 THEN 1 ELSE a - 2
    <3>1. x \in 1 .. Len(u) - 1 /\ b - 2 \in 1 .. Len(u) - 1 /\ x <= b - 2 /\ x + 2 >= a
      BY <1>1, <1>2, <1>4, <2>1, <2>4
    <3>2. x = 1 \/ x = a - 2
      OBVIOUS
    <3>6. a > 1 => x = a - 2
      BY <2>0
    <3>p. (b - 2) - x + 1 = b - a + 1 \/ (b - 2) - x + 1 + 2 = b - a + 1
      BY <2>0
    <3> HIDE DEF x
    <3>3. Run(u, x, b - 2)
      <4>1. ASSUME NEW m \in x .. b - 2 PROVE u[m] = Backslash
        <5>1. m + 2 \in a .. b /\ m + 2 \in 3 .. Len(u) + 2 /\ (m + 2) - 2 = m
          BY <1>1, <1>2, <2>4, <3>1
        <5> QED BY <1>2, <1>4, <5>1 DEF Run
      <4>2. x = 1 \/ u[x - 1] # Backslash
        <5>1. CASE x > 1
          <6>1. a = x + 2 /\ a - 1 \in 3 .. Len(u) + 2 /\ (a - 1) - 2 = x - 1
            BY <1>1, <1>2, <3>1, <3>2, <5>1
          <6>2. t[a - 1] # Backslash
            BY <1>4, <3>1, <5>1, <6>1 DEF Run
          <6> QED BY <1>2, <6>1, <6>2
        <5> QED BY <3>1, <5>1
      <4>3. u[(b - 2) + 1] # Backslash
        <5>1. b + 1 \in 3 .. Len(u) + 2 /\ (b + 1) - 2 = (b - 2) + 1
          BY <1>1, <1>2, <2>4
        <5> QED BY <1>2, <1>4, <5>1 DEF Run
      <4> QED BY <4>1, <4>2, <4>3 DEF Run
    <3>4. Paired(u, x, b - 2)
      BY <3>1, <3>3 DEF Closed
    <3>5. t[b + 1] = u[(b - 2) + 1]
      <4>1. b + 1 \in 3 .. Len(u) + 2 /\ (b + 1) - 2 = (b - 2) + 1
        BY <1>1, <1>2, <2>4
      <4> QED BY <1>2, <4>1
    <3>7. ((b - 2) - x + 1) % 2 = 0 => (b - a + 1) % 2 = 0
      BY <3>p, <3>1, <2>0
    <3> QED BY <3>4, <3>5, <3>7 DEF Paired
  <2> QED BY <2>0, <2>2, <2>3, <2>4
<1>5. Closed(t)
  BY <1>1, <1>2, <1>3, <1>4 DEF Closed
<1> QED BY <1>5 DEF t

\* A string of the file, from quote to quote.
StringAt(p, q) ==
  /\ 1 <= p /\ p < q /\ q <= Len(text)
  /\ text[p] = Quote /\ text[q] = Quote
  /\ AllIn(p + 1, q - 1, Characters \ {Quote, "^", Newline})

\* C is the copy of that string.
Copies(C, p, q) == C = [i \in p .. q + 1 |-> CopyAt(C, i, q)]

\* Behind the end of the string nothing is copied.
LEMMA CopyLast ==
  ASSUME NEW p \in Nat, NEW q \in Nat, p <= q, NEW C, Copies(C, p, q)
  PROVE  C[q + 1] = <<>>
<1>1. q + 1 \in p .. q + 1 /\ q + 1 > q
  OBVIOUS
<1>2. C[q + 1] = CopyAt(C, q + 1, q)
  BY <1>1 DEF Copies
<1> QED BY <1>1, <1>2 DEF CopyAt

\* The cases of the copy.
LEMMA CopyCases ==
  ASSUME NEW p \in Nat, NEW q \in Nat, NEW C, Copies(C, p, q), NEW i \in p .. q
  PROVE  /\ text[i] # Backslash => C[i] = <<text[i]>> \o C[i + 1]
         /\ text[i] = Backslash =>
              /\ text[i + 1] = "n" => C[i] = <<Backslash>> \o C[i + 1]
              /\ text[i + 1] = Backslash => C[i] = <<Backslash, Backslash>> \o C[i + 2]
              /\ text[i + 1] \notin {"n", Backslash} => C[i] = C[i + 1]
<1>1. C[i] = CopyAt(C, i, q) /\ ~ (i > q) /\ i <= q
  BY DEF Copies
<1>2. CopyAt(C, i, q) = IF text[i] # Backslash THEN <<text[i]>> \o C[i + 1]
                        ELSE CASE text[i + 1] = "n"       -> <<Backslash>> \o C[i + 1]
                               [] text[i + 1] = Backslash -> <<Backslash, Backslash>> \o C[i + 2]
                               [] OTHER                   -> C[i + 1]
  BY <1>1 DEF CopyAt
<1>3. "n" # Backslash
  BY Chars
<1> QED BY <1>1, <1>2, <1>3

\* ... of which this is one.
LEMMA CopyPair ==
  ASSUME NEW p \in Nat, NEW q \in Nat, NEW C, Copies(C, p, q), NEW i \in p .. q,
         text[i] = Backslash, text[i + 1] = Backslash
  PROVE  C[i] = <<Backslash, Backslash>> \o C[i + 2]
BY CopyCases

\* ... and this another.
LEMMA CopyEscape ==
  ASSUME NEW p \in Nat, NEW q \in Nat, NEW C, Copies(C, p, q), NEW i \in p .. q,
         text[i] = Backslash, text[i + 1] = "n"
  PROVE  C[i] = <<Backslash>> \o C[i + 1]
BY CopyCases

\* Concatenation.
LEMMA StringsConcat ==
  ASSUME NEW x \in Strings, NEW y \in Strings, NEW z \in Strings
  PROVE  (x \o y) \o z = x \o (y \o z) /\ x \o y \in Strings
BY ConcatAssociative, ConcatProperties DEF Strings

\* A backslash and a character are two characters.
LEMMA BackslashThen ==
  ASSUME NEW y \in Characters, NEW z \in Strings
  PROVE  <<Backslash>> \o (<<y>> \o z) = <<Backslash, y>> \o z
<1>1. <<Backslash>> \in Strings /\ <<y>> \in Strings /\ <<Backslash>> \o <<y>> = <<Backslash, y>>
  BY SmallSeqs
<1>2. (<<Backslash>> \o <<y>>) \o z = <<Backslash>> \o (<<y>> \o z)
  BY <1>1, StringsConcat
<1> QED BY <1>1, <1>2

\* What is copied from a place in the string on is closed.
LEMMA CopyClosed ==
  ASSUME text \in Strings, NEW p \in Nat, NEW q \in Nat, StringAt(p, q), NEW C, Copies(C, p, q)
  PROVE  \A i \in p + 1 .. q : Closed(C[i])
<1> DEFINE S == {i \in p + 1 .. q : Closed(C[i]) /\ (i < q => Closed(C[i + 1]))}
<1>0. /\ 1 <= p /\ p < q /\ q <= Len(text) /\ Len(text) \in Nat
      /\ text[q] = Quote
      /\ \A i \in 1 .. Len(text) : text[i] \in Characters
  BY DEF StringAt, Strings
<1>1. Closed(C[q]) /\ C[q] = <<Quote>>
  <2>1. C[q + 1] = <<>> /\ C[q] = <<Quote>> \o C[q + 1]
    BY <1>0, CopyLast, CopyCases, Chars
  <2>2. <<Quote>> \o <<>> = <<Quote>>
    BY SmallSeqs, ConcatEmptySeq DEF Strings
  <2> QED BY <2>1, <2>2, ClosedQuote
<1>2. q \in S
  BY <1>0, <1>1
<1>3. \A i \in p + 1 .. q - 1 : i + 1 \in S => i \in S
  <2> SUFFICES ASSUME NEW i \in p + 1 .. q - 1, i + 1 \in S PROVE i \in S
    OBVIOUS
  <2>1. Closed(C[i + 1]) /\ (i + 1 < q => Closed(C[(i + 1) + 1])) /\ (i + 1) + 1 = i + 2
    OBVIOUS
  <2>2. text[i] \in Characters \ {Quote, "^", Newline}
    BY InAll DEF StringAt
  <2>3. i \in p .. q /\ i + 1 \in p .. q /\ i \in p + 1 .. q
    BY <1>0
  <2> HIDE DEF S
  <2>4. ASSUME text[i] # Backslash PROVE Closed(C[i])
    <3>1. C[i] = <<text[i]>> \o C[i + 1]
      BY <2>3, <2>4, CopyCases
    <3> QED BY <2>1, <2>2, <2>4, <3>1, ClosedOther
  <2>5. ASSUME text[i] = Backslash /\ text[i + 1] = "n" PROVE Closed(C[i])
    <3>1. C[i] = <<Backslash>> \o C[i + 1]
      BY <2>3, <2>5, CopyCases
    <3>2. C[i + 1][1] = "n"
      <4>1. text[i + 1] # Backslash /\ text[i + 1] # Quote /\ i + 1 < q
        <5>1. "n" # Quote /\ "n" # Backslash
          BY Chars
        <5>2. i + 1 # q
          BY <1>0, <2>5, <5>1
        <5> QED BY <2>3, <2>5, <5>1, <5>2
      <4>2. C[i + 1] = <<text[i + 1]>> \o C[i + 2]
        BY <2>1, <2>3, <4>1, CopyCases
      <4>3. C[i + 2] \in Strings /\ text[i + 1] \in Characters
        BY <1>0, <2>1, <2>3, <4>1 DEF Closed
      <4> QED BY <2>5, <4>2, <4>3, OneBefore
    <3> QED BY <2>1, <3>1, <3>2, ClosedEscape
  <2>6. ASSUME text[i] = Backslash /\ text[i + 1] = Backslash PROVE Closed(C[i])
    <3>1. C[i] = <<Backslash, Backslash>> \o C[i + 2]
      BY <2>3, <2>6, CopyCases
    <3>2. i + 1 # q
      BY <1>0, <2>6, Chars
    <3>3. Closed(C[i + 2])
      BY <2>1, <2>3, <3>2
    <3> QED BY <3>1, <3>3, ClosedPair
  <2>7. ASSUME text[i] = Backslash /\ text[i + 1] \notin {"n", Backslash} PROVE Closed(C[i])
    <3>1. C[i] = C[i + 1]
      BY <2>3, <2>7, CopyCases
    <3> QED BY <2>1, <3>1
  <2>8. Closed(C[i])
    BY <2>4, <2>5, <2>6, <2>7
  <2> QED BY <2>1, <2>3, <2>8 DEF S
<1>4. p + 1 \in Int /\ q \in Int
  OBVIOUS
<1> HIDE DEF S
<1>5. \A i \in p + 1 .. q : i \in S
  <2> DEFINE m == p + 1
  <2>1. m \in Int /\ \A i \in m .. q - 1 : i + 1 \in S => i \in S
    BY <1>3
  <2> HIDE DEF m
  <2>2. \A i \in m .. q : i \in S
    BY <1>2, <2>1, Downwards
  <2> QED BY <2>2 DEF m
<1> QED BY <1>5 DEF S

\* The string that is copied.
LEMMA CopyIs ==
  ASSUME text \in Strings, NEW p \in Nat, NEW q \in Nat, StringAt(p, q), NEW C, Copies(C, p, q)
  PROVE  C[p] = <<Quote>> \o C[p + 1] /\ Closed(C[p + 1]) /\ C[p] \in Strings /\ C[p] # <<>>
<1>1. p \in p .. q /\ p + 1 \in p + 1 .. q /\ text[p] = Quote
  BY DEF StringAt
<1>2. C[p] = <<Quote>> \o C[p + 1]
  BY <1>1, CopyCases, Chars
<1>3. Closed(C[p + 1]) /\ C[p + 1] \in Strings
  BY <1>1, CopyClosed DEF Closed
<1>4. C[p] \in Strings /\ Len(C[p]) = Len(C[p + 1]) + 1 /\ Len(C[p + 1]) \in Nat
  BY <1>2, <1>3, OneBefore DEF Strings, Characters
<1>5. C[p] # <<>>
  BY <1>4
<1> QED BY <1>2, <1>3, <1>4, <1>5

\* The scanner finds the string that the tokenizer copies.
LEMMA ScanCopy ==
  ASSUME text \in Strings, NEW p \in Nat, NEW q \in Nat, StringAt(p, q), NEW C, Copies(C, p, q),
         NEW f, NEW l, Is(Scans[p], f, "string", <<Quote>>, l)
  PROVE  Is(Scans[q], With(f, C[p], l), "code", <<>>, l)
<1> DEFINE Half(k) ==
             \E m \in {"string", "escape"}, cur \in Strings :
               /\ Is(Scans[k], f, m, cur, l)
               /\ m = "string" => cur \o C[k + 1] = C[p]
               /\ m = "escape" => text[k] = Backslash /\ cur \o C[k] = C[p]
           S == {k \in p .. q - 1 : Half(k)}
<1>0. /\ 1 <= p /\ p < q /\ q <= Len(text) /\ Len(text) \in Nat
      /\ text[q] = Quote
  BY DEF StringAt, Strings
<1>1. p \in S
  <2>1. <<Quote>> \in Strings /\ <<Quote>> \o C[p + 1] = C[p]
    BY SmallSeqs, CopyIs
  <2>2. Half(p)
    BY <2>1
  <2> HIDE DEF Half
  <2> QED BY <1>0, <2>2
<1>2. \A k \in p .. (q - 1) - 1 : k \in S => k + 1 \in S
  <2> SUFFICES ASSUME NEW k \in p .. (q - 1) - 1, k \in S PROVE k + 1 \in S
    OBVIOUS
  <2>1. /\ k + 1 \in 1 .. Len(text) /\ k + 1 \in p + 1 .. q - 1 /\ k + 1 \in p .. q - 1 /\ k + 1 \in p .. q
        /\ k \in p .. q /\ (k + 1) + 1 = k + 2 /\ k + 2 \in p + 1 .. q /\ k + 1 \in p + 1 .. q
    BY <1>0
  <2>2. Scans[k + 1] = Scan(Scans[k], text[k + 1])
    BY <1>0, <2>1, ScansIs
  <2>3. PICK m \in {"string", "escape"}, cur \in Strings :
               /\ Is(Scans[k], f, m, cur, l)
               /\ m = "string" => cur \o C[k + 1] = C[p]
               /\ m = "escape" => text[k] = Backslash /\ cur \o C[k] = C[p]
    OBVIOUS
  <2> DEFINE c == text[k + 1]
  <2>4. c \in Characters \ {Quote, "^", Newline}
    BY <2>1, InAll DEF StringAt
  <2>5. C[k + 2] \in Strings /\ C[k + 1] \in Strings
    BY <2>1, CopyClosed DEF Closed
  <2>6. \A x \in Strings : (cur \o x) \o C[k + 2] = cur \o (x \o C[k + 2])
    BY <2>5, StringsConcat
  <2>7. <<c>> \in Strings /\ <<Backslash, c>> \in Strings /\ <<Backslash>> \in Strings
        /\ <<Backslash>> \o <<c>> = <<Backslash, c>>
    BY <2>4, SmallSeqs
  <2>s. cur \o <<c>> \in Strings /\ cur \o <<Backslash, c>> \in Strings
    BY <2>7 DEF Strings
  <2>9. c # Backslash => C[k + 1] = <<c>> \o C[k + 2]
    <3> DEFINE i == k + 1
    <3>1. text[i] # Backslash => C[i] = <<text[i]>> \o C[i + 1]
      <4>1. i \in p .. q
        BY <2>1
      <4> HIDE DEF i
      <4> QED BY <4>1, CopyCases
    <3> QED BY <2>1, <3>1
  <2>10. CASE c = Backslash /\ m = "string"
    <3>1. Is(Scans[k + 1], f, "escape", cur, l)
      BY <2>2, <2>3, <2>4, <2>10, InString
    <3>2. Half(k + 1)
      BY <2>3, <2>10, <3>1
    <3> HIDE DEF Half
    <3> QED BY <2>1, <3>2
  <2>11. CASE c = "n" /\ m = "escape"
    <3>1. Is(Scans[k + 1], f, "string", cur \o <<Backslash, c>>, l)
      BY <2>2, <2>3, <2>4, <2>11, InString
    <3>2. C[k] = <<Backslash>> \o C[k + 1]
      <4>1. k \in p .. q /\ text[k] = Backslash /\ text[k + 1] = "n"
        BY <2>1, <2>3, <2>11
      <4> QED BY <4>1, CopyEscape
    <3>3. C[k] = <<Backslash, c>> \o C[k + 2]
      <4>1. C[k + 1] = <<c>> \o C[k + 2]
        BY <2>9, <2>11, Chars
      <4>2. <<Backslash>> \o (<<c>> \o C[k + 2]) = <<Backslash, c>> \o C[k + 2]
        BY <2>4, <2>5, BackslashThen
      <4> QED BY <3>2, <4>1, <4>2
    <3>4. (cur \o <<Backslash, c>>) \o C[(k + 1) + 1] = C[p]
      BY <2>1, <2>3, <2>6, <2>7, <2>11, <3>3
    <3>5. Half(k + 1)
      BY <2>s, <3>1, <3>4
    <3> HIDE DEF Half
    <3> QED BY <2>1, <3>5
  <2>12. CASE c = Backslash /\ m = "escape"
    <3>1. Is(Scans[k + 1], f, "string", cur \o <<Backslash, c>>, l)
      BY <2>2, <2>3, <2>4, <2>12, InString
    <3>2. C[k] = <<Backslash, c>> \o C[k + 2]
      <4>1. k \in p .. q /\ text[k] = Backslash /\ text[k + 1] = Backslash /\ c = Backslash
        BY <2>1, <2>3, <2>12
      <4>2. C[k] = <<Backslash, Backslash>> \o C[k + 2]
        BY <4>1, CopyPair
      <4> QED BY <4>1, <4>2
    <3>4. (cur \o <<Backslash, c>>) \o C[(k + 1) + 1] = C[p]
      BY <2>1, <2>3, <2>6, <2>7, <2>12, <3>2
    <3>5. Half(k + 1)
      BY <2>s, <3>1, <3>4
    <3> HIDE DEF Half
    <3> QED BY <2>1, <3>5
  <2>13. CASE c # Backslash /\ (m = "escape" => c # "n")
    <3>1. Is(Scans[k + 1], f, "string", cur \o <<c>>, l)
      BY <2>2, <2>3, <2>4, <2>13, InString
    <3>2. cur \o C[k + 1] = C[p]
      BY <2>1, <2>3, <2>13, CopyCases
    <3>4. (cur \o <<c>>) \o C[(k + 1) + 1] = C[p]
      BY <2>1, <2>6, <2>7, <2>9, <2>13, <3>2
    <3>5. Half(k + 1)
      BY <2>s, <3>1, <3>4
    <3> HIDE DEF Half
    <3> QED BY <2>1, <3>5
  <2> QED BY <2>3, <2>10, <2>11, <2>12, <2>13
<1>3. q - 1 \in S
  <2> HIDE DEF S
  <2> DEFINE n == q - 1
  <2>1. n \in Int /\ (\A k \in p .. n - 1 : k \in S => k + 1 \in S) /\ p <= n
    BY <1>0, <1>2
  <2> HIDE DEF n
  <2>2. \A k \in p .. n : k \in S
    BY <1>1, <2>1, Upwards
  <2>3. n \in S
    BY <2>1, <2>2
  <2> QED BY <2>3 DEF n
<1>4. PICK m \in {"string", "escape"}, cur \in Strings :
               /\ Is(Scans[q - 1], f, m, cur, l)
               /\ m = "string" => cur \o C[(q - 1) + 1] = C[p]
               /\ m = "escape" => text[q - 1] = Backslash /\ cur \o C[q - 1] = C[p]
  BY <1>3
<1>5. Scans[q] = Scan(Scans[q - 1], Quote) /\ Quote \in Characters
  BY <1>0, ScansIs
<1>6. C[q] = <<Quote>>
  <2>1. C[q + 1] = <<>> /\ C[q] = <<Quote>> \o C[q + 1]
    <3>1. C[q + 1] = <<>>
      <4>1. p <= q
        BY <1>0
      <4> QED BY <1>0, <4>1, CopyLast
    <3>2. text[q] = Quote /\ text[q] # Backslash
      BY <1>0, Chars
    <3>3. q \in p .. q
      BY <1>0
    <3>4. C[q] = <<text[q]>> \o C[q + 1]
      BY <1>0, <3>2, <3>3, CopyCases
    <3> QED BY <3>1, <3>2, <3>4
  <2>2. <<Quote>> \o <<>> = <<Quote>>
    BY SmallSeqs, ConcatEmptySeq DEF Strings
  <2> QED BY <2>1, <2>2
<1>7. cur \o <<Quote>> = C[p]
  <2>1. (q - 1) + 1 = q /\ q - 1 \in p .. q
    BY <1>0
  <2>2. CASE m = "string"
    BY <1>4, <1>6, <2>1, <2>2
  <2>3. CASE m = "escape"
    <3>1. text[(q - 1) + 1] \notin {"n", Backslash}
      BY <1>0, <2>1, Chars
    <3>2. C[q - 1] = C[(q - 1) + 1]
      BY <1>4, <2>1, <2>3, <3>1, CopyCases
    <3> QED BY <1>4, <1>6, <2>1, <2>3, <3>2
  <2> QED BY <2>2, <2>3
<1> QED BY <1>4, <1>5, <1>7, InString

(***************************************************************************)
(* Where the scanner is when the tokenizer comes to a token.               *)
(***************************************************************************)
\* The types, in the form the proofs use.
LEMMA TypesAre ==
  ASSUME TokenizeTypes
  PROVE  /\ text \in Strings /\ Len(text) \in Nat
         /\ eol \in Nat /\ eol <= Len(text) + 1 /\ instr \in Nat /\ instr <= eol
         /\ \A i \in 1 .. Len(text) : text[i] \in Characters
         /\ tokens \in Seq(Tok) /\ Len(tokens) \in Nat /\ lineno \in Nat /\ MaxTokens \in Nat
BY TokenizeAssumption DEF TokenizeTypes, Strings

\* Nothing to read before the first line.
LEMMA NoLine ==
  ASSUME TokenizeTypes, Reading
  PROVE  eol > 0
<1>1. instr <= eol /\ eol \in Nat /\ instr \in Nat
  BY TypesAre
<1>2. FirstOf(instr, eol, {c \in Characters : ~ isspace(c)}) \in instr .. eol
  BY <1>1, FirstOfIs
<1> QED BY <1>1, <1>2 DEF Reading, Start

\* What is known of the place where the next token starts.
LEMMA StartIs ==
  ASSUME TokenizeTypes, InLine, eol > 0
  PROVE  /\ instr >= 1 /\ Start \in Nat /\ instr <= Start /\ Start <= eol
         /\ AllIn(instr, Start - 1, {Space})
         /\ Start < eol => text[Start] \in Characters \ {Space, Newline}
         /\ \A i \in instr .. eol - 1 : text[i] \in Characters \ {Newline}
         /\ eol <= Len(text) => text[eol] = Newline
<1> DEFINE C == {c \in Characters : ~ isspace(c)}
<1>0. /\ instr <= eol /\ eol \in Nat /\ instr \in Nat /\ Len(text) \in Nat /\ eol <= Len(text) + 1
      /\ \A i \in 1 .. Len(text) : text[i] \in Characters
  BY TypesAre
<1>1. /\ instr > 0 /\ \A i \in instr .. eol - 1 : text[i] # Newline
      /\ eol <= Len(text) => text[eol] = Newline
  BY <1>0 DEF InLine
<1>2. \A i \in instr .. eol - 1 : text[i] \in Characters \ {Newline}
  BY <1>0, <1>1
<1>3. /\ FirstOf(instr, eol, C) \in instr .. eol
      /\ FirstOf(instr, eol, C) = eol \/ text[FirstOf(instr, eol, C)] \in C
      /\ \A k \in instr .. FirstOf(instr, eol, C) - 1 : text[k] \notin C
  <2>1. instr \in Int /\ eol \in Int /\ instr <= eol
    BY <1>0
  <2> HIDE DEF C
  <2> QED BY <2>1, FirstOfIs
<1>4. /\ Start \in instr .. eol
      /\ Start = eol \/ text[Start] \in C
      /\ \A k \in instr .. Start - 1 : text[k] \notin C
  BY <1>3 DEF Start
<1>5. AllIn(instr, Start - 1, {Space})
  <2>1. ASSUME NEW k \in instr .. Start - 1 PROVE text[k] \in {Space}
    <3>1. text[k] \in Characters \ {Newline}
      BY <1>0, <1>2, <1>4
    <3>2. text[k] \notin C
      BY <1>4
    <3> QED BY <3>1, <3>2 DEF isspace
  <2> QED BY <2>1 DEF AllIn
<1>6. Start < eol => text[Start] \in Characters \ {Space, Newline}
  <2>1. \A c \in C : c \in Characters \ {Space, Newline}
    BY DEF isspace
  <2> HIDE DEF C
  <2> QED BY <1>0, <1>4, <2>1
<1> HIDE DEF C
<1>7. Start \in Nat /\ instr <= Start /\ Start <= eol
  BY <1>0, <1>4
<1> QED BY <1>0, <1>1, <1>2, <1>5, <1>6, <1>7

\* The scanner when it comes to a token.
AtToken(f, cur) ==
  /\ Is(Scans[Start - 1], f, "code", cur, lineno)
  /\ IsPrefix(With(f, cur, lineno), tokens)
  /\ tokens # With(f, cur, lineno) => text[Start] = "."
  /\ cur # <<>> => text[Start] \in WordEnders

\* It has found what the tokenizer has found.
LEMMA ComesToToken ==
  ASSUME TokenizeTypes, InLine, Reading, ScannerAgrees(Scans[instr - 1])
  PROVE  \E f, cur : AtToken(f, cur)
<1> DEFINE r == Scans[instr - 1]
           f == r.found
           cur == r.current
           w == With(f, cur, lineno)
<1>1. eol > 0 /\ Start < eol
  BY NoLine DEF Reading
<1>2. /\ instr >= 1 /\ Start \in Nat /\ instr <= Start /\ Start <= eol
      /\ AllIn(instr, Start - 1, {Space})
      /\ text[Start] \in Characters \ {Space, Newline}
  BY <1>1, StartIs
<1>3. /\ text \in Strings /\ Len(text) \in Nat /\ eol \in Nat /\ eol <= Len(text) + 1 /\ instr \in Nat
  BY TypesAre
<1>4. instr - 1 \in 0 .. Len(text)
  BY <1>1, <1>2, <1>3
<1>5. Is(r, f, "code", cur, lineno)
  <2>1. r \in Scanners
    BY <1>3, <1>4, ScansType
  <2>2. r.lineno = lineno /\ r.mode = "code"
    BY <1>1, <1>2, <1>3 DEF ScannerAgrees
  <2> QED BY <2>1, <2>2 DEF Is
<1>6. /\ cur # <<>> => CharAt(instr) \in WordEnders
      /\ IsPrefix(w, tokens) /\ (tokens # w => CharAt(instr) = ".")
  <2>1. FoundBy(r) = w
    BY <1>5, FoundByIs
  <2> QED BY <2>1 DEF ScannerAgrees
<1>7. CASE Start = instr
  <2>1. CharAt(instr) = text[Start]
    BY <1>1, <1>7 DEF CharAt
  <2>2. AtToken(f, cur)
    BY <1>5, <1>6, <1>7, <2>1 DEF AtToken
  <2> HIDE DEF f, cur
  <2> QED BY <2>2
<1>8. CASE Start > instr
  <2>1. text[instr] = Space
    <3>1. instr \in instr .. Start - 1
      BY <1>2, <1>3, <1>8
    <3>2. text[instr] \in {Space}
      BY <1>2, <3>1, InAll
    <3> QED BY <3>2
  <2>2. CharAt(instr) = Space
    BY <1>1, <1>2, <1>3, <1>8, <2>1 DEF CharAt
  <2>3. tokens = w /\ IsPrefix(w, tokens)
    <3>1. Space # "."
      BY Chars
    <3> HIDE DEF w
    <3> QED BY <1>6, <2>2, <3>1
  <2>4. Is(Scans[Start - 1], w, "code", <<>>, lineno)
    <3>1. instr \in Nat /\ Start - 1 \in Nat /\ 1 <= instr /\ instr <= Start - 1 /\ Start - 1 <= Len(text)
      BY <1>1, <1>2, <1>3, <1>8
    <3> HIDE DEF w, r
    <3>2. Is(Scans[Start - 1], With(f, cur, lineno), "code", <<>>, lineno)
      <4> HIDE DEF f, cur
      <4>1. Is(Scans[instr - 1], f, "code", cur, lineno)
        BY <1>5 DEF r
      <4> QED BY <1>2, <1>3, <3>1, <4>1, PassSpaces
    <3> QED BY <3>2 DEF w
  <2>5. With(w, <<>>, lineno) = w
    BY DEF With
  <2>6. AtToken(w, <<>>)
    <3> HIDE DEF w
    <3> QED BY <2>3, <2>4, <2>5 DEF AtToken
  <2> HIDE DEF w
  <2> QED BY <2>6
<1> QED BY <1>2, <1>3, <1>7, <1>8

\* The scanner when it comes to the end of a line that has no more tokens.
LEMMA ComesToEnd ==
  ASSUME TokenizeTypes, InLine, eol > 0, Start = eol, ScannerAgrees(Scans[instr - 1])
  PROVE  \E f, cur, m : /\ Is(Scans[eol - 1], f, m, cur, lineno)
                        /\ m = "code" \/ (m = "comment" /\ cur = <<>>)
                        /\ tokens = With(f, cur, lineno)
<1> DEFINE r == Scans[instr - 1]
           f == r.found
           cur == r.current
           m == r.mode
           w == With(f, cur, lineno)
<1>2. /\ instr >= 1 /\ Start \in Nat /\ instr <= Start
      /\ AllIn(instr, Start - 1, {Space})
  BY StartIs
<1>3. /\ text \in Strings /\ Len(text) \in Nat /\ eol \in Nat /\ eol <= Len(text) + 1 /\ instr \in Nat
  BY TypesAre
<1>4. instr - 1 \in 0 .. Len(text)
  BY <1>2, <1>3
<1>5. Is(r, f, m, cur, lineno) /\ (m = "code" \/ (m = "comment" /\ cur = <<>> /\ instr = eol))
  <2>1. r \in Scanners
    BY <1>3, <1>4, ScansType
  <2> QED BY <2>1 DEF ScannerAgrees, Is
<1>6. IsPrefix(w, tokens) /\ (tokens # w => CharAt(instr) = ".")
  <2>1. FoundBy(r) = w
    BY <1>5, FoundByIs
  <2> QED BY <2>1 DEF ScannerAgrees
<1>7. CASE instr = eol
  <2>1. CharAt(instr) = Newline
    BY <1>3, <1>7 DEF CharAt
  <2>2. tokens = w
    <3> HIDE DEF w
    <3> QED BY <1>6, <2>1, Chars
  <2>3. Is(Scans[eol - 1], f, m, cur, lineno) /\ (m = "code" \/ (m = "comment" /\ cur = <<>>))
    BY <1>5, <1>7
  <2> HIDE DEF f, m, cur
  <2> QED BY <2>2, <2>3
<1>8. CASE instr < eol
  <2>1. text[instr] = Space
    <3>1. instr \in instr .. Start - 1
      BY <1>2, <1>3, <1>8
    <3>2. text[instr] \in {Space}
      BY <1>2, <3>1, InAll
    <3> QED BY <3>2
  <2>2. CharAt(instr) = Space
    BY <1>2, <1>3, <1>8, <2>1 DEF CharAt
  <2>3. tokens = w
    <3>1. Space # "."
      BY Chars
    <3> HIDE DEF w
    <3> QED BY <1>6, <2>2, <3>1
  <2>4. Is(Scans[eol - 1], w, "code", <<>>, lineno)
    <3>0. m = "code"
      BY <1>5, <1>8, <1>3
    <3>1. instr \in Nat /\ eol - 1 \in Nat /\ 1 <= instr /\ instr <= eol - 1 /\ eol - 1 <= Len(text)
      BY <1>2, <1>3, <1>8
    <3> HIDE DEF w, r, m
    <3>2. Is(Scans[eol - 1], With(f, cur, lineno), "code", <<>>, lineno)
      <4> HIDE DEF f, cur
      <4>1. Is(Scans[instr - 1], f, "code", cur, lineno)
        BY <1>5, <3>0 DEF r
      <4>2. AllIn(instr, eol - 1, {Space})
        BY <1>2
      <4> QED BY <4>2, <1>3, <3>1, <4>1, PassSpaces
    <3> QED BY <3>2 DEF w
  <2>5. With(w, <<>>, lineno) = w
    BY DEF With
  <2> HIDE DEF w
  <2> QED BY <2>3, <2>4, <2>5
<1> QED BY <1>3, <1>7, <1>8, TypesAre

(***************************************************************************)
(* A token is found, or the tokenizer stops.                               *)
(***************************************************************************)
\* The scanner depends on nothing but the file.
LEMMA SameText ==
  ASSUME text' = text
  PROVE  Scans' = Scans /\ Scanned' = Scanned
<1>1. Scans' = Scans
  BY DEF Scans
<1> QED BY <1>1 DEF Scanned, AtEnd

\* What does not begin with a quote is no string.
LEMMA NoString ==
  ASSUME NEW str \in Strings, str # <<>> => str[1] # Quote
  PROVE  Escaped(str)
<1>1. str # <<>> => Head(str) = str[1]
  BY DEF Strings
<1> QED BY <1>1 DEF Escaped

\* A quote, and what is closed, is a string as the assembler wants it.
LEMMA ClosedString ==
  ASSUME NEW u, Closed(u)
  PROVE  Escaped(<<Quote>> \o u)
<1> DEFINE t == <<Quote>> \o u
<1>1. u \in Strings /\ Len(u) \in Nat /\ Len(u) > 0
  BY DEF Closed, Strings
<1>2. /\ t \in Strings /\ Len(t) = Len(u) + 1 /\ t[1] = Quote
      /\ \A i \in 2 .. Len(u) + 1 : t[i] = u[i - 1]
  BY <1>1, OneBefore DEF Characters
<1>3. DOMAIN t = 1 .. Len(u) + 1
  BY <1>2 DEF Strings
<1> HIDE DEF t
<1>4. Len(t) > 1 /\ \A i \in DOMAIN t : t[i] = Quote <=> i \in {1, Len(t)}
  <2>1. \A i \in 1 .. Len(u) : u[i] = Quote <=> i = Len(u)
    BY DEF Closed
  <2> QED BY <1>1, <1>2, <1>3, <2>1
<1>5. ASSUME NEW a \in 2 .. Len(t) - 1, NEW b \in 2 .. Len(t) - 1, a <= b,
             \A m \in a .. b : t[m] = Backslash, t[a - 1] # Backslash, t[b + 1] # Backslash
      PROVE  (b - a + 1) % 2 = 0 \/ t[b + 1] = "n"
  <2>2. a - 1 \in 1 .. Len(u) - 1 /\ b - 1 \in 1 .. Len(u) - 1 /\ a - 1 <= b - 1
    BY <1>1, <1>2, <1>5
  <2>3. Run(u, a - 1, b - 1)
    <3>1. ASSUME NEW m \in a - 1 .. b - 1 PROVE u[m] = Backslash
      <4>1. m + 1 \in a .. b /\ m + 1 \in 2 .. Len(u) + 1 /\ (m + 1) - 1 = m
        BY <1>1, <1>2, <2>2
      <4> QED BY <1>2, <1>5, <4>1
    <3>2. a - 1 = 1 \/ u[(a - 1) - 1] # Backslash
      <4>1. CASE a > 2
        <5>1. a - 1 \in 2 .. Len(u) + 1 /\ t[a - 1] # Backslash
          BY <1>1, <1>2, <1>5, <4>1
        <5> QED BY <1>2, <5>1
      <4> QED BY <2>2, <4>1
    <3>3. u[(b - 1) + 1] # Backslash
      <4>1. b + 1 \in 2 .. Len(u) + 1 /\ (b + 1) - 1 = (b - 1) + 1
        BY <1>1, <1>2
      <4> QED BY <1>2, <1>5, <4>1
    <3> QED BY <3>1, <3>2, <3>3 DEF Run
  <2>4. Paired(u, a - 1, b - 1)
    BY <2>2, <2>3 DEF Closed
  <2>5. t[b + 1] = u[(b - 1) + 1] /\ (b - 1) - (a - 1) + 1 = b - a + 1
    <3>1. b + 1 \in 2 .. Len(u) + 1 /\ (b + 1) - 1 = (b - 1) + 1
      BY <1>1, <1>2
    <3> QED BY <1>2, <3>1
  <2> QED BY <2>4, <2>5 DEF Paired
<1>6. Escaped(t)
  BY <1>4, <1>5 DEF Escaped
<1> QED BY <1>6 DEF t

\* A token has been found: what the scanner has found when it comes to rest.
LEMMA FoundKeeps ==
  ASSUME TokenizeInv, Reading, NEW str \in Strings, NEW rest \in Nat, Found(str, rest),
         instr <= rest, rest <= eol, Escaped(str),
         NEW f, NEW m, NEW cur, Is(Scans[rest - 1], f, m, cur, lineno),
         m = "code" \/ (m = "comment" /\ cur = <<>> /\ rest = eol),
         cur # <<>> => CharAt(rest) \in WordEnders,
         IsPrefix(With(f, cur, lineno), Append(tokens, [str |-> str, lineno |-> lineno])),
         \/ Append(tokens, [str |-> str, lineno |-> lineno]) = With(f, cur, lineno)
         \/ CharAt(rest) = "."
  PROVE  TokenizeInv'
<1> DEFINE token == [str |-> str, lineno |-> lineno]
<1>0. TokenizeTypes /\ InLine /\ ScannerAgrees(Scans[instr - 1]) /\ StringsEscaped /\ eol > 0
  BY NoLine DEF TokenizeInv, Reading
<1>1. /\ text' = text /\ eol' = eol /\ lineno' = lineno /\ status' = "reading" /\ instr' = rest
      /\ tokens' = Append(tokens, token) /\ Len(tokens) < MaxTokens
  BY DEF Found, Reading
<1>2. /\ text \in Strings /\ Len(text) \in Nat
      /\ eol \in Nat /\ eol <= Len(text) + 1 /\ instr \in Nat /\ instr <= eol
      /\ tokens \in Seq(Tok) /\ Len(tokens) \in Nat /\ lineno \in Nat /\ MaxTokens \in Nat
  BY <1>0, TypesAre
<1>3. token \in Tok
  BY <1>2 DEF Tok
<1>4. /\ tokens' \in Seq(Tok) /\ Len(tokens') = Len(tokens) + 1
      /\ \A k \in 1 .. Len(tokens) : tokens'[k] = tokens[k]
      /\ tokens'[Len(tokens) + 1] = token
  <2> HIDE DEF token
  <2> QED BY <1>1, <1>2, <1>3, AppendProperties
<1>5. TokenizeTypes'
  BY <1>0, <1>1, <1>2, <1>4 DEF TokenizeTypes
<1>6. InLine'
  BY <1>0, <1>1, <1>2 DEF InLine
<1>7. ScannerAgrees(Scans[instr - 1])'
  <2>1. (Scans[instr - 1])' = Scans[rest - 1]
    BY <1>1, SameText
  <2>2. FoundBy(Scans[rest - 1]) = With(f, cur, lineno)
    BY FoundByIs
  <2>3. CharAt(instr)' = CharAt(rest)
    BY <1>1 DEF CharAt
  <2>4. /\ Scans[rest - 1].lineno = lineno /\ Scans[rest - 1].mode = m /\ Scans[rest - 1].current = cur
    BY DEF Is
  <2> QED BY <1>1, <2>1, <2>2, <2>3, <2>4 DEF ScannerAgrees
<1>8. EndAgrees'
  BY <1>1 DEF EndAgrees
<1>9. StringsEscaped'
  <2>1. \A k \in DOMAIN tokens : Escaped(tokens[k].str)
    BY <1>0 DEF StringsEscaped
  <2>2. DOMAIN tokens = 1 .. Len(tokens) /\ DOMAIN tokens' = 1 .. Len(tokens) + 1
    BY <1>2, <1>4
  <2>3. ASSUME NEW k \in DOMAIN tokens' PROVE Escaped(tokens'[k].str)
    <3>1. CASE k \in 1 .. Len(tokens)
      BY <1>4, <2>1, <2>2, <3>1
    <3>2. CASE k = Len(tokens) + 1
      BY <1>4, <3>2
    <3> QED BY <1>2, <2>2, <3>1, <3>2
  <2>4. StringsEscaped' <=> \A k \in DOMAIN tokens' : Escaped(tokens'[k].str)
    BY DEF StringsEscaped
  <2> QED BY <2>3, <2>4
<1> QED BY <1>1, <1>5, <1>6, <1>7, <1>8, <1>9 DEF TokenizeInv

\* The tokenizer has stopped.
LEMMA StopKeeps ==
  ASSUME TokenizeInv, NEW how \in {"done", "unterminated", "malformed", "exhausted"}, Stop(how),
         \/ how = Scanned.mode /\ tokens = Scanned.found
         \/ /\ how = "exhausted" /\ Len(tokens) = MaxTokens
            /\ \/ IsPrefix(tokens, Scanned.found)
               \/ Scanned.mode = "exhausted" /\ IsPrefix(Scanned.found, tokens)
  PROVE  TokenizeInv'
<1>1. /\ text' = text /\ eol' = eol /\ lineno' = lineno /\ status' = how /\ instr' = instr
      /\ tokens' = tokens
  BY DEF Stop
<1>2. TokenizeTypes' /\ InLine' /\ StringsEscaped'
  <2>1. TokenizeTypes'
    BY <1>1 DEF TokenizeInv, TokenizeTypes
  <2>2. InLine'
    BY <1>1 DEF TokenizeInv, InLine
  <2>3. StringsEscaped'
    <3>1. \A k \in DOMAIN tokens : Escaped(tokens[k].str)
      BY DEF TokenizeInv, StringsEscaped
    <3>2. StringsEscaped' <=> \A k \in DOMAIN tokens' : Escaped(tokens'[k].str)
      BY DEF StringsEscaped
    <3> QED BY <1>1, <3>1, <3>2
  <2> QED BY <2>1, <2>2, <2>3
<1>3. Scanned' = Scanned
  BY <1>1, SameText
<1>4. EndAgrees'
  BY <1>1, <1>3 DEF EndAgrees
<1> QED BY <1>1, <1>2, <1>4 DEF TokenizeInv

\* The scanner has stopped too.
LEMMA EndedScanned ==
  ASSUME text \in Strings, NEW k \in 0 .. Len(text), Scans[k].mode \in Ends
  PROVE  Scanned = Scans[k]
<1>1. Scans[Len(text)] = Scans[k]
  BY EndedStays
<1> QED BY <1>1 DEF Scanned, AtEnd, Ends

(***************************************************************************)
(* The steps of the tokenizer.                                             *)
(***************************************************************************)
\* What holds when a token is to be read.
LEMMA TokenAhead ==
  ASSUME TokenizeInv, Reading
  PROVE  /\ text \in Strings /\ Len(text) \in Nat /\ tokens \in Seq(Tok) /\ lineno \in Nat
         /\ instr \in Nat /\ Start \in Nat /\ eol \in Nat
         /\ 1 <= instr /\ instr <= Start /\ Start < eol /\ eol <= Len(text) + 1
         /\ text[Start] \in Characters \ {Space, Newline}
         /\ \A i \in instr .. eol - 1 : text[i] \in Characters \ {Newline}
         /\ eol <= Len(text) => text[eol] = Newline
         /\ Scans[Start] = Scan(Scans[Start - 1], text[Start])
         /\ \E f \in Seq(Tok), cur \in Strings : AtToken(f, cur)
<1>0. TokenizeTypes /\ InLine /\ ScannerAgrees(Scans[instr - 1]) /\ eol > 0 /\ Start < eol
  BY NoLine DEF TokenizeInv, Reading
<1>1. /\ text \in Strings /\ Len(text) \in Nat /\ tokens \in Seq(Tok) /\ lineno \in Nat
      /\ instr \in Nat /\ eol \in Nat /\ eol <= Len(text) + 1
  BY <1>0, TypesAre
<1>2. /\ 1 <= instr /\ instr <= Start /\ Start \in Nat
      /\ text[Start] \in Characters \ {Space, Newline}
      /\ \A i \in instr .. eol - 1 : text[i] \in Characters \ {Newline}
      /\ eol <= Len(text) => text[eol] = Newline
  BY <1>0, StartIs
<1>3. Scans[Start] = Scan(Scans[Start - 1], text[Start])
  <2>1. Start \in 1 .. Len(text)
    BY <1>0, <1>1, <1>2
  <2> QED BY <1>1, <2>1, ScansIs
<1>4. PICK f, cur : AtToken(f, cur)
  BY <1>0, ComesToToken
<1>5. f \in Seq(Tok) /\ cur \in Strings
  BY <1>4 DEF AtToken, Is, Scanners
<1> QED BY <1>0, <1>1, <1>2, <1>3, <1>4, <1>5

\* Tokens with one more.
LEMMA AppendIsWith ==
  ASSUME NEW f, NEW str, str # <<>>, NEW l
  PROVE  Append(f, [str |-> str, lineno |-> l]) = With(f, str, l)
BY DEF With

\* Nothing is found when there is no word under way.
LEMMA WithEmpty ==
  ASSUME NEW f, NEW l
  PROVE  With(f, <<>>, l) = f
BY DEF With

\* A token of one character.
LEMMA OneLiteral ==
  ASSUME NEW c \in Characters
  PROVE  <<c>> \in Strings /\ <<c>> # <<>> /\ <<c>>[1] = c
<1>1. <<c>> \in Strings /\ Len(<<c>>) = 1 /\ <<c>>[1] = c
  BY SmallSeqs
<1> QED BY <1>1

\* A literal is found as it is.
LEMMA LiteralKeeps ==
  ASSUME TokenizeInv, Literal
  PROVE  TokenizeInv'
<1> DEFINE c == text[Start]
           l == lineno
<1>1. Reading /\ c \in {"EXECUTE", ".DIE", "("} /\ Found(<<c>>, Start + 1)
  BY DEF Literal, Token
<1>2. /\ text \in Strings /\ Len(text) \in Nat /\ tokens \in Seq(Tok) /\ lineno \in Nat
      /\ instr \in Nat /\ Start \in Nat /\ eol \in Nat
      /\ instr <= Start /\ Start < eol
      /\ c \in Characters
      /\ Scans[Start] = Scan(Scans[Start - 1], c)
  BY <1>1, TokenAhead
<1>3. PICK f \in Seq(Tok), cur \in Strings : AtToken(f, cur)
  BY <1>1, TokenAhead
<1>4. <<c>> \in Strings /\ <<c>> # <<>> /\ <<c>>[1] = c
  <2> HIDE DEF c
  <2> QED BY <1>2, OneLiteral
<1>5. tokens = With(f, cur, l)
  <2>1. c # "."
    BY <1>1
  <2> QED BY <1>3, <2>1 DEF AtToken
<1>6. Is(Scans[Start], With(tokens, <<c>>, l), "code", <<>>, l)
  <2>0. Is(Scans[Start - 1], f, "code", cur, l)
    BY <1>3 DEF AtToken
  <2>1. CASE c = "EXECUTE"
    <3>1. cur = <<>>
      <4>1. c \notin WordEnders
        BY <2>1, Chars DEF WordEnders
      <4> QED BY <1>3, <4>1 DEF AtToken
    <3>2. tokens = f
      BY <1>5, <3>1, WithEmpty
    <3> HIDE DEF c, l
    <3> QED BY <1>2, <2>0, <2>1, <3>1, <3>2, InCode
  <2>2. CASE c \in {"(", ".DIE"}
    <3> HIDE DEF c, l
    <3> QED BY <1>2, <1>5, <2>0, <2>2, InCode
  <2> QED BY <1>1, <2>1, <2>2
<1>7. Escaped(<<c>>)
  <2>1. c # Quote
    BY <1>1, Chars
  <2> HIDE DEF c
  <2> QED BY <1>4, <2>1, NoString
<1>8. Append(tokens, [str |-> <<c>>, lineno |-> l]) = With(tokens, <<c>>, l)
  <2> HIDE DEF c, l
  <2> QED BY <1>4, AppendIsWith
<1>9. /\ With(With(tokens, <<c>>, l), <<>>, l) = With(tokens, <<c>>, l)
      /\ IsPrefix(With(tokens, <<c>>, l), With(tokens, <<c>>, l))
  <2>1. With(tokens, <<c>>, l) \in Seq(Tok)
    <3> HIDE DEF c
    <3> QED BY <1>2, <1>4, WithType
  <2> HIDE DEF c, l
  <2> QED BY <2>1, WithEmpty, PrefixSelf
<1>10. /\ Start + 1 \in Nat /\ instr <= Start + 1 /\ Start + 1 <= eol
       /\ Is(Scans[(Start + 1) - 1], With(tokens, <<c>>, l), "code", <<>>, l)
  BY <1>2, <1>6
<1> DEFINE str == <<c>>
           rest == Start + 1
           g == With(tokens, <<c>>, l)
<1>11. /\ str \in Strings /\ rest \in Nat /\ Found(str, rest) /\ instr <= rest /\ rest <= eol
       /\ Escaped(str) /\ Is(Scans[rest - 1], g, "code", <<>>, lineno)
       /\ IsPrefix(With(g, <<>>, lineno), Append(tokens, [str |-> str, lineno |-> lineno]))
       /\ Append(tokens, [str |-> str, lineno |-> lineno]) = With(g, <<>>, lineno)
  BY <1>1, <1>4, <1>7, <1>8, <1>9, <1>10
<1> HIDE DEF str, rest, g
<1> QED BY <1>1, <1>11, FoundKeeps

\* The string that the tokenizer comes to.
LEMMA StringAhead ==
  ASSUME TokenizeInv, Reading, text[Start] = Quote
  PROVE  /\ StringEnd \in Nat /\ Start < StringEnd /\ StringEnd <= eol
         /\ StringEnd < eol => text[StringEnd] \in {Quote, "^"}
         /\ AllIn(Start + 1, StringEnd - 1, Characters \ {Quote, "^", Newline})
         /\ Is(Scans[Start], tokens, "string", <<Quote>>, lineno)
<1>1. /\ instr \in Nat /\ Start \in Nat /\ eol \in Nat /\ instr <= Start /\ Start < eol
      /\ text[Start] \in Characters
      /\ \A i \in instr .. eol - 1 : text[i] \in Characters \ {Newline}
      /\ Scans[Start] = Scan(Scans[Start - 1], text[Start])
  BY TokenAhead
<1>2. PICK f \in Seq(Tok), cur \in Strings : AtToken(f, cur)
  BY TokenAhead
<1>3. /\ StringEnd \in Start + 1 .. eol
      /\ StringEnd = eol \/ text[StringEnd] \in {Quote, "^"}
      /\ \A k \in Start + 1 .. StringEnd - 1 : text[k] \notin {Quote, "^"}
  <2>1. Start + 1 \in Int /\ eol \in Int /\ Start + 1 <= eol
    BY <1>1
  <2> QED BY <2>1, FirstOfIs DEF StringEnd
<1>4. AllIn(Start + 1, StringEnd - 1, Characters \ {Quote, "^", Newline})
  <2>1. ASSUME NEW k \in Start + 1 .. StringEnd - 1 PROVE text[k] \in Characters \ {Quote, "^", Newline}
    <3>1. k \in instr .. eol - 1
      BY <1>1, <1>3
    <3> QED BY <1>1, <1>3, <3>1
  <2> QED BY <2>1 DEF AllIn
<1>5. Is(Scans[Start], tokens, "string", <<Quote>>, lineno)
  <2>1. Is(Scans[Start - 1], f, "code", cur, lineno)
    BY <1>2 DEF AtToken
  <2>2. tokens = With(f, cur, lineno)
    BY <1>2, Chars DEF AtToken
  <2>3. Scans[Start] = Scan(Scans[Start - 1], Quote) /\ Quote \in Characters
    BY <1>1
  <2> QED BY <2>1, <2>2, <2>3, InCode
<1> QED BY <1>1, <1>3, <1>4, <1>5

\* A string is found, or the file refused.
LEMMA StringKeeps ==
  ASSUME TokenizeInv, String
  PROVE  TokenizeInv'
<1>1. Reading /\ text[Start] = Quote
  BY DEF String
<1>2. /\ text \in Strings /\ Len(text) \in Nat /\ tokens \in Seq(Tok) /\ lineno \in Nat
      /\ instr \in Nat /\ Start \in Nat /\ eol \in Nat
      /\ 1 <= instr /\ instr <= Start /\ Start < eol /\ eol <= Len(text) + 1
      /\ \A i \in instr .. eol - 1 : text[i] \in Characters \ {Newline}
      /\ eol <= Len(text) => text[eol] = Newline
  BY <1>1, TokenAhead
<1>3. /\ StringEnd \in Nat /\ Start < StringEnd /\ StringEnd <= eol
      /\ StringEnd < eol => text[StringEnd] \in {Quote, "^"}
      /\ AllIn(Start + 1, StringEnd - 1, Characters \ {Quote, "^", Newline})
      /\ Is(Scans[Start], tokens, "string", <<Quote>>, lineno)
  BY <1>1, StringAhead
<1>4. CASE CharAt(StringEnd) = Quote /\ Found(Copy[Start], StringEnd + 1)
  <2>1. StringEnd < eol /\ text[StringEnd] = Quote
    BY <1>2, <1>3, <1>4, Chars DEF CharAt
  <2>2. StringAt(Start, StringEnd)
    BY <1>1, <1>2, <1>3, <2>1 DEF StringAt
  <2>3. Copies(Copy, Start, StringEnd)
    <3>1. Start \in Int /\ StringEnd \in Int /\ Start <= StringEnd
      BY <1>2, <1>3
    <3> QED BY <2>1, <3>1, CopyDef DEF Copies
  <2> DEFINE C == Copy
             p == Start
             q == StringEnd
             str == C[p]
             g == With(tokens, str, lineno)
             rest == StringEnd + 1
  <2> HIDE DEF C
  <2>4. C[p] = <<Quote>> \o C[p + 1] /\ Closed(C[p + 1]) /\ C[p] \in Strings /\ C[p] # <<>>
    <3>1. p \in Nat /\ q \in Nat /\ StringAt(p, q) /\ Copies(C, p, q)
      BY <1>2, <1>3, <2>2, <2>3 DEF C
    <3> HIDE DEF p, q
    <3> QED BY <1>2, <3>1, CopyIs
  <2>5. Is(Scans[q], With(tokens, C[p], lineno), "code", <<>>, lineno)
    <3>1. p \in Nat /\ q \in Nat /\ StringAt(p, q) /\ Copies(C, p, q)
          /\ Is(Scans[p], tokens, "string", <<Quote>>, lineno)
      BY <1>2, <1>3, <2>2, <2>3 DEF C
    <3> HIDE DEF p, q
    <3> QED BY <1>2, <3>1, ScanCopy
  <2>6. Escaped(str)
    <3> HIDE DEF p
    <3> QED BY <2>4, ClosedString
  <2>7. /\ str \in Strings /\ str # <<>> /\ rest \in Nat /\ Found(str, rest) /\ instr <= rest /\ rest <= eol
        /\ Is(Scans[rest - 1], g, "code", <<>>, lineno)
    BY <1>2, <1>3, <1>4, <2>1, <2>4, <2>5 DEF C
  <2> HIDE DEF str, rest
  <2>8. Append(tokens, [str |-> str, lineno |-> lineno]) = g
    BY <2>7, AppendIsWith
  <2>9. g \in Seq(Tok)
    BY <1>2, <2>7, WithType
  <2> HIDE DEF g
  <2>10. /\ IsPrefix(With(g, <<>>, lineno), Append(tokens, [str |-> str, lineno |-> lineno]))
         /\ Append(tokens, [str |-> str, lineno |-> lineno]) = With(g, <<>>, lineno)
    BY <2>8, <2>9, WithEmpty, PrefixSelf
  <2> QED BY <1>1, <2>6, <2>7, <2>10, FoundKeeps
<1> DEFINE q == StringEnd - 1
<1>c. Unclosed(Scans[q], tokens, lineno)
  <2> DEFINE p == Start
             C == Characters \ {Quote, "^", Newline}
  <2>1. p \in Nat /\ q \in Nat /\ p <= q /\ q <= Len(text) /\ AllIn(p + 1, q, C)
    BY <1>2, <1>3
  <2>2. Unclosed(Scans[p], tokens, lineno)
    BY <1>3 DEF Unclosed
  <2>3. text \in Strings
    BY <1>2
  <2> HIDE DEF p, q
  <2> QED BY <2>1, <2>2, <2>3, PassString
<1>5. PICK m, cur : m \in {"string", "escape"} /\ Is(Scans[q], tokens, m, cur, lineno)
  BY <1>c DEF Unclosed
<1>6. CASE CharAt(StringEnd) = Newline /\ Stop("unterminated")
  <2>1. StringEnd = eol
    <3>1. CASE StringEnd < eol
      BY <1>3, <1>6, <3>1, Chars DEF CharAt
    <3> QED BY <1>2, <1>3, <3>1
  <2>2. Scanned.mode = "unterminated" /\ Scanned.found = tokens
    <3>1. CASE eol <= Len(text)
      <4>1. Scans[eol] = Scan(Scans[q], Newline) /\ Newline \in Characters /\ eol \in 0 .. Len(text)
        <5>1. eol \in 1 .. Len(text) /\ eol - 1 = q
          BY <1>2, <2>1, <3>1
        <5>2. Scans[eol] = Scan(Scans[eol - 1], text[eol])
          BY <1>2, <5>1, ScansIs
        <5> QED BY <1>2, <3>1, <5>1, <5>2 DEF Characters
      <4>2. Is(Scans[eol], tokens, "unterminated", cur, lineno)
        <5> HIDE DEF q
        <5> QED BY <1>5, <4>1, InString
      <4>3. Scanned = Scans[eol]
        BY <1>2, <4>1, <4>2, EndedScanned DEF Is, Ends
      <4> QED BY <4>2, <4>3 DEF Is
    <3>2. CASE eol = Len(text) + 1
      <4>1. q = Len(text)
        BY <1>2, <2>1, <3>2
      <4>2. /\ Scans[Len(text)].mode \in {"string", "escape"} /\ Scans[Len(text)].found = tokens
            /\ Scans[Len(text)] \in Scanners
        BY <1>5, <4>1 DEF Is
      <4>3. Scanned = [Scans[Len(text)] EXCEPT !.mode = "unterminated"]
        BY <4>2 DEF Scanned, AtEnd
      <4> QED BY <4>2, <4>3 DEF Scanners
    <3> QED BY <1>2, <3>1, <3>2
  <2> QED BY <1>6, <2>2, StopKeeps
<1>7. CASE CharAt(StringEnd) = "^" /\ Stop("malformed")
  <2>1. StringEnd < eol /\ text[StringEnd] = "^"
    BY <1>2, <1>3, <1>7, Chars DEF CharAt
  <2>2. StringEnd \in 1 .. Len(text)
    BY <1>2, <1>3, <2>1
  <2>3. Scans[StringEnd] = Scan(Scans[q], "^") /\ "^" \in Characters
    BY <1>2, <2>1, <2>2, ScansIs DEF Characters
  <2>4. Is(Scans[StringEnd], tokens, "malformed", cur, lineno)
    <3> HIDE DEF q
    <3> QED BY <1>5, <2>3, InString
  <2>5. Scanned = Scans[StringEnd]
    <3>1. StringEnd \in 0 .. Len(text)
      BY <2>2
    <3> QED BY <1>2, <3>1, <2>4, EndedScanned DEF Is, Ends
  <2>6. Scanned.mode = "malformed" /\ tokens = Scanned.found
    BY <2>4, <2>5 DEF Is
  <2> QED BY <1>7, <2>6, StopKeeps
<1> QED BY <1>4, <1>6, <1>7 DEF String

\* The word that the tokenizer comes to.
LEMMA WordAhead ==
  ASSUME TokenizeInv, AtWord
  PROVE  /\ WordEnd \in Nat /\ Start <= WordEnd /\ WordEnd <= eol
         /\ WordEnd < eol => text[WordEnd] \in WordEnders \cup {"^"}
         /\ AllIn(Start, WordEnd - 1, WordCharacters)
         /\ text[Start] \in {"X", "n", Backslash, ".", "^"}
<1>1. /\ instr \in Nat /\ Start \in Nat /\ eol \in Nat /\ instr <= Start /\ Start < eol
      /\ text[Start] \in Characters \ {Space, Newline}
      /\ \A i \in instr .. eol - 1 : text[i] \in Characters \ {Newline}
  BY TokenAhead DEF AtWord
<1> DEFINE C == WordEnders \cup {"^"}
<1>3. /\ WordEnd \in Start .. eol
      /\ WordEnd = eol \/ text[WordEnd] \in C
      /\ \A k \in Start .. WordEnd - 1 : text[k] \notin C
  <2>1. Start \in Int /\ eol \in Int /\ Start <= eol
    BY <1>1
  <2> HIDE DEF C
  <2> QED BY <2>1, FirstOfIs DEF WordEnd, C
<1>4. AllIn(Start, WordEnd - 1, WordCharacters)
  <2>1. ASSUME NEW k \in Start .. WordEnd - 1 PROVE text[k] \in WordCharacters
    <3>1. k \in instr .. eol - 1
      BY <1>1, <1>3
    <3>2. text[k] \in Characters /\ text[k] \notin C
      BY <1>1, <1>3, <3>1
    <3> QED BY <3>2 DEF Characters, WordCharacters, WordEnders
  <2> QED BY <2>1 DEF AllIn
<1>5. text[Start] \in {"X", "n", Backslash, ".", "^"}
  BY <1>1 DEF AtWord, Token, Characters
<1> QED BY <1>1, <1>3, <1>4, <1>5

\* A "." that is no .DIE is an empty token.
LEMMA EmptyWordKeeps ==
  ASSUME TokenizeInv, AtWord, text[Start] = ".", Found(<<>>, Start)
  PROVE  TokenizeInv'
<1>1. /\ tokens \in Seq(Tok) /\ lineno \in Nat /\ Start < eol
      /\ instr \in Nat /\ Start \in Nat /\ eol \in Nat /\ instr <= Start
  BY TokenAhead DEF AtWord
<1>2. PICK f \in Seq(Tok), cur \in Strings : AtToken(f, cur)
  BY TokenAhead DEF AtWord
<1>3. <<>> \in Strings /\ Escaped(<<>>)
  BY SmallSeqs, NoString
<1>4. IsPrefix(With(f, cur, lineno), Append(tokens, [str |-> <<>>, lineno |-> lineno]))
  <2>1. [str |-> <<>>, lineno |-> lineno] \in Tok
    BY <1>1, <1>3 DEF Tok
  <2>2. With(f, cur, lineno) \in Seq(Tok)
    BY <1>1, WithType
  <2> QED BY <1>1, <1>2, <2>1, <2>2, PrefixAppend DEF AtToken
<1>5. CharAt(Start) = "."
  BY <1>1 DEF CharAt
<1>6. cur # <<>> => CharAt(Start) \in WordEnders
  BY <1>5 DEF WordEnders
<1>7. Is(Scans[Start - 1], f, "code", cur, lineno)
  BY <1>2 DEF AtToken
<1>8. Start <= eol /\ Reading
  BY <1>1 DEF AtWord
<1> DEFINE rest == Start
           str == <<>>
<1>9. /\ str \in Strings /\ rest \in Nat /\ Found(str, rest) /\ instr <= rest /\ rest <= eol
      /\ Escaped(str) /\ Is(Scans[rest - 1], f, "code", cur, lineno)
      /\ cur # <<>> => CharAt(rest) \in WordEnders
      /\ IsPrefix(With(f, cur, lineno), Append(tokens, [str |-> str, lineno |-> lineno]))
      /\ CharAt(rest) = "."
  BY <1>1, <1>3, <1>4, <1>5, <1>6, <1>7, <1>8
<1> HIDE DEF rest, str
<1> QED BY <1>8, <1>9, FoundKeeps

\* A character that is not printable.
LEMMA MalformedKeeps ==
  ASSUME TokenizeInv, AtWord, CharAt(WordEnd) = "^", Stop("malformed")
  PROVE  TokenizeInv'
<1>1. /\ text \in Strings /\ Len(text) \in Nat /\ Start \in Nat /\ eol \in Nat /\ 1 <= Start
      /\ Start < eol /\ eol <= Len(text) + 1 /\ lineno \in Nat
  <2> HIDE DEF Reading
  <2> QED BY TokenAhead DEF AtWord
<1>2. /\ WordEnd \in Nat /\ Start <= WordEnd /\ WordEnd <= eol
      /\ AllIn(Start, WordEnd - 1, WordCharacters)
      /\ text[Start] \in {"X", "n", Backslash, ".", "^"}
  BY WordAhead
<1>3. WordEnd < eol /\ text[WordEnd] = "^"
  BY <1>1, <1>2, Chars DEF CharAt
<1>4. text[Start] # "." /\ (text[Start] = "^" => WordEnd = Start)
  <2>1. WordEnd > Start => text[Start] \in WordCharacters
    <3>1. WordEnd > Start => Start \in Start .. WordEnd - 1
      BY <1>1, <1>2
    <3> QED BY <1>2, <3>1, InAll
  <2>2. "." \notin WordCharacters /\ "^" \notin WordCharacters
    BY Chars DEF WordCharacters
  <2> QED BY <1>1, <1>2, <1>3, <2>1, <2>2
<1>5. PICK f \in Seq(Tok), cur \in Strings : AtToken(f, cur)
  BY TokenAhead DEF AtWord
<1>6. cur = <<>> /\ f = tokens
  <2>1. text[Start] \notin WordEnders
    BY <1>2, <1>4, Chars DEF WordEnders
  <2>2. cur = <<>> /\ tokens = With(f, cur, lineno)
    BY <1>4, <1>5, <2>1 DEF AtToken
  <2> QED BY <2>2, WithEmpty
<1>7. Is(Scans[Start - 1], tokens, "code", <<>>, lineno)
  BY <1>5, <1>6 DEF AtToken
<1>8. \E str : Is(Scans[WordEnd - 1], tokens, "code", str, lineno)
  <2>1. CASE WordEnd = Start
    BY <1>7, <2>1
  <2>2. CASE WordEnd > Start
    <3> DEFINE p == Start
               q == WordEnd - 1
    <3>1. text[p] # "EXECUTE"
      BY <1>2, Chars
    <3>2. /\ p \in Nat /\ q \in Nat /\ 1 <= p /\ p <= q /\ q <= Len(text) /\ text \in Strings
          /\ AllIn(p, q, WordCharacters) /\ Is(Scans[p - 1], tokens, "code", <<>>, lineno)
      BY <1>1, <1>2, <1>3, <1>7, <2>2
    <3>3. Is(Scans[q], tokens, "code", SubSeq(text, p, q), lineno)
      <4> HIDE DEF p, q
      <4> QED BY <3>1, <3>2, PassWord
    <3> QED BY <3>3
  <2> QED BY <1>1, <1>2, <2>1, <2>2
<1>9. WordEnd \in 1 .. Len(text)
  BY <1>1, <1>2, <1>3
<1>10. Scans[WordEnd] = Scan(Scans[WordEnd - 1], "^") /\ "^" \in Characters
  BY <1>1, <1>3, <1>9, ScansIs DEF Characters
<1>11. PICK str : Is(Scans[WordEnd], tokens, "malformed", str, lineno)
  BY <1>8, <1>10, InCode
<1>12. Scanned = Scans[WordEnd]
  <2>1. WordEnd \in 0 .. Len(text)
    BY <1>9
  <2> QED BY <1>1, <1>11, <2>1, EndedScanned DEF Is, Ends
<1>13. Scanned.mode = "malformed" /\ tokens = Scanned.found
  BY <1>11, <1>12 DEF Is
<1> QED BY <1>13, StopKeeps

\* A word is found, and the rest of the line is passed over if it is a comment.
LEMMA FullWordKeeps ==
  ASSUME TokenizeInv, AtWord, text[Start] # ".", CharAt(WordEnd) # "^", NEW rest,
         rest = IF CharAt(WordEnd) = "#" THEN eol ELSE WordEnd,
         Found(SubSeq(text, Start, WordEnd - 1), rest)
  PROVE  TokenizeInv'
<1> DEFINE str == SubSeq(text, Start, WordEnd - 1)
           g == With(tokens, str, lineno)
<1>1. /\ text \in Strings /\ Len(text) \in Nat /\ Start \in Nat /\ eol \in Nat /\ 1 <= Start
      /\ Start < eol /\ eol <= Len(text) + 1 /\ lineno \in Nat /\ tokens \in Seq(Tok)
      /\ instr \in Nat /\ instr <= Start
      /\ \A i \in instr .. eol - 1 : text[i] \in Characters \ {Newline}
      /\ Reading
  <2> HIDE DEF str, g
  <2> QED BY TokenAhead DEF AtWord
<1>2. /\ WordEnd \in Nat /\ Start <= WordEnd /\ WordEnd <= eol
      /\ WordEnd < eol => text[WordEnd] \in WordEnders \cup {"^"}
      /\ AllIn(Start, WordEnd - 1, WordCharacters)
      /\ text[Start] \in {"X", "n", Backslash, "."} \cup {"^"}
  BY WordAhead
<1>3. CharAt(WordEnd) \in WordEnders
  BY <1>1, <1>2, Chars DEF CharAt, WordEnders
<1>4. WordEnd > Start /\ text[Start] \in {"X", "n", Backslash}
  <2>1. CASE WordEnd = Start
    <3>1. text[Start] \in WordEnders
      BY <1>1, <1>3, <2>1 DEF CharAt
    <3>2. text[Start] \in {"X", "n", Backslash} \cup {"^"}
      BY <1>2
    <3> QED BY <3>1, <3>2, Chars DEF WordEnders
  <2>2. CASE WordEnd > Start
    <3>1. Start \in Start .. WordEnd - 1
      BY <1>1, <1>2, <2>2
    <3>2. text[Start] \in WordCharacters
      BY <1>2, <3>1, InAll
    <3>3. "^" \notin WordCharacters
      BY Chars DEF WordCharacters
    <3> QED BY <1>2, <2>2, <3>2, <3>3
  <2> QED BY <1>1, <1>2, <2>1, <2>2
<1>5. PICK f \in Seq(Tok), cur \in Strings : AtToken(f, cur)
  BY TokenAhead DEF AtWord
<1>6. cur = <<>> /\ f = tokens
  <2>1. text[Start] \notin WordEnders
    BY <1>4, Chars DEF WordEnders
  <2>2. cur = <<>> /\ tokens = With(f, cur, lineno)
    BY <1>5, <2>1 DEF AtToken
  <2> QED BY <2>2, WithEmpty
<1>7. Is(Scans[Start - 1], tokens, "code", <<>>, lineno)
  BY <1>5, <1>6 DEF AtToken
<1>8. Is(Scans[WordEnd - 1], tokens, "code", str, lineno)
  <2> DEFINE p == Start
             q == WordEnd - 1
  <2>1. text[p] # "EXECUTE"
    BY <1>4, Chars
  <2>2. /\ p \in Nat /\ q \in Nat /\ 1 <= p /\ p <= q /\ q <= Len(text) /\ text \in Strings
        /\ AllIn(p, q, WordCharacters) /\ Is(Scans[p - 1], tokens, "code", <<>>, lineno)
    BY <1>1, <1>2, <1>4, <1>7
  <2>3. Is(Scans[q], tokens, "code", SubSeq(text, p, q), lineno)
    <3> HIDE DEF p, q
    <3> QED BY <2>1, <2>2, PassWord
  <2> QED BY <2>3
<1>9. str \in Strings /\ str # <<>> /\ str[1] # Quote
  <2> DEFINE m == Start
             n == WordEnd - 1
  <2>1. m \in Int /\ n \in Int /\ m <= n /\ \A i \in m .. n : text[i] \in Characters
    BY <1>1, <1>2, <1>4
  <2>2. /\ SubSeq(text, m, n) \in Seq(Characters)
        /\ Len(SubSeq(text, m, n)) = n - m + 1
        /\ \A i \in 1 .. n - m + 1 : SubSeq(text, m, n)[i] = text[m + i - 1]
    <3> HIDE DEF m, n
    <3> QED BY <2>1, SubSeqProperties
  <2>3. str = SubSeq(text, m, n) /\ n >= m /\ m \in Int /\ n \in Int /\ text[m] # Quote
    BY <1>1, <1>2, <1>4, Chars
  <2> HIDE DEF str, m, n
  <2>4. str \in Seq(Characters) /\ Len(str) > 0 /\ str[1] = text[m]
    BY <2>2, <2>3
  <2>5. str # <<>>
    BY <2>4
  <2> QED BY <2>3, <2>4, <2>5 DEF Strings
<1> HIDE DEF str
<1>10. Escaped(str)
  BY <1>9, NoString
<1>11. Append(tokens, [str |-> str, lineno |-> lineno]) = g /\ g \in Seq(Tok)
  BY <1>1, <1>9, AppendIsWith, WithType
<1>12. IsPrefix(g, g) /\ With(g, <<>>, lineno) = g
  <2> HIDE DEF g
  <2> QED BY <1>11, PrefixSelf, WithEmpty
<1>13. Found(str, rest)
  BY DEF str
<1>14. CASE CharAt(WordEnd) # "#"
  <2>1. rest = WordEnd /\ rest \in Nat /\ instr <= rest /\ rest <= eol /\ CharAt(rest) \in WordEnders
    BY <1>1, <1>2, <1>3, <1>14
  <2>2. Is(Scans[rest - 1], tokens, "code", str, lineno)
    BY <1>8, <2>1
  <2>3. /\ IsPrefix(With(tokens, str, lineno), Append(tokens, [str |-> str, lineno |-> lineno]))
        /\ Append(tokens, [str |-> str, lineno |-> lineno]) = With(tokens, str, lineno)
    BY <1>11, <1>12
  <2> QED BY <1>1, <1>9, <1>10, <1>13, <2>1, <2>2, <2>3, FoundKeeps
<1>15. CASE CharAt(WordEnd) = "#"
  <2>1. rest = eol /\ rest \in Nat /\ instr <= rest /\ rest <= eol
    BY <1>1, <1>15
  <2>2. WordEnd < eol /\ text[WordEnd] = "#"
    BY <1>1, <1>2, <1>15, Chars DEF CharAt
  <2>3. WordEnd \in 1 .. Len(text)
    BY <1>1, <1>2, <1>4, <2>2
  <2>4. Scans[WordEnd] = Scan(Scans[WordEnd - 1], "#") /\ "#" \in Characters
    BY <1>1, <2>2, <2>3, ScansIs DEF Characters
  <2>5. Is(Scans[WordEnd], g, "comment", <<>>, lineno)
    BY <1>8, <2>4, InCode
  <2>6. Is(Scans[eol - 1], g, "comment", <<>>, lineno)
    <3> DEFINE p == WordEnd
               q == eol - 1
    <3>1. AllIn(p + 1, q, Characters \ {Newline})
      BY <1>1, <1>2 DEF AllIn
    <3>2. /\ p \in Nat /\ q \in Nat /\ p <= q /\ q <= Len(text) /\ text \in Strings
          /\ Is(Scans[p], g, "comment", <<>>, lineno)
      BY <1>1, <1>2, <2>2, <2>5
    <3>3. Is(Scans[q], g, "comment", <<>>, lineno)
      <4> HIDE DEF p, q, g
      <4> QED BY <3>1, <3>2, PassComment
    <3> QED BY <3>3
  <2>7. /\ Is(Scans[rest - 1], g, "comment", <<>>, lineno)
        /\ IsPrefix(With(g, <<>>, lineno), Append(tokens, [str |-> str, lineno |-> lineno]))
        /\ Append(tokens, [str |-> str, lineno |-> lineno]) = With(g, <<>>, lineno)
    BY <1>11, <1>12, <2>1, <2>6
  <2> HIDE DEF g
  <2> QED BY <1>1, <1>9, <1>10, <1>13, <2>1, <2>7, FoundKeeps
<1> QED BY <1>14, <1>15

\* A word, of each of these kinds.
LEMMA WordKeeps ==
  ASSUME TokenizeInv, Word
  PROVE  TokenizeInv'
<1>0. AtWord /\ Start \in Nat /\ eol \in Nat /\ Start < eol
  BY TokenAhead DEF Word, AtWord
<1>1. CASE CharAt(WordEnd) = "^" /\ Stop("malformed")
  BY <1>0, <1>1, MalformedKeeps
<1>2. CASE text[Start] = "." /\ CharAt(WordEnd) # "^"
  <2>1. WordEnd = Start
    <3>1. WordEnd > Start => Start \in Start .. WordEnd - 1
      BY <1>0, WordAhead
    <3>2. WordEnd > Start => text[Start] \in WordCharacters
      BY <1>0, <3>1, WordAhead, InAll
    <3> QED BY <1>0, <1>2, <3>2, WordAhead, Chars DEF WordCharacters
  <2>2. CharAt(WordEnd) = "."
    BY <1>0, <1>2, <2>1 DEF CharAt
  <2>3. SubSeq(text, Start, WordEnd - 1) = <<>>
    BY <1>0, <2>1, SubSeqEmpty
  <2>4. Found(<<>>, Start)
    BY <1>2, <2>1, <2>2, <2>3 DEF Word
  <2> QED BY <1>0, <1>2, <2>4, EmptyWordKeeps
<1>3. CASE text[Start] # "." /\ CharAt(WordEnd) # "^"
  <2>1. PICK rest : /\ rest = IF CharAt(WordEnd) = "#" THEN eol ELSE WordEnd
                    /\ Found(SubSeq(text, Start, WordEnd - 1), rest)
    BY <1>3 DEF Word
  <2> QED BY <1>0, <1>3, <2>1, FullWordKeeps
<1> QED BY <1>1, <1>2, <1>3 DEF Word

\* Nothing more is in the line: the scanner at its end.
LEMMA EndAhead ==
  ASSUME TokenizeInv, LineDone, eol > 0
  PROVE  \E f, cur, m : /\ Is(Scans[eol - 1], f, m, cur, lineno)
                        /\ m = "code" \/ (m = "comment" /\ cur = <<>>)
                        /\ tokens = With(f, cur, lineno)
<1>0. TokenizeTypes /\ InLine /\ ScannerAgrees(Scans[instr - 1]) /\ status = "reading"
  BY DEF TokenizeInv, LineDone
<1>1. CASE Start < eol
  <2>1. Reading /\ text[Start] = "#"
    BY <1>0, <1>1 DEF LineDone, Reading
  <2>2. /\ text \in Strings /\ Len(text) \in Nat /\ lineno \in Nat /\ instr \in Nat
        /\ Start \in Nat /\ eol \in Nat /\ instr <= Start /\ eol <= Len(text) + 1
        /\ \A i \in instr .. eol - 1 : text[i] \in Characters \ {Newline}
        /\ Scans[Start] = Scan(Scans[Start - 1], text[Start])
    BY <2>1, TokenAhead
  <2>3. PICK f \in Seq(Tok), cur \in Strings : AtToken(f, cur)
    BY <2>1, TokenAhead
  <2> DEFINE g == With(f, cur, lineno)
  <2>4. tokens = g
    BY <2>1, <2>3 DEF AtToken
  <2>5. Is(Scans[Start], g, "comment", <<>>, lineno)
    <3>1. Is(Scans[Start - 1], f, "code", cur, lineno)
      BY <2>3 DEF AtToken
    <3>2. Scans[Start] = Scan(Scans[Start - 1], "#") /\ "#" \in Characters
      BY <2>1, <2>2 DEF Characters
    <3> QED BY <3>1, <3>2, InCode
  <2> HIDE DEF g
  <2>6. Is(Scans[eol - 1], g, "comment", <<>>, lineno)
    <3> DEFINE p == Start
               q == eol - 1
    <3>1. AllIn(p + 1, q, Characters \ {Newline})
      BY <2>2 DEF AllIn
    <3>2. /\ p \in Nat /\ q \in Nat /\ p <= q /\ q <= Len(text) /\ text \in Strings
          /\ Is(Scans[p], g, "comment", <<>>, lineno)
      BY <1>1, <2>2, <2>5
    <3>3. Is(Scans[q], g, "comment", <<>>, lineno)
      <4> HIDE DEF p, q
      <4> QED BY <3>1, <3>2, PassComment
    <3> QED BY <3>3
  <2>7. tokens = With(g, <<>>, lineno)
    BY <2>4, WithEmpty
  <2> QED BY <2>6, <2>7
<1>2. CASE ~ (Start < eol)
  <2>1. Start = eol
    <3>1. Start \in Nat /\ Start <= eol /\ eol \in Nat
      BY <1>0, StartIs, TypesAre
    <3> QED BY <1>2, <3>1
  <2> QED BY <1>0, <2>1, ComesToEnd
<1> QED BY <1>1, <1>2

\* ... and behind its end.
LEMMA LineRead ==
  ASSUME TokenizeInv, LineDone, eol <= Len(text)
  PROVE  Is(Scans[eol], tokens, "code", <<>>, lineno + 1)
<1>0. TokenizeTypes /\ InLine
  BY DEF TokenizeInv
<1>1. text \in Strings /\ Len(text) \in Nat /\ eol \in Nat
  BY <1>0, TypesAre
<1>2. CASE eol = 0
  <2>1. lineno = 0 /\ tokens = <<>>
    BY <1>0, <1>2 DEF InLine
  <2>2. Scans[0] = Scanner
    BY <1>1, ScansIs
  <2>3. Is(Scanner, <<>>, "code", <<>>, 1)
    BY DEF Is, Scanner, Scanners, Modes, Strings
  <2> QED BY <1>2, <2>1, <2>2, <2>3
<1>3. CASE eol > 0
  <2>1. PICK f, cur, m : /\ Is(Scans[eol - 1], f, m, cur, lineno)
                         /\ m = "code" \/ (m = "comment" /\ cur = <<>>)
                         /\ tokens = With(f, cur, lineno)
    BY <1>3, EndAhead
  <2>2. text[eol] = Newline
    BY <1>0, <1>1, <1>3 DEF InLine
  <2>3. Scans[eol] = Scan(Scans[eol - 1], Newline) /\ Newline \in Characters
    <3>1. eol \in 1 .. Len(text)
      BY <1>1, <1>3
    <3> QED BY <1>1, <2>2, <3>1, ScansIs DEF Characters
  <2>4. CASE m = "code"
    BY <2>1, <2>3, <2>4, InCode
  <2>5. CASE m = "comment" /\ cur = <<>>
    <3>1. tokens = f
      BY <2>1, <2>5, WithEmpty
    <3> QED BY <2>1, <2>3, <2>5, <3>1, InComment
  <2> QED BY <2>1, <2>4, <2>5
<1> QED BY <1>1, <1>2, <1>3

\* The next line is read.
LEMMA NextLineKeeps ==
  ASSUME TokenizeInv, NextLine
  PROVE  TokenizeInv'
<1> DEFINE n == Len(text) + 1
           e == FirstOf(eol + 1, n, {Newline})
<1>0. TokenizeTypes /\ StringsEscaped /\ LineDone /\ eol < Len(text) /\ status = "reading"
  BY DEF TokenizeInv, NextLine, LineDone
<1>1. /\ text' = text /\ eol' = e /\ lineno' = lineno + 1 /\ status' = "reading" /\ instr' = eol + 1
      /\ tokens' = tokens
  BY <1>0 DEF NextLine
<1>2. /\ text \in Strings /\ Len(text) \in Nat /\ eol \in Nat /\ tokens \in Seq(Tok) /\ lineno \in Nat
  BY <1>0, TypesAre
<1>3. /\ e \in eol + 1 .. n
      /\ e = n \/ text[e] \in {Newline}
      /\ \A k \in eol + 1 .. e - 1 : text[k] \notin {Newline}
  <2>1. eol + 1 \in Int /\ n \in Int /\ eol + 1 <= n
    BY <1>0, <1>2
  <2> HIDE DEF n
  <2> QED BY <2>1, FirstOfIs
<1> HIDE DEF e
<1>4. TokenizeTypes'
  BY <1>0, <1>1, <1>2, <1>3 DEF TokenizeTypes
<1>5. InLine'
  <2>1. e # 0 /\ e \in Nat /\ (e <= Len(text) => text[e] = Newline)
    BY <1>2, <1>3
  <2>2. \A k \in eol + 1 .. e - 1 : text[k] # Newline
    BY <1>3
  <2> QED BY <1>1, <1>2, <2>1, <2>2 DEF InLine
<1>6. ScannerAgrees(Scans[instr - 1])'
  <2>1. (Scans[instr - 1])' = Scans[eol]
    BY <1>1, <1>2, SameText
  <2>2. Is(Scans[eol], tokens, "code", <<>>, lineno + 1)
    BY <1>0, <1>2, LineRead
  <2>3. FoundBy(Scans[eol]) = tokens
    BY <2>2, FoundByIs, WithEmpty
  <2>4. IsPrefix(tokens, tokens)
    BY <1>2, PrefixSelf
  <2>5. Scans[eol].lineno = lineno + 1 /\ Scans[eol].mode = "code" /\ Scans[eol].current = <<>>
    BY <2>2 DEF Is
  <2> QED BY <1>1, <2>1, <2>3, <2>4, <2>5 DEF ScannerAgrees
<1>7. EndAgrees'
  BY <1>1 DEF EndAgrees
<1>8. StringsEscaped'
  <2>1. \A k \in DOMAIN tokens : Escaped(tokens[k].str)
    BY <1>0 DEF StringsEscaped
  <2>2. StringsEscaped' <=> \A k \in DOMAIN tokens' : Escaped(tokens'[k].str)
    BY DEF StringsEscaped
  <2> QED BY <1>1, <2>1, <2>2
<1> QED BY <1>1, <1>4, <1>5, <1>6, <1>7, <1>8 DEF TokenizeInv

\* The end of the file.
LEMMA EndOfFileKeeps ==
  ASSUME TokenizeInv, EndOfFile
  PROVE  TokenizeInv'
<1>0. TokenizeTypes /\ LineDone /\ eol >= Len(text) /\ Stop("done")
  BY DEF TokenizeInv, EndOfFile
<1>1. text \in Strings /\ Len(text) \in Nat /\ eol \in Nat /\ eol <= Len(text) + 1
  BY <1>0, TypesAre
<1>2. \E f, cur, m, l : /\ Is(Scans[Len(text)], f, m, cur, l) /\ m \in {"code", "comment"}
                        /\ tokens = With(f, cur, l)
  <2>1. CASE eol = Len(text)
    <3>1. Is(Scans[Len(text)], tokens, "code", <<>>, lineno + 1)
      BY <1>0, <1>1, <2>1, LineRead
    <3> QED BY <3>1, WithEmpty
  <2>2. CASE eol = Len(text) + 1
    <3>1. eol - 1 = Len(text) /\ eol > 0
      BY <1>1, <2>2
    <3>2. PICK f, cur, m : /\ Is(Scans[eol - 1], f, m, cur, lineno)
                           /\ m = "code" \/ (m = "comment" /\ cur = <<>>)
                           /\ tokens = With(f, cur, lineno)
      BY <1>0, <3>1, EndAhead
    <3> QED BY <3>1, <3>2
  <2> QED BY <1>0, <1>1, <2>1, <2>2
<1>3. PICK f, cur, m, l : /\ Is(Scans[Len(text)], f, m, cur, l) /\ m \in {"code", "comment"}
                          /\ tokens = With(f, cur, l)
  BY <1>2
<1>4. Scanned = WordOver(Scans[Len(text)], "done")
  <2>1. Scans[Len(text)].mode \in {"code", "comment"}
    BY <1>3 DEF Is
  <2> QED BY <2>1 DEF Scanned, AtEnd
<1>5. Is(Scanned, With(f, cur, l), "done", <<>>, l)
  BY <1>3, <1>4, OverIs DEF Modes
<1>6. "done" = Scanned.mode /\ tokens = Scanned.found
  BY <1>3, <1>5 DEF Is
<1> QED BY <1>0, <1>6, StopKeeps

\* What the scanner has found when it comes to its end is no less.
LEMMA ScannedGrows ==
  ASSUME text \in Strings
  PROVE  Scanned.found \in Seq(Tok) /\ IsPrefix(Scans[Len(text)].found, Scanned.found)
<1> DEFINE r == Scans[Len(text)]
<1>1. r \in Scanners
  <2>1. Len(text) \in 0 .. Len(text)
    BY DEF Strings
  <2> QED BY <2>1, ScansType
<1>2. Is(r, r.found, r.mode, r.current, r.lineno) /\ r.found \in Seq(Tok)
      /\ r.current \in Strings /\ r.lineno \in Nat
  BY <1>1 DEF Is, Scanners
<1>3. CASE r.mode \in {"code", "comment"}
  <2>1. Scanned = WordOver(r, "done")
    BY <1>3 DEF Scanned, AtEnd
  <2> DEFINE g == With(r.found, r.current, r.lineno)
  <2>2. Is(Scanned, g, "done", <<>>, r.lineno)
    <3> HIDE DEF r
    <3> QED BY <1>2, <2>1, OverIs DEF Modes
  <2>3. g \in Seq(Tok) /\ IsPrefix(r.found, g)
    <3> HIDE DEF r
    <3> QED BY <1>2, PrefixWith
  <2>4. Scanned.found = g
    BY <2>2 DEF Is
  <2> QED BY <2>3, <2>4
<1>4. CASE r.mode \notin {"code", "comment"}
  <2>1. Scanned.found = r.found
    BY <1>1, <1>4 DEF Scanned, AtEnd, Scanners
  <2> HIDE DEF r
  <2> QED BY <1>2, <2>1, PrefixSelf DEF r
<1> QED BY <1>3, <1>4

\* A token that is not a comment, with what came before it.
LEMMA TokenGrows ==
  ASSUME NEW r, NEW f \in Seq(Tok), NEW cur \in Strings, NEW l \in Nat, Is(r, f, "code", cur, l),
         NEW c \in Characters \ {Space, Newline, "#"}, cur # <<>> => c \in WordEnders
  PROVE  IsPrefix(With(f, cur, l), Scan(r, c).found)
<1> DEFINE g == With(f, cur, l)
<1>1. g \in Seq(Tok) /\ IsPrefix(g, g)
  <2>1. g \in Seq(Tok)
    BY WithType
  <2> HIDE DEF g
  <2> QED BY <2>1, PrefixSelf
<1>2. <<c>> \in Strings
  BY OneLiteral
<1>3. CASE c \in {Quote, "."}
  <2>1. Scan(r, c).found = g
    <3>1. c \in Characters /\ (c = Quote \/ c = ".")
      BY <1>3
    <3>2. \E m, s : Is(Scan(r, c), g, m, s, l)
      <4> HIDE DEF g
      <4> QED BY <3>1, InCode DEF g
    <3> QED BY <3>2 DEF Is
  <2> HIDE DEF g
  <2> QED BY <1>1, <2>1 DEF g
<1>4. CASE c \in {"(", ".DIE"}
  <2>1. Scan(r, c).found = With(g, <<c>>, l)
    BY <1>4, InCode DEF Is
  <2>2. IsPrefix(g, With(g, <<c>>, l))
    <3> HIDE DEF g
    <3> QED BY <1>1, <1>2, PrefixWith
  <2> QED BY <2>1, <2>2
<1>5. CASE c \in {"EXECUTE", "^", "X", "n", Backslash}
  <2>1. cur = <<>> /\ g = f
    <3>1. c \notin WordEnders
      BY <1>5, Chars DEF WordEnders
    <3> QED BY <3>1, WithEmpty
  <2>2. CASE c = "EXECUTE"
    <3>1. Scan(r, c).found = With(f, <<c>>, l)
      BY <2>1, <2>2, InCode DEF Is
    <3> QED BY <1>2, <2>1, <3>1, PrefixWith
  <2>3. CASE c # "EXECUTE"
    <3>1. Scan(r, c).found = f
      <4>1. c \in Characters /\ (c = "^" \/ c \in {"X", "n", Backslash})
        BY <1>5, <2>3
      <4>2. \E m, s : Is(Scan(r, c), f, m, s, l)
        BY <4>1, InCode
      <4> QED BY <4>2 DEF Is
    <3> QED BY <1>1, <2>1, <3>1
  <2> QED BY <2>2, <2>3
<1>6. c \in {Quote, "."} \/ c \in {"(", ".DIE"} \/ c \in {"EXECUTE", "^", "X", "n", Backslash}
  BY DEF Characters
<1> QED BY <1>3, <1>4, <1>5, <1>6

\* Memory is full.
LEMMA NoMemoryKeeps ==
  ASSUME TokenizeInv, NoMemory
  PROVE  TokenizeInv'
<1> DEFINE c == text[Start]
           L == Len(text)
<1>1. Reading /\ c # "#" /\ Len(tokens) = MaxTokens /\ Stop("exhausted")
  BY DEF NoMemory
<1>2. /\ text \in Strings /\ L \in Nat /\ tokens \in Seq(Tok) /\ lineno \in Nat
      /\ Start \in 0 .. L
      /\ c \in Characters \ {Space, Newline}
      /\ Scans[Start] = Scan(Scans[Start - 1], c)
  BY <1>1, TokenAhead
<1>3. PICK f \in Seq(Tok), cur \in Strings : AtToken(f, cur)
  BY <1>1, TokenAhead
<1>4. /\ Is(Scans[Start - 1], f, "code", cur, lineno)
      /\ IsPrefix(With(f, cur, lineno), tokens)
      /\ tokens # With(f, cur, lineno) => c = "."
      /\ cur # <<>> => c \in WordEnders
  BY <1>3 DEF AtToken
<1>5. CASE tokens = With(f, cur, lineno)
  <2>1. IsPrefix(tokens, Scans[Start].found)
    <3>1. c \in Characters \ {Space, Newline, "#"}
      BY <1>1, <1>2
    <3> HIDE DEF c
    <3> QED BY <1>2, <1>4, <1>5, <3>1, TokenGrows
  <2>2. IsPrefix(Scans[Start].found, Scans[L].found)
    <3>1. L \in Start .. L
      BY <1>2
    <3> QED BY <1>2, <3>1, FoundGrows
  <2>3. Scanned.found \in Seq(Tok) /\ IsPrefix(Scans[L].found, Scanned.found)
    BY <1>2, ScannedGrows
  <2>4. Scans[Start].found \in Seq(Tok) /\ Scans[L].found \in Seq(Tok)
    <3>1. L \in 0 .. L
      BY <1>2
    <3> QED BY <1>2, <3>1, ScansType DEF Scanners
  <2>5. IsPrefix(tokens, Scans[L].found)
    BY <1>2, <2>1, <2>2, <2>4, PrefixTrans
  <2>6. IsPrefix(tokens, Scanned.found)
    BY <1>2, <2>3, <2>4, <2>5, PrefixTrans
  <2> QED BY <1>1, <2>6, StopKeeps
<1>6. CASE tokens # With(f, cur, lineno)
  <2>1. Scans[Start] = Scan(Scans[Start - 1], ".") /\ "." \in Characters
    BY <1>2, <1>4, <1>6
  <2>2. Is(Scans[Start], With(f, cur, lineno), "exhausted", <<>>, lineno)
    BY <1>4, <2>1, InCode
  <2>3. Scanned = Scans[Start]
    BY <1>2, <2>2, EndedScanned DEF Is, Ends
  <2>4. Scanned.mode = "exhausted" /\ IsPrefix(Scanned.found, tokens)
    BY <1>4, <2>2, <2>3 DEF Is
  <2> QED BY <1>1, <2>4, StopKeeps
<1> QED BY <1>5, <1>6

(***************************************************************************)
(* The theorems.                                                           *)
(***************************************************************************)
\* At the start.
LEMMA TokenizeInit ==
  ASSUME Init
  PROVE  TokenizeInv
<1>1. /\ instr = 0 /\ eol = 0 /\ lineno = 0 /\ tokens = <<>> /\ status = "reading"
  BY DEF Init
<1>2. text \in Strings /\ Len(text) \in Nat
  <2>1. text \in UNION {[1 .. n -> Characters] : n \in 0 .. MaxText}
    BY DEF Init, BoundedSeq, SeqOf
  <2> QED BY <2>1 DEF Strings
<1>3. TokenizeTypes
  BY <1>1, <1>2, TokenizeAssumption DEF TokenizeTypes
<1>4. InLine
  BY <1>1 DEF InLine
<1>5. StringsEscaped
  BY <1>1 DEF StringsEscaped
<1> QED BY <1>1, <1>3, <1>4, <1>5 DEF TokenizeInv, EndAgrees

\* A step that changes nothing.
LEMMA StutterKeeps ==
  ASSUME TokenizeInv, UNCHANGED vars
  PROVE  TokenizeInv'
<1>1. /\ text' = text /\ eol' = eol /\ lineno' = lineno /\ status' = status /\ instr' = instr
      /\ tokens' = tokens
  BY DEF vars
<1>2. Scans' = Scans /\ Scanned' = Scanned
  BY <1>1, SameText
<1>3. TokenizeTypes' /\ InLine'
  BY <1>1 DEF TokenizeInv, TokenizeTypes, InLine
<1>4. status = "reading" /\ eol > 0 => ScannerAgrees(Scans[instr - 1])'
  <2>1. FoundBy(Scans[instr - 1])' = FoundBy(Scans[instr - 1])
    BY <1>1, <1>2 DEF FoundBy, Emit
  <2>2. CharAt(instr)' = CharAt(instr)
    BY <1>1 DEF CharAt
  <2> QED BY <1>1, <1>2, <2>1, <2>2 DEF TokenizeInv, ScannerAgrees
<1>5. EndAgrees'
  BY <1>1, <1>2 DEF TokenizeInv, EndAgrees
<1>6. StringsEscaped'
  <2>1. \A k \in DOMAIN tokens : Escaped(tokens[k].str)
    BY DEF TokenizeInv, StringsEscaped
  <2>2. StringsEscaped' <=> \A k \in DOMAIN tokens' : Escaped(tokens'[k].str)
    BY DEF StringsEscaped
  <2> QED BY <1>1, <2>1, <2>2
<1> QED BY <1>1, <1>3, <1>4, <1>5, <1>6 DEF TokenizeInv

\* The inductive invariant: between two calls of get_next_token the scanner, when it comes
\* to instr, has found the same tokens.
THEOREM TokenizeInvariant == Spec => []TokenizeInv
<1>1. Init => TokenizeInv
  BY TokenizeInit
<1>2. TokenizeInv /\ [Next]_vars => TokenizeInv'
  <2> SUFFICES ASSUME TokenizeInv, [Next]_vars PROVE TokenizeInv'
    OBVIOUS
  <2>1. CASE Literal
    BY <2>1, LiteralKeeps
  <2>2. CASE String
    BY <2>2, StringKeeps
  <2>3. CASE Word
    BY <2>3, WordKeeps
  <2>4. CASE NoMemory
    BY <2>4, NoMemoryKeeps
  <2>5. CASE NextLine
    BY <2>5, NextLineKeeps
  <2>6. CASE EndOfFile
    BY <2>6, EndOfFileKeeps
  <2>7. CASE UNCHANGED vars
    BY <2>7, StutterKeeps
  <2> QED BY <2>1, <2>2, <2>3, <2>4, <2>5, <2>6, <2>7 DEF Next
<1> QED BY <1>1, <1>2, PTL DEF Spec

(***************************************************************************)
(* The scanner of the language, which takes EXECUTE for a token only where *)
(* it is a whole word, finds the same until it meets a name that begins so.*)
(***************************************************************************)
\* What the scanner s has found when the scanner w of the language has come as far: the
\* same; or the token that w may still see to be the beginning of a name; or, w having
\* met such a name, no less.
Follows(w, s) ==
  \/ w = s /\ (w.mode \in {"code", "comment"} => w.current # <<"EXECUTE">>)
  \/ \E f, l : /\ Is(w, f, "code", <<"EXECUTE">>, l)
               /\ Is(s, With(f, <<"EXECUTE">>, l), "code", <<>>, l)
  \/ w.mode = "name" /\ w.found \in Seq(Tok) /\ IsPrefix(w.found, s.found)

\* A scanner is what Is says of it.
LEMMA IsEqual ==
  ASSUME NEW r, NEW q, NEW f, NEW m, NEW cur, NEW l, Is(r, f, m, cur, l), Is(q, f, m, cur, l)
  PROVE  r = q
BY DEF Is, Scanners

\* A word that is longer than the literal is not the literal.
LEMMA NoLiteral ==
  ASSUME NEW cur \in Strings, NEW c \in Characters, cur # <<>> \/ c # "EXECUTE"
  PROVE  cur \o <<c>> # <<"EXECUTE">>
<1>1. <<c>> \in Seq(Characters) /\ cur \in Seq(Characters) /\ <<c>>[1] = c /\ Len(<<c>>) = 1
  BY DEF Strings
<1>2. Len(<<"EXECUTE">>) = 1 /\ <<"EXECUTE">>[1] = "EXECUTE"
  OBVIOUS
<1>3. CASE cur = <<>>
  <2>1. cur \o <<c>> = <<c>>
    BY <1>3, SmallSeqs
  <2> QED BY <1>1, <1>2, <1>3, <2>1
<1>4. CASE cur # <<>>
  <2>1. Len(cur) \in Nat /\ Len(cur) # 0
    BY <1>1, <1>4, EmptySeq
  <2>2. Len(cur \o <<c>>) = Len(cur) + 1
    BY <1>1, ConcatProperties
  <2> QED BY <1>2, <2>1, <2>2
<1> QED BY <1>3, <1>4

\* Where both are the same and no literal begins a word, they stay the same.
LEMMA SameGoesOn ==
  ASSUME NEW s \in Scanners, s.mode # "done", NEW c \in Characters,
         s.mode \in {"code", "comment"} => s.current # <<"EXECUTE">>,
         ~ (s.mode = "code" /\ s.current = <<>> /\ c = "EXECUTE")
  PROVE  Follows(ScanName(s, c), Scan(s, c))
<1>1. ScanName(s, c) = Scan(s, c)
  BY DEF ScanName
<1> DEFINE f == s.found
           cur == s.current
           l == s.lineno
<1>2. Is(s, f, s.mode, cur, l) /\ cur \in Strings
  BY DEF Is, Scanners
<1>e. <<>> # <<"EXECUTE">>
  OBVIOUS
<1> HIDE DEF f, cur, l
<1>3. SUFFICES Scan(s, c).mode \in {"code", "comment"} => Scan(s, c).current # <<"EXECUTE">>
  BY <1>1 DEF Follows
<1>4. CASE s.mode = "code"
  <2>1. Is(s, f, "code", cur, l)
    BY <1>2, <1>4
  <2>2. CASE c \in {Space, Newline, "#", "(", ".DIE"}
    <3>1. CASE c \in {Space, Newline, "#"}
      <4>1. \E m, n : Is(Scan(s, c), With(f, cur, l), m, <<>>, n)
        BY <2>1, <3>1, InCode
      <4> QED BY <1>e, <4>1 DEF Is
    <3>2. CASE c \in {"(", ".DIE"}
      <4>1. Is(Scan(s, c), With(With(f, cur, l), <<c>>, l), "code", <<>>, l)
        BY <2>1, <3>2, InCode
      <4> QED BY <1>e, <4>1 DEF Is
    <3> QED BY <2>2, <3>1, <3>2
  <2>3. CASE c \in {Quote, ".", "^"}
    <3>1. \E g, m, x, n : Is(Scan(s, c), g, m, x, n) /\ m \in {"string", "exhausted", "malformed"}
      BY <2>1, <2>3, InCode
    <3> QED BY <3>1 DEF Is
  <2>4. CASE c \in {"X", "n", Backslash} \/ (c = "EXECUTE" /\ cur # <<>>)
    <3>1. Is(Scan(s, c), f, "code", cur \o <<c>>, l)
      BY <2>1, <2>4, InCode
    <3>2. cur \o <<c>> # <<"EXECUTE">>
      BY <1>2, <2>4, NoLiteral, Chars
    <3> QED BY <3>1, <3>2 DEF Is
  <2> QED BY <1>4, <2>2, <2>3, <2>4 DEF Characters, cur
<1>5. CASE s.mode \in {"string", "escape"}
  <2>0. Is(s, f, s.mode, cur, l)
    BY <1>2
  <2>1. CASE c = Quote
    <3>1. \E g : Is(Scan(s, c), g, "code", <<>>, l)
      BY <2>0, <1>5, <2>1, InString
    <3> QED BY <3>1, <1>e DEF Is
  <2>2. CASE c # Quote
    <3>1. \E g, m, x : Is(Scan(s, c), g, m, x, l) /\ m \in {"string", "escape", "malformed", "unterminated"}
      <4>1. CASE c \in {Newline, "^"}
        BY <2>0, <1>5, <4>1, InString
      <4>2. CASE c = Backslash /\ s.mode = "string"
        BY <2>0, <1>5, <4>2, InString
      <4>3. CASE c \in {"n", Backslash} /\ s.mode = "escape"
        BY <2>0, <1>5, <4>3, InString
      <4>4. CASE c \notin {Quote, Newline, "^", Backslash} /\ (s.mode = "escape" => c # "n")
        BY <2>0, <1>5, <4>4, InString
      <4> QED BY <1>5, <2>2, <4>1, <4>2, <4>3, <4>4
    <3> QED BY <3>1 DEF Is
  <2> QED BY <2>1, <2>2
<1>6. CASE s.mode = "comment"
  <2>1. Is(s, f, "comment", cur, l) /\ cur # <<"EXECUTE">>
    BY <1>2, <1>6 DEF cur
  <2>2. \E m, n : Is(Scan(s, c), f, m, cur, n)
    BY <2>1, InComment
  <2> QED BY <2>1, <2>2 DEF Is
<1>7. CASE s.mode \in Ends
  BY <1>7, Ended DEF Ends
<1> QED BY <1>4, <1>5, <1>6, <1>7 DEF Scanners, Modes, Ends

\* The word that may be the literal ends, or goes on.
LEMMA LiteralGoesOn ==
  ASSUME NEW w, NEW s, NEW f, NEW l, Is(w, f, "code", <<"EXECUTE">>, l),
         Is(s, With(f, <<"EXECUTE">>, l), "code", <<>>, l), NEW c \in Characters
  PROVE  Follows(ScanName(w, c), Scan(s, c))
<1> DEFINE e == <<"EXECUTE">>
           g == With(f, e, l)
<1>1. e \in Strings /\ e # <<>> /\ <<>> # e /\ e # <<Quote>>
  <2>1. "EXECUTE" \in Characters
    BY DEF Characters
  <2>2. e[1] = "EXECUTE" /\ <<Quote>>[1] = Quote
    OBVIOUS
  <2> QED BY <2>1, <2>2, OneLiteral, Chars
<1>2. f \in Seq(Tok) /\ l \in Nat /\ g \in Seq(Tok) /\ IsPrefix(f, g)
  <2>1. f \in Seq(Tok) /\ l \in Nat
    BY DEF Is, Scanners
  <2> HIDE DEF e
  <2> QED BY <1>1, <2>1, PrefixWith
<1>a. Is(w, f, "code", e, l) /\ Is(s, g, "code", <<>>, l)
  OBVIOUS
<1>b. w.mode = "code" /\ w.current = e /\ w.found = f
  BY DEF Is
<1>c. ScanName(w, c) = IF c \notin WordEnders THEN [w EXCEPT !.mode = "name"] ELSE Scan(w, c)
  BY <1>1, <1>b DEF ScanName
<1>d. With(g, <<>>, l) = g
  BY WithEmpty
<1> HIDE DEF e, g
<1>3. CASE c \notin WordEnders
  <2>1. ScanName(w, c).mode = "name" /\ ScanName(w, c).found = f
    <3>1. ScanName(w, c) = [w EXCEPT !.mode = "name"]
      BY <1>3, <1>c
    <3> QED BY <3>1, <1>a, <1>b DEF Is, Scanners
  <2>2. s \in Scanners /\ s.mode # "done" /\ s.found = g
    BY <1>a DEF Is
  <2>3. IsPrefix(g, Scan(s, c).found) /\ Scan(s, c).found \in Seq(Tok)
    <3>1. Scan(s, c) \in Scanners /\ IsPrefix(s.found, Scan(s, c).found)
      BY <2>2, ScanType
    <3> QED BY <2>2, <3>1 DEF Scanners
  <2>4. IsPrefix(f, Scan(s, c).found)
    BY <1>2, <2>3, PrefixTrans
  <2> QED BY <1>2, <2>1, <2>4 DEF Follows
<1>4. CASE c \in WordEnders
  <2>1. ScanName(w, c) = Scan(w, c)
    BY <1>4, <1>c
  <2>2. c \in {Space, Newline, "#", Quote, ".", "(", ".DIE"}
    BY <1>4 DEF WordEnders
  <2>3. SUFFICES /\ Scan(w, c) = Scan(s, c)
                 /\ Scan(w, c).mode \in {"code", "comment"} => Scan(w, c).current # e
    BY <2>1 DEF Follows, e
  <2>4. CASE c = Space
    <3>1. Is(Scan(w, c), g, "code", <<>>, l) /\ Is(Scan(s, c), g, "code", <<>>, l)
      BY <1>a, <1>d, <2>4, InCode DEF g
    <3> QED BY <1>1, <3>1, IsEqual DEF Is
  <2>5. CASE c = Newline
    <3>1. Is(Scan(w, c), g, "code", <<>>, l + 1) /\ Is(Scan(s, c), g, "code", <<>>, l + 1)
      BY <1>a, <1>d, <2>5, InCode DEF g
    <3> QED BY <1>1, <3>1, IsEqual DEF Is
  <2>6. CASE c = "#"
    <3>1. Is(Scan(w, c), g, "comment", <<>>, l) /\ Is(Scan(s, c), g, "comment", <<>>, l)
      BY <1>a, <1>d, <2>6, InCode DEF g
    <3> QED BY <1>1, <3>1, IsEqual DEF Is
  <2>7. CASE c = Quote
    <3>1. Is(Scan(w, c), g, "string", <<Quote>>, l) /\ Is(Scan(s, c), g, "string", <<Quote>>, l)
      BY <1>a, <1>d, <2>7, InCode DEF g
    <3> QED BY <3>1, IsEqual DEF Is
  <2>8. CASE c = "."
    <3>1. Is(Scan(w, c), g, "exhausted", <<>>, l) /\ Is(Scan(s, c), g, "exhausted", <<>>, l)
      BY <1>a, <1>d, <2>8, InCode DEF g
    <3> QED BY <3>1, IsEqual DEF Is
  <2>9. CASE c \in {"(", ".DIE"}
    <3>1. /\ Is(Scan(w, c), With(g, <<c>>, l), "code", <<>>, l)
          /\ Is(Scan(s, c), With(g, <<c>>, l), "code", <<>>, l)
      <4>1. Is(Scan(w, c), With(With(f, e, l), <<c>>, l), "code", <<>>, l)
        BY <1>a, <2>9, InCode
      <4>2. Is(Scan(s, c), With(With(g, <<>>, l), <<c>>, l), "code", <<>>, l)
        BY <1>a, <2>9, InCode
      <4> QED BY <1>d, <4>1, <4>2 DEF g
    <3> QED BY <1>1, <3>1, IsEqual DEF Is
  <2> QED BY <2>2, <2>4, <2>5, <2>6, <2>7, <2>8, <2>9
<1> QED BY <1>3, <1>4

\* Both take a step.
LEMMA FollowsStep ==
  ASSUME NEW w, NEW s \in Scanners, s.mode # "done", Follows(w, s), NEW c \in Characters
  PROVE  Follows(ScanName(w, c), Scan(s, c))
<1>1. CASE w = s /\ (w.mode \in {"code", "comment"} => w.current # <<"EXECUTE">>)
  <2>1. CASE s.mode = "code" /\ s.current = <<>> /\ c = "EXECUTE"
    <3> DEFINE f == s.found
               l == s.lineno
    <3>1. Is(s, f, "code", <<>>, l)
      BY <2>1 DEF Is
    <3> HIDE DEF f, l
    <3>2. <<c>> \in Strings /\ <<>> \o <<c>> = <<c>> /\ "code" \in Modes
      BY SmallSeqs DEF Modes
    <3>3. ScanName(w, c) = Take(s, <<c>>, "code")
      BY <1>1, <2>1 DEF ScanName
    <3>4. Is(ScanName(w, c), f, "code", <<c>>, l)
      <4>1. Is(Take(s, <<c>>, "code"), f, "code", <<>> \o <<c>>, l)
        BY <3>1, <3>2, TakeIs
      <4> QED BY <3>2, <3>3, <4>1
    <3>5. Is(Scan(s, c), With(f, <<c>>, l), "code", <<>>, l)
      BY <2>1, <3>1, InCode
    <3> QED BY <2>1, <3>4, <3>5 DEF Follows
  <2>2. CASE ~ (s.mode = "code" /\ s.current = <<>> /\ c = "EXECUTE")
    BY <1>1, <2>2, SameGoesOn
  <2> QED BY <2>1, <2>2
<1>2. CASE \E f, l : /\ Is(w, f, "code", <<"EXECUTE">>, l)
                     /\ Is(s, With(f, <<"EXECUTE">>, l), "code", <<>>, l)
  BY <1>2, LiteralGoesOn
<1>3. CASE w.mode = "name" /\ w.found \in Seq(Tok) /\ IsPrefix(w.found, s.found)
  <2>1. ScanName(w, c) = w
    BY <1>3 DEF ScanName, Scan
  <2>2. Scan(s, c) \in Scanners /\ IsPrefix(s.found, Scan(s, c).found)
    BY ScanType
  <2>3. s.found \in Seq(Tok) /\ Scan(s, c).found \in Seq(Tok)
    BY <2>2 DEF Scanners
  <2>4. IsPrefix(w.found, Scan(s, c).found)
    BY <1>3, <2>2, <2>3, PrefixTrans
  <2> QED BY <1>3, <2>1, <2>4 DEF Follows
<1> QED BY <1>1, <1>2, <1>3 DEF Follows

\* Both read the file.
LEMMA NameFollows ==
  ASSUME text \in Strings
  PROVE  \A i \in 0 .. Len(text) : Follows(NameScans[i], Scans[i])
<1> DEFINE L == Len(text)
           S == {i \in 0 .. L : Follows(NameScans[i], Scans[i])}
<1>0. L \in Nat
  BY DEF Strings
<1>n. /\ NameScans[0] = Scanner
      /\ \A i \in 1 .. L : NameScans[i] = ScanName(NameScans[i - 1], text[i])
  BY <1>0, NameScansDef
<1>1. 0 \in S
  <2>1. Scanner.current # <<"EXECUTE">>
    BY DEF Scanner
  <2>2. Scans[0] = Scanner
    BY ScansIs
  <2> QED BY <1>0, <1>n, <2>1, <2>2 DEF Follows
<1>2. \A i \in 0 .. L - 1 : i \in S => i + 1 \in S
  <2> SUFFICES ASSUME NEW i \in 0 .. L - 1, i \in S PROVE i + 1 \in S
    OBVIOUS
  <2>1. i + 1 \in 1 .. L /\ i + 1 \in 0 .. L /\ i \in 0 .. L /\ (i + 1) - 1 = i
    BY <1>0
  <2>2. Scans[i + 1] = Scan(Scans[i], text[i + 1]) /\ text[i + 1] \in Characters
    BY <2>1, <1>0, ScansIs
  <2>3. NameScans[i + 1] = ScanName(NameScans[i], text[i + 1])
    BY <2>1, <1>n
  <2>4. Scans[i] \in Scanners /\ Scans[i].mode # "done"
    BY <2>1, ScansType
  <2>5. Follows(NameScans[i], Scans[i])
    OBVIOUS
  <2>6. Follows(NameScans[i + 1], Scans[i + 1])
    <3> HIDE DEF S
    <3> QED BY <2>2, <2>3, <2>4, <2>5, FollowsStep
  <2> QED BY <2>1, <2>6
<1> HIDE DEF S, L
<1>3. \A i \in 0 .. L : i \in S
  BY <1>0, <1>1, <1>2, Upwards
<1> QED BY <1>3 DEF S, L

\* Both come to the end of the file.
LEMMA NamedIs ==
  ASSUME text \in Strings
  PROVE  \/ Named.mode = Scanned.mode /\ Named.found = Scanned.found
         \/ Named.mode = "name" /\ Named.found \in Seq(Tok) /\ IsPrefix(Named.found, Scanned.found)
<1> DEFINE w == NameScans[Len(text)]
           s == Scans[Len(text)]
<1>1. Follows(w, s) /\ s \in Scanners
  <2>1. Len(text) \in 0 .. Len(text)
    BY DEF Strings
  <2> QED BY <2>1, NameFollows, ScansType
<1>2. Named = AtEnd(w) /\ Scanned = AtEnd(s)
  BY DEF Named, Scanned
<1>g. Scanned.found \in Seq(Tok) /\ IsPrefix(s.found, Scanned.found)
  BY ScannedGrows
<1> HIDE DEF w, s
<1>3. CASE w = s
  BY <1>2, <1>3
<1>4. CASE \E f, l : /\ Is(w, f, "code", <<"EXECUTE">>, l)
                     /\ Is(s, With(f, <<"EXECUTE">>, l), "code", <<>>, l)
  <2>1. PICK f, l : /\ Is(w, f, "code", <<"EXECUTE">>, l)
                    /\ Is(s, With(f, <<"EXECUTE">>, l), "code", <<>>, l)
    BY <1>4
  <2> DEFINE g == With(f, <<"EXECUTE">>, l)
  <2>2. Named = WordOver(w, "done") /\ Scanned = WordOver(s, "done")
    BY <1>2, <2>1 DEF AtEnd, Is
  <2>3. "done" \in Modes
    BY DEF Modes
  <2>4. Is(Named, g, "done", <<>>, l)
    BY <2>1, <2>2, <2>3, OverIs
  <2>5. Is(Scanned, With(g, <<>>, l), "done", <<>>, l)
    BY <2>1, <2>2, <2>3, OverIs
  <2>6. With(g, <<>>, l) = g
    BY WithEmpty
  <2> QED BY <2>4, <2>5, <2>6 DEF Is
<1>5. CASE w.mode = "name" /\ w.found \in Seq(Tok) /\ IsPrefix(w.found, s.found)
  <2>1. Named = w
    BY <1>2, <1>5 DEF AtEnd
  <2>2. s.found \in Seq(Tok)
    BY <1>1 DEF Scanners
  <2> QED BY <1>5, <1>g, <2>1, <2>2, PrefixTrans
<1> QED BY <1>1, <1>3, <1>4, <1>5 DEF Follows

\* Of two prefixes of a sequence one is a prefix of the other.
LEMMA PrefixOfBoth ==
  ASSUME NEW S, NEW s \in Seq(S), NEW t \in Seq(S), NEW u \in Seq(S), IsPrefix(s, u), IsPrefix(t, u)
  PROVE  IsPrefix(s, t) \/ IsPrefix(t, s)
<1>1. /\ Len(s) <= Len(u) /\ \A i \in 1 .. Len(s) : s[i] = u[i]
      /\ Len(t) <= Len(u) /\ \A i \in 1 .. Len(t) : t[i] = u[i]
  BY PrefixIs
<1>2. CASE Len(s) <= Len(t)
  <2>1. \A i \in 1 .. Len(s) : s[i] = t[i]
    BY <1>1, <1>2
  <2> QED BY <1>2, <2>1, PrefixIs
<1>3. CASE Len(t) <= Len(s)
  <2>1. \A i \in 1 .. Len(t) : t[i] = s[i]
    BY <1>1, <1>3
  <2> QED BY <1>3, <2>1, PrefixIs
<1> QED BY <1>2, <1>3

\* What the tokenizer has found is what the scanner of the language finds, as far as the
\* first name that begins with a literal of letters.
LEMMA EndIsScannedOnce ==
  ASSUME TokenizeInv
  PROVE  ScansOnce
<1> SUFFICES ASSUME status # "reading" PROVE ScansOnce
  BY DEF ScansOnce
<1>1. text \in Strings /\ tokens \in Seq(Tok)
  BY TypesAre DEF TokenizeInv
<1>2. \/ status = Scanned.mode /\ tokens = Scanned.found
      \/ /\ status = "exhausted" /\ Len(tokens) = MaxTokens
         /\ \/ IsPrefix(tokens, Scanned.found)
            \/ Scanned.mode = "exhausted" /\ IsPrefix(Scanned.found, tokens)
  BY DEF TokenizeInv, EndAgrees
<1>3. Scanned.found \in Seq(Tok)
  BY <1>1, ScannedGrows
<1>4. CASE Named.mode = Scanned.mode /\ Named.found = Scanned.found
  BY <1>2, <1>4 DEF ScansOnce
<1>5. CASE Named.mode = "name" /\ Named.found \in Seq(Tok) /\ IsPrefix(Named.found, Scanned.found)
  <2>1. CASE tokens = Scanned.found
    BY <1>5, <2>1 DEF ScansOnce
  <2>2. CASE IsPrefix(Scanned.found, tokens)
    <3>1. IsPrefix(Named.found, tokens)
      BY <1>1, <1>3, <1>5, <2>2, PrefixTrans
    <3> QED BY <1>5, <3>1 DEF ScansOnce
  <2>3. CASE status = "exhausted" /\ Len(tokens) = MaxTokens /\ IsPrefix(tokens, Scanned.found)
    <3>1. IsPrefix(tokens, Named.found) \/ IsPrefix(Named.found, tokens)
      BY <1>1, <1>3, <1>5, <2>3, PrefixOfBoth
    <3> QED BY <1>5, <2>3, <3>1 DEF ScansOnce
  <2> QED BY <1>2, <2>1, <2>2, <2>3
<1> QED BY <1>1, <1>4, <1>5, NamedIs

\* tokenize finds the tokens that reading the file once finds, with their lines, and refuses
\* the same files, but for what follows a name that it cuts in two and for the empty tokens
\* after a "." that is no .DIE.
THEOREM TextIsScannedOnce == Spec => []ScansOnce
<1>1. TokenizeInv => ScansOnce
  BY EndIsScannedOnce
<1> QED BY <1>1, TokenizeInvariant, PTL

\* The assembler finds in a string only escapes that it knows, and no quote within it.
THEOREM StringsAreEscaped == Spec => []StringsEscaped
<1>1. TokenizeInv => StringsEscaped
  BY DEF TokenizeInv
<1> QED BY <1>1, TokenizeInvariant, PTL

=============================================================================
