----------------------------- MODULE ParseProofs ------------------------------
(***************************************************************************)
(* The parser reads beyond the tokens only where ReadsBeyondOnly says, for *)
(* files of every length.                                                  *)
(***************************************************************************)
EXTENDS Parse, SequenceTheorems, TLAPS

(***************************************************************************)
(* The tokens read.                                                        *)
(***************************************************************************)
\* What the checks demand.
LEMMA DemandsKnown ==
  /\ DOMAIN Demands = {"is_valid_var", "is_valid_import", "is_string"}
  /\ Demands["is_valid_var"] = "name"
  /\ \A c \in DOMAIN Demands : Demands[c] # "eof"
BY DEF Demands

\* A sequence contains what it contained, and what was appended.
LEMMA ContainsMore ==
  ASSUME NEW S, NEW r \in Seq(S), NEW x \in S, NEW c, Contains(r, c) \/ x = c
  PROVE  Contains(Append(r, x), c)
<1> DEFINE a == Append(r, x)
<1>1. /\ Len(a) = Len(r) + 1 /\ Len(r) \in Nat
      /\ \A i \in 1 .. Len(r) : a[i] = r[i]
      /\ a[Len(a)] = x
  BY AppendProperties, LenProperties
<1> HIDE DEF a
<1>2. Len(a) \in 1 .. Len(a) /\ \A i \in 1 .. Len(r) : i \in 1 .. Len(a)
  BY <1>1
<1>3. CASE Contains(r, c)
  <2>1. PICK i \in 1 .. Len(r) : r[i] = c
    BY <1>3 DEF Contains
  <2> QED BY <1>1, <1>2, <2>1 DEF a, Contains
<1>4. CASE x = c
  BY <1>1, <1>2, <1>4 DEF a, Contains
<1> QED BY <1>3, <1>4

\* One more token.
LEMMA ReadMore ==
  ASSUME NEW S, NEW r \in Seq(S), NEW x \in S
  PROVE  /\ Append(r, x) \in Seq(S) /\ Append(r, x) # <<>>
         /\ Last(Append(r, x)) = x
         /\ Contains(r, "lbrace") \/ x = "lbrace" => Contains(Append(r, x), "lbrace")
         /\ x \in {"semicolon", "lbrace", "(", "comma"} => AfterStart(Append(r, x))
         /\ AfterStart(r) /\ x = "name" => EndsAfterName(Append(r, x))
<1> DEFINE a == Append(r, x)
<1>1. /\ a \in Seq(S) /\ a # <<>> /\ Len(a) = Len(r) + 1
      /\ \A i \in 1 .. Len(r) : a[i] = r[i]
      /\ Len(r) \in Nat
  BY AppendProperties, LenProperties
<1>2. Last(a) = x
  BY AppendProperties DEF Last
<1> HIDE DEF a
<1>3. Contains(r, "lbrace") \/ x = "lbrace" => Contains(a, "lbrace")
  BY ContainsMore DEF a
<1>4. x \in {"semicolon", "lbrace", "(", "comma"} => AfterStart(a)
  BY <1>2 DEF AfterStart
<1>5. ASSUME AfterStart(r), x = "name"
      PROVE  EndsAfterName(a)
  <2>1. CASE r = <<>>
    <3>1. Len(r) = 0
      BY <2>1, EmptySeq
    <3> QED BY <1>1, <1>2, <1>5, <3>1 DEF EndsAfterName
  <2>2. CASE r # <<>>
    <3>1. Len(r) > 0 /\ a[Len(a) - 1] = Last(r)
      BY <1>1, <2>2, EmptySeq DEF Last
    <3> QED BY <1>1, <1>2, <1>5, <2>2, <3>1 DEF EndsAfterName, AfterStart
  <2> QED BY <2>1, <2>2
<1> QED BY <1>1, <1>2, <1>3, <1>4, <1>5 DEF a

(***************************************************************************)
(* The head of the stack has been done.                                    *)
(***************************************************************************)
\* What the steps do to the tokens read.
Popped(s, r, n, r2, n2) ==
  \/ s[1] = "in_bounds" /\ r2 = r /\ n2 = n /\ n # "eof"
  \/ s[1] \in Tokens /\ r2 = Append(r, s[1])
  \/ s[1] \in DOMAIN Demands /\ r2 = r /\ n2 = n /\ n = Demands[s[1]]
  \/ s[1] = "string_node" /\ r2 = Append(r, n)
  \/ s[1] = "end" /\ r2 = r /\ n2 = n

\* Unchecked, of a stack without its head.
LEMMA UncheckedShift ==
  ASSUME NEW s, NEW t, NEW i \in Nat \ {0}, Len(s) \in Nat, Len(t) = Len(s) - 1,
         t[i] = s[i + 1], t[i + 1] = s[i + 2]
  PROVE  Unchecked(t, i) <=> Unchecked(s, i + 1)
BY DEF Unchecked

\* The rest of a stack.
LEMMA TailOfStack ==
  ASSUME NEW s \in Seq(Symbols), s # <<>>, NEW t, t = Tail(s)
  PROVE  /\ t \in Seq(Symbols)
         /\ Len(s) \in Nat \ {0} /\ DOMAIN s = 1 .. Len(s)
         /\ Len(t) = Len(s) - 1 /\ DOMAIN t = 1 .. Len(s) - 1
         /\ \A i \in 1 .. Len(s) - 1 : t[i] = s[i + 1]
         /\ \A i \in 1 .. Len(s) - 1 : Unchecked(t, i) <=> Unchecked(s, i + 1)
<1>1. /\ t \in Seq(Symbols)
      /\ Len(s) \in Nat \ {0} /\ DOMAIN s = 1 .. Len(s)
      /\ Len(t) = Len(s) - 1 /\ DOMAIN t = 1 .. Len(s) - 1
      /\ \A i \in 1 .. Len(s) - 1 : t[i] = s[i + 1]
  BY HeadTailProperties, EmptySeq, LenProperties
<1>2. ASSUME NEW i \in 1 .. Len(s) - 1
      PROVE  Unchecked(t, i) <=> Unchecked(s, i + 1)
  <2>1. CASE i = Len(s) - 1
    BY <1>1, <2>1 DEF Unchecked
  <2>2. CASE i < Len(s) - 1
    <3>1. t[i] = s[i + 1] /\ t[i + 1] = s[i + 2]
      BY <1>1, <2>2
    <3>2. i \in Nat \ {0} /\ Len(s) \in Nat /\ Len(t) = Len(s) - 1
      BY <1>1
    <3> QED BY <3>1, <3>2, UncheckedShift
  <2>3. Len(s) - 1 \in Int /\ i \in Int /\ i <= Len(s) - 1
    BY <1>1, <1>2
  <2>4. i = Len(s) - 1 \/ i < Len(s) - 1
    BY <2>3
  <2> QED BY <2>1, <2>2, <2>4
<1> QED BY <1>1, <1>2

\* What has been read then.
HeadDone(s, r, n, r2, n2) ==
  /\ s[1] \in {"in_bounds", "end", "is_valid_var"} => r2 = r
  /\ s[1] \in {"semicolon", "lbrace", "(", "comma"} => AfterStart(r2)
  /\ s[1] = "semicolon" => r2 # <<>> /\ Last(r2) = "semicolon"
  /\ Contains(r, "lbrace") \/ s[1] = "lbrace" => Contains(r2, "lbrace")
  /\ s[1] = "string_node" /\ AfterStart(r) /\ n = "name" => EndsAfterName(r2)
  /\ s[1] = "in_bounds" => n2 # "eof"
  /\ s[1] = "is_valid_var" => n2 = "name"
  /\ s[1] \notin Decisions \cup {"node"}

LEMMA PoppedRead ==
  ASSUME NEW s \in Seq(Symbols), s # <<>>, NEW r \in Seq(Tokens \cup {"eof"}),
         NEW n \in Tokens \cup {"eof"}, NEW r2, NEW n2, Popped(s, r, n, r2, n2)
  PROVE  HeadDone(s, r, n, r2, n2)
<1> DEFINE S == Tokens \cup {"eof"}
<1>1. CASE s[1] = "in_bounds" /\ r2 = r /\ n2 = n /\ n # "eof"
  BY <1>1 DEF HeadDone, Decisions
<1>2. CASE s[1] \in Tokens /\ r2 = Append(r, s[1])
  <2>1. s[1] \in S
    BY <1>2
  <2>2. s[1] \notin {"in_bounds", "string_node", "end", "is_valid_var", "node"} \cup Decisions
    BY <1>2 DEF Tokens, Decisions
  <2>3. /\ r2 # <<>> /\ Last(r2) = s[1]
        /\ Contains(r, "lbrace") \/ s[1] = "lbrace" => Contains(r2, "lbrace")
        /\ s[1] \in {"semicolon", "lbrace", "(", "comma"} => AfterStart(r2)
    BY <1>2, <2>1, ReadMore
  <2> QED BY <2>2, <2>3 DEF HeadDone
<1>3. CASE s[1] \in DOMAIN Demands /\ r2 = r /\ n2 = n /\ n = Demands[s[1]]
  <2>1. s[1] \in {"is_valid_var", "is_valid_import", "is_string"}
    BY <1>3, DemandsKnown
  <2>2. s[1] = "is_valid_var" => n2 = "name"
    BY <1>3, DemandsKnown
  <2> QED BY <1>3, <2>1, <2>2 DEF HeadDone, Decisions
<1>4. CASE s[1] = "string_node" /\ r2 = Append(r, n)
  <2>1. /\ Contains(r, "lbrace") => Contains(r2, "lbrace")
        /\ AfterStart(r) /\ n = "name" => EndsAfterName(r2)
    BY <1>4, ReadMore
  <2> QED BY <1>4, <2>1 DEF HeadDone, Decisions
<1>5. CASE s[1] = "end" /\ r2 = r /\ n2 = n
  BY <1>5 DEF HeadDone, Decisions
<1> QED BY <1>1, <1>2, <1>3, <1>4, <1>5 DEF Popped

\* Names keep their places.
LEMMA PopNames ==
  ASSUME NEW s \in Seq(Symbols), s # <<>>, NEW t, t = Tail(s),
         NEW r \in Seq(Tokens \cup {"eof"}), NEW n \in Tokens \cup {"eof"},
         NEW r2, NEW n2, Popped(s, r, n, r2, n2), NamesPlaced(s, r, n)
  PROVE  NamesPlaced(t, r2, n2)
<1>1. /\ Len(s) \in Nat \ {0} /\ DOMAIN s = 1 .. Len(s) /\ DOMAIN t = 1 .. Len(s) - 1
      /\ \A i \in 1 .. Len(s) - 1 : t[i] = s[i + 1]
  BY TailOfStack
<1>2. /\ s[1] \in {"in_bounds", "is_valid_var"} => r2 = r
      /\ s[1] \in {"(", "comma"} => AfterStart(r2)
      /\ s[1] = "is_valid_var" => n2 = "name"
  <2>1. HeadDone(s, r, n, r2, n2)
    BY PoppedRead
  <2> QED BY <2>1 DEF HeadDone
<1>3. ASSUME NEW i \in 1 .. Len(s) - 1, Unchecked(t, i)
      PROVE  /\ i = 1 => n2 = "name"
             /\ i > 1 => t[i - 1] = "is_valid_var"
             /\ i > 2 => t[i - 2] = "in_bounds"
             /\ IF i > 3 THEN t[i - 3] \in {"(", "comma"} ELSE AfterStart(r2)
  <2>1. Unchecked(s, i + 1) /\ i + 1 \in DOMAIN s
    <3>1. Unchecked(t, i) => Unchecked(s, i + 1)
      BY TailOfStack
    <3>2. i + 1 \in 1 .. Len(s)
      BY <1>1, <1>3
    <3> QED BY <1>1, <1>3, <3>1, <3>2
  <2>2. /\ s[i] = "is_valid_var"
        /\ i > 1 => s[i - 1] = "in_bounds"
        /\ IF i > 2 THEN s[i - 2] \in {"(", "comma"} ELSE AfterStart(r)
    <3>1. /\ i + 1 > 1 /\ (i + 1) - 1 = i /\ (i + 1) - 2 = i - 1 /\ (i + 1) - 3 = i - 2
          /\ i > 1 <=> i + 1 > 2
          /\ i > 2 <=> i + 1 > 3
      BY <1>1, <1>3
    <3> QED BY <2>1, <3>1 DEF NamesPlaced
  <2>3. CASE i = 1
    BY <1>2, <2>2, <2>3
  <2>4. CASE i = 2
    BY <1>1, <1>2, <1>3, <2>2, <2>4
  <2>5. CASE i = 3
    BY <1>1, <1>2, <1>3, <2>2, <2>5
  <2>6. CASE i > 3
    <3>1. t[i - 1] = s[i] /\ t[i - 2] = s[i - 1] /\ t[i - 3] = s[i - 2]
      BY <1>1, <1>3, <2>6
    <3> QED BY <2>2, <2>6, <3>1
  <2> QED BY <1>1, <1>3, <2>3, <2>4, <2>5, <2>6
<1> QED BY <1>1, <1>3 DEF NamesPlaced

\* Whatever looks without a test of the bounds keeps what stands before it, unless that
\* has just been done.
LEMMA PopGuarded ==
  ASSUME NEW s \in Seq(Symbols), s # <<>>, NEW t, t = Tail(s),
         s[1] # "node", Guarded(s)
  PROVE  Guarded(t)
<1>1. /\ Len(s) \in Nat \ {0} /\ Len(t) = Len(s) - 1
      /\ \A i \in 1 .. Len(s) - 1 : t[i] = s[i + 1]
  BY TailOfStack
<1>2. ASSUME NEW i \in 2 .. Len(t), t[i] \in Looking
      PROVE  \/ t[i - 1] = "in_bounds"
             \/ Unchecked(t, i - 1)
             \/ t[i] = "body"
             \/ t[i] = ")" /\ t[i - 1] = "executed"
             \/ t[i] = ".DIE" /\ t[i - 1] \in {"dying", "more_names"}
  <2>1. /\ i + 1 \in 2 .. Len(s) /\ t[i] = s[i + 1] /\ t[i - 1] = s[i]
        /\ (i + 1) - 1 = i /\ i - 1 \in 1 .. Len(s) - 1 /\ (i - 1) + 1 = i
    BY <1>1, <1>2
  <2>2. \/ s[i] = "in_bounds"
        \/ Unchecked(s, i)
        \/ s[i + 1] = "body"
        \/ s[i + 1] = ")" /\ s[i] = "executed"
        \/ s[i + 1] = ".DIE" /\ s[i] \in {"dying", "more_names"}
    BY <1>2, <2>1 DEF Guarded
  <2>3. Unchecked(s, i) => Unchecked(t, i - 1)
    BY <2>1, TailOfStack
  <2> QED BY <2>1, <2>2, <2>3
<1> QED BY <1>2 DEF Guarded

\* The decisions keep their places.
LEMMA PopDecisions ==
  ASSUME NEW s \in Seq(Symbols), s # <<>>, NEW t, t = Tail(s),
         NEW r \in Seq(Tokens \cup {"eof"}), NEW n \in Tokens \cup {"eof"},
         NEW r2, NEW n2, Popped(s, r, n, r2, n2), DecisionsPlaced(s, r)
  PROVE  DecisionsPlaced(t, r2)
<1>1. /\ Len(s) \in Nat \ {0} /\ DOMAIN s = 1 .. Len(s) /\ DOMAIN t = 1 .. Len(s) - 1
      /\ Len(t) = Len(s) - 1
      /\ \A i \in 1 .. Len(s) - 1 : t[i] = s[i + 1]
  BY TailOfStack
<1>2. /\ s[1] = "in_bounds" => r2 = r
      /\ s[1] = "(" => AfterStart(r2)
      /\ s[1] # "node"
  <2>1. HeadDone(s, r, n, r2, n2)
    BY PoppedRead
  <2> QED BY <2>1 DEF HeadDone
<1>3. ASSUME NEW i \in 1 .. Len(s) - 1
      PROVE  /\ t[i] \notin {"grave", "dying"}
             /\ t[i] = "more_names" => i < Len(t) /\ t[i + 1] = ".DIE"
             /\ t[i] = "executed" =>
                  /\ i < Len(t) /\ t[i + 1] = ")"
                  /\ i > 1 => t[i - 1] = "in_bounds"
                  /\ IF i > 2 THEN t[i - 2] = "(" ELSE AfterStart(r2)
  <2>1. /\ i + 1 \in 1 .. Len(s) /\ t[i] = s[i + 1] /\ i + 1 > 1 /\ (i + 1) + 1 = i + 2
        /\ (i + 1) - 1 = i /\ (i + 1) - 2 = i - 1
        /\ i > 1 <=> i + 1 > 2
        /\ i + 1 < Len(s) <=> i < Len(t)
    BY <1>1, <1>3
  <2>2. /\ s[i + 1] # "grave"
        /\ s[i + 1] = "dying" => i + 1 = 3 /\ s[1] = "node"
        /\ s[i + 1] = "more_names" => i + 1 < Len(s) /\ s[i + 2] = ".DIE"
        /\ s[i + 1] = "executed" =>
             /\ i + 1 < Len(s) /\ s[i + 2] = ")"
             /\ s[i] = "in_bounds"
             /\ IF i > 1 THEN s[i - 1] = "(" ELSE AfterStart(r)
    <3>1. ASSUME NEW k \in DOMAIN s
          PROVE  /\ s[k] = "grave" => k = 1
                 /\ s[k] = "dying" => k = 1 \/ (k = 3 /\ s[1] = "node")
                 /\ s[k] = "more_names" => k < Len(s) /\ s[k + 1] = ".DIE"
                 /\ s[k] = "executed" =>
                      /\ k < Len(s) /\ s[k + 1] = ")"
                      /\ k > 1 => s[k - 1] = "in_bounds"
                      /\ IF k > 2 THEN s[k - 2] = "(" ELSE AfterStart(r)
      BY <3>1 DEF DecisionsPlaced
    <3>2. i + 1 \in DOMAIN s
      BY <1>1, <2>1
    <3>3. i + 1 # 1
      BY <1>1, <1>3
    <3> QED BY <2>1, <3>1, <3>2, <3>3
  <2>3. i < Len(t) => t[i + 1] = s[i + 2]
    BY <1>1, <1>3
  <2>4. i > 1 => t[i - 1] = s[i]
    BY <1>1, <1>3
  <2>5. i > 2 => t[i - 2] = s[i - 1]
    BY <1>1, <1>3
  <2>6. ASSUME t[i] = "executed"
        PROVE  IF i > 2 THEN t[i - 2] = "(" ELSE AfterStart(r2)
    <3>1. CASE i = 1
      BY <1>2, <2>1, <2>2, <2>6, <3>1
    <3>2. CASE i = 2
      BY <1>2, <2>1, <2>2, <2>6, <3>2
    <3>3. CASE i > 2
      BY <2>1, <2>2, <2>5, <2>6, <3>3
    <3> QED BY <1>1, <1>3, <3>1, <3>2, <3>3
  <2> QED BY <1>2, <2>1, <2>2, <2>3, <2>4, <2>6
<1> QED BY <1>1, <1>3 DEF DecisionsPlaced

\* The graves of bodies keep their places, and their brackets.
LEMMA PopBodies ==
  ASSUME NEW s \in Seq(Symbols), s # <<>>, NEW t, t = Tail(s), s[1] # "grave",
         NEW r \in Seq(Tokens \cup {"eof"}), NEW n \in Tokens \cup {"eof"},
         NEW r2, NEW n2, Popped(s, r, n, r2, n2), BodiesPlaced(s, r)
  PROVE  BodiesPlaced(t, r2)
<1>1. /\ Len(s) \in Nat \ {0} /\ DOMAIN s = 1 .. Len(s) /\ DOMAIN t = 1 .. Len(s) - 1
      /\ Len(t) = Len(s) - 1
      /\ \A i \in 1 .. Len(s) - 1 : t[i] = s[i + 1]
  BY TailOfStack
<1>2. /\ s[1] \in {"in_bounds", "end"} => r2 = r
      /\ s[1] \in {"lbrace", "semicolon"} => AfterStart(r2)
      /\ s[1] = "semicolon" => r2 # <<>> /\ Last(r2) = "semicolon"
      /\ Contains(r, "lbrace") \/ s[1] = "lbrace" => Contains(r2, "lbrace")
      /\ s[1] # "body"
  <2>1. HeadDone(s, r, n, r2, n2)
    BY PoppedRead
  <2> QED BY <2>1 DEF HeadDone, Decisions
<1>3. ASSUME NEW i \in 1 .. Len(s) - 1, t[i] = "body"
      PROVE  /\ i < Len(t) /\ t[i + 1] = "end"
             /\ Contains(r2, "lbrace") \/ \E j \in 1 .. i - 1 : t[j] = "lbrace"
             /\ \/ i = 1 /\ AfterStart(r2)
                \/ i > 1 /\ AfterGrave(t, r2, i)
                \/ i > 1 /\ t[i - 1] = "in_bounds"
                         /\ IF i > 2 THEN t[i - 2] = "lbrace" ELSE AfterStart(r2)
  <2>1. /\ i + 1 \in 1 .. Len(s) /\ t[i] = s[i + 1] /\ i + 1 > 1 /\ (i + 1) + 1 = i + 2
        /\ (i + 1) - 1 = i /\ (i + 1) - 2 = i - 1
        /\ i > 1 <=> i + 1 > 2
        /\ i + 1 < Len(s) <=> i < Len(t)
    BY <1>1, <1>3
  <2>2. /\ i + 1 < Len(s) /\ s[i + 2] = "end"
        /\ Contains(r, "lbrace") \/ \E j \in 1 .. i : s[j] = "lbrace"
        /\ \/ AfterGrave(s, r, i + 1)
           \/ s[i] = "in_bounds" /\ IF i > 1 THEN s[i - 1] = "lbrace" ELSE AfterStart(r)
    BY <1>1, <1>3, <2>1, SMTT(30) DEF BodiesPlaced
  <2>3. t[i + 1] = s[i + 2]
    BY <1>1, <1>3, <2>1, <2>2
  <2>4. /\ i > 1 => t[i - 1] = s[i]
        /\ i > 2 => t[i - 2] = s[i - 1]
    BY <1>1, <1>3
  <2>5. Contains(r2, "lbrace") \/ \E j \in 1 .. i - 1 : t[j] = "lbrace"
    <3>1. CASE Contains(r, "lbrace") \/ s[1] = "lbrace"
      BY <1>2, <3>1
    <3>2. CASE s[1] # "lbrace" /\ \E j \in 1 .. i : s[j] = "lbrace"
      <4>1. PICK j \in 1 .. i : s[j] = "lbrace"
        BY <3>2
      <4>2. j # 1
        BY <3>2, <4>1
      <4>3. j - 1 \in 1 .. i - 1 /\ t[j - 1] = s[j]
        BY <1>1, <1>3, <4>1, <4>2
      <4> QED BY <4>1, <4>3
    <3> QED BY <2>2, <3>1, <3>2
  <2>6. \/ s[i] = "grave"
        \/ s[i] = "end" /\ IF i > 1 THEN s[i - 1] \in {"semicolon", "body"}
                                    ELSE r # <<>> /\ Last(r) = "semicolon"
        \/ s[i] = "in_bounds" /\ IF i > 1 THEN s[i - 1] = "lbrace" ELSE AfterStart(r)
    BY <2>1, <2>2 DEF AfterGrave
  <2>7. \/ i = 1 /\ AfterStart(r2)
        \/ i > 1 /\ AfterGrave(t, r2, i)
        \/ i > 1 /\ t[i - 1] = "in_bounds"
                 /\ IF i > 2 THEN t[i - 2] = "lbrace" ELSE AfterStart(r2)
    <3>1. CASE i = 1
      <4>1. s[1] = "end" => r # <<>> /\ Last(r) = "semicolon" /\ r2 = r
        BY <1>2, <2>6, <3>1
      <4>2. s[1] = "end" => AfterStart(r2)
        BY <4>1 DEF AfterStart
      <4>3. s[1] = "in_bounds" => AfterStart(r2)
        BY <1>2, <2>6, <3>1
      <4> QED BY <2>6, <3>1, <4>2, <4>3
    <3>2. CASE i = 2
      <4>1. t[1] = s[2]
        BY <2>4, <3>2
      <4>2. CASE s[2] = "grave"
        BY <3>2, <4>1, <4>2 DEF AfterGrave
      <4>3. CASE s[2] = "end" /\ s[1] = "semicolon"
        BY <1>2, <3>2, <4>1, <4>3 DEF AfterGrave
      <4>4. CASE s[2] = "in_bounds" /\ s[1] = "lbrace"
        BY <1>2, <3>2, <4>1, <4>4
      <4> QED BY <1>2, <2>6, <3>2, <4>2, <4>3, <4>4
    <3>3. CASE i > 2
      <4>1. t[i - 1] = s[i] /\ t[i - 2] = s[i - 1]
        BY <2>4, <3>3, <1>1, <1>3
      <4> QED BY <2>6, <3>3, <4>1 DEF AfterGrave
    <3> QED BY <1>1, <1>3, <3>1, <3>2, <3>3
  <2> QED BY <2>1, <2>2, <2>3, <2>5, <2>7
<1> QED BY <1>1, <1>3 DEF BodiesPlaced

\* Whole graves are left still.
LEMMA PopGravesLeft ==
  ASSUME NEW s \in Seq(Symbols), s # <<>>, NEW t, t = Tail(s),
         NEW r \in Seq(Tokens \cup {"eof"}), NEW n \in Tokens \cup {"eof"},
         NEW r2, NEW n2, Popped(s, r, n, r2, n2), GravesLeft(s, r)
  PROVE  GravesLeft(t, r2)
<1>1. /\ t \in Seq(Symbols) /\ Len(s) \in Nat \ {0} /\ Len(t) = Len(s) - 1
      /\ \A i \in 1 .. Len(s) - 1 : t[i] = s[i + 1]
  BY TailOfStack
<1>2. /\ s[1] = "end" => r2 = r
      /\ s[1] = "semicolon" => r2 # <<>> /\ Last(r2) = "semicolon"
      /\ s[1] \notin {"grave", "body"}
  <2>1. HeadDone(s, r, n, r2, n2)
    BY PoppedRead
  <2> QED BY <2>1 DEF HeadDone, Decisions
<1>3. \/ s[Len(s)] = "grave"
      \/ s[Len(s)] = "end" /\ IF Len(s) > 1 THEN s[Len(s) - 1] \in {"semicolon", "body"}
                                            ELSE r # <<>> /\ Last(r) = "semicolon"
  <2>1. AfterGrave(s, r, Len(s) + 1)
    BY DEF GravesLeft
  <2>2. /\ (Len(s) + 1) - 1 = Len(s) /\ (Len(s) + 1) - 2 = Len(s) - 1
        /\ Len(s) + 1 > 2 <=> Len(s) > 1
    BY <1>1
  <2> QED BY <2>1, <2>2 DEF AfterGrave
<1>4. CASE Len(s) = 1
  <2>1. t = <<>>
    BY <1>1, <1>4, EmptySeq
  <2>2. r2 = r /\ Last(r) = "semicolon"
    BY <1>2, <1>3, <1>4
  <2> QED BY <2>1, <2>2 DEF GravesLeft, AfterStart
<1>5. CASE Len(s) = 2
  <2>1. t # <<>> /\ Len(t) = 1 /\ t[1] = s[2]
    <3>1. Len(t) = 1 /\ 1 \in 1 .. Len(s) - 1
      BY <1>1, <1>5
    <3>2. t # <<>>
      <4>1. Len(t) # 0
        BY <3>1
      <4> QED BY <4>1, EmptySeq
    <3> QED BY <1>1, <3>1, <3>2
  <2>2. s[2] = "grave" \/ (s[2] = "end" /\ s[1] = "semicolon")
    <3>1. Len(s) > 1 /\ Len(s) - 1 = 1
      BY <1>5
    <3>2. \/ s[2] = "grave"
          \/ s[2] = "end" /\ s[1] \in {"semicolon", "body"}
      BY <1>3, <1>5, <3>1
    <3> QED BY <1>2, <3>2
  <2>3. AfterGrave(t, r2, 2)
    BY <1>2, <2>1, <2>2 DEF AfterGrave
  <2> QED BY <2>1, <2>3 DEF GravesLeft
<1>6. CASE Len(s) > 2
  <2>1. /\ t # <<>> /\ Len(t) + 1 = Len(s) /\ Len(s) - 1 \in 1 .. Len(s) - 1
        /\ Len(s) - 2 \in 1 .. Len(s) - 1
    <3>1. Len(t) > 0
      BY <1>1, <1>6
    <3>2. t # <<>>
      <4>1. Len(t) # 0
        BY <3>1
      <4> QED BY <4>1, EmptySeq
    <3> QED BY <1>1, <1>6, <3>2
  <2>2. t[Len(s) - 1] = s[Len(s)] /\ t[Len(s) - 2] = s[Len(s) - 1]
    BY <1>1, <1>6, <2>1
  <2>3. AfterGrave(t, r2, Len(s))
    BY <1>3, <1>6, <2>2 DEF AfterGrave
  <2> QED BY <2>1, <2>3 DEF GravesLeft
<1> QED BY <1>1, <1>4, <1>5, <1>6

\* What comes next may look: it stands behind a test of the bounds that was passed, or it
\* is one of the places where the tokens may end.
LEMMA PopHead ==
  ASSUME NEW s \in Seq(Symbols), s # <<>>, NEW t, t = Tail(s),
         NEW r \in Seq(Tokens \cup {"eof"}), NEW n \in Tokens \cup {"eof"},
         NEW r2, NEW n2, Popped(s, r, n, r2, n2), StackFits(s, r, n)
  PROVE  HeadGuarded(t, r2, n2)
<1>1. /\ t \in Seq(Symbols) /\ Len(s) \in Nat \ {0} /\ Len(t) = Len(s) - 1
      /\ DOMAIN s = 1 .. Len(s)
      /\ \A i \in 1 .. Len(s) - 1 : t[i] = s[i + 1]
  BY TailOfStack
<1>2. /\ s[1] = "end" => r2 = r
      /\ s[1] = "string_node" /\ AfterStart(r) /\ n = "name" => EndsAfterName(r2)
      /\ s[1] = "in_bounds" => n2 # "eof"
      /\ s[1] \notin Decisions \cup {"node"}
  <2>1. HeadDone(s, r, n, r2, n2)
    BY PoppedRead
  <2> QED BY <2>1 DEF HeadDone
<1>3. /\ NamesPlaced(s, r, n) /\ Guarded(s) /\ BodiesPlaced(s, r)
      /\ HeadGuarded(s, r, n)
  BY DEF StackFits
<1>4. ASSUME t # <<>>
      PROVE  Len(s) > 1 /\ t[1] = s[2]
  BY <1>1, <1>4, EmptySeq
<1>5. ASSUME t # <<>>, NEW i \in 2 .. Len(s)
      PROVE  s[i] # "node"
  BY <1>3, <1>5 DEF HeadGuarded
<1>6. ASSUME t # <<>>, t[1] \in Looking
      PROVE  n2 # "eof" \/ EndsAfterName(r2) \/ EndsInBody(r2)
  <2>1. 2 \in 2 .. Len(s) /\ s[2] \in Looking
    BY <1>1, <1>4, <1>6
  <2>2. s[1] = "in_bounds" \/ Unchecked(s, 1) \/ s[2] = "body"
    BY <1>2, <1>3, <2>1 DEF Guarded, Decisions
  <2>3. CASE s[1] = "in_bounds"
    BY <1>2, <2>3
  <2>4. CASE Unchecked(s, 1)
    <3>1. s[1] = "string_node" /\ 1 \in DOMAIN s
      BY <1>1, <2>4 DEF Unchecked
    <3>2. n = "name" /\ AfterStart(r)
      BY <1>3, <2>4, <3>1 DEF NamesPlaced
    <3> QED BY <1>2, <3>1, <3>2
  <2>5. CASE s[2] = "body" /\ s[1] # "in_bounds"
    <3>1. /\ Contains(r, "lbrace") \/ \E j \in 1 .. 1 : s[j] = "lbrace"
          /\ AfterGrave(s, r, 2)
      BY <1>1, <1>3, <2>1, <2>5 DEF BodiesPlaced
    <3>2. s[1] = "end" /\ r # <<>> /\ Last(r) = "semicolon"
      BY <1>2, <3>1 DEF AfterGrave, Decisions
    <3>3. Contains(r, "lbrace")
      BY <3>1, <3>2
    <3> QED BY <1>2, <3>2, <3>3 DEF EndsInBody
  <2> QED BY <2>2, <2>3, <2>4, <2>5
<1>7. ASSUME t # <<>>
      PROVE  t[1] # "node" /\ \A i \in 2 .. Len(t) : t[i] # "node"
  <2>1. 2 \in 2 .. Len(s) /\ \A i \in 2 .. Len(t) : t[i] = s[i + 1] /\ i + 1 \in 2 .. Len(s)
    BY <1>1, <1>4, <1>7
  <2> QED BY <1>4, <1>5, <1>7, <2>1
<1> QED BY <1>6, <1>7 DEF HeadGuarded

\* All of it together.
LEMMA Pop ==
  ASSUME NEW s \in Seq(Symbols), s # <<>>, NEW t, t = Tail(s),
         NEW r \in Seq(Tokens \cup {"eof"}), NEW n \in Tokens \cup {"eof"},
         NEW r2, NEW n2, Popped(s, r, n, r2, n2), StackFits(s, r, n)
  PROVE  t \in Seq(Symbols) /\ StackFits(t, r2, n2)
<1>1. s[1] \notin {"node", "grave"}
  <2>1. HeadDone(s, r, n, r2, n2)
    BY PoppedRead
  <2> QED BY <2>1 DEF HeadDone, Decisions
<1>2. /\ NamesPlaced(s, r, n) /\ Guarded(s) /\ DecisionsPlaced(s, r) /\ BodiesPlaced(s, r)
      /\ GravesLeft(s, r)
  BY DEF StackFits
<1>3. t \in Seq(Symbols)
  BY TailOfStack
<1>4. NamesPlaced(t, r2, n2)
  BY <1>2, PopNames
<1>5. Guarded(t)
  BY <1>1, <1>2, PopGuarded
<1>6. DecisionsPlaced(t, r2)
  BY <1>2, PopDecisions
<1>7. BodiesPlaced(t, r2)
  BY <1>1, <1>2, PopBodies
<1>8. GravesLeft(t, r2)
  BY <1>2, PopGravesLeft
<1>9. HeadGuarded(t, r2, n2)
  BY PopHead
<1> QED BY <1>3, <1>4, <1>5, <1>6, <1>7, <1>8, <1>9 DEF StackFits

(***************************************************************************)
(* A node has been opened: the symbol "node" and its operation are gone.   *)
(***************************************************************************)
LEMMA OpenKeeps ==
  ASSUME NEW s \in Seq(Symbols), s # <<>>, s[1] = "node", NEW t, t = Tail(Tail(s)),
         NEW r \in Seq(Tokens \cup {"eof"}), NEW n \in Tokens \cup {"eof"},
         StackFits(s, r, n)
  PROVE  t \in Seq(Symbols) /\ StackFits(t, r, n)
<1>1. /\ NamesPlaced(s, r, n) /\ Guarded(s) /\ DecisionsPlaced(s, r) /\ BodiesPlaced(s, r)
      /\ GravesLeft(s, r) /\ HeadGuarded(s, r, n)
  BY DEF StackFits
<1>2. /\ Len(s) \in Nat /\ Len(s) > 2 /\ s[2] \in Operations /\ n # "eof"
      /\ \A i \in 2 .. Len(s) : s[i] # "node"
  BY <1>1, LenProperties DEF HeadGuarded
<1>3. s[2] \notin {"is_valid_var", "in_bounds", "(", "comma", "lbrace", "semicolon", "body",
                   "grave", "end"}
  BY <1>2 DEF Operations
<1>4. /\ t \in Seq(Symbols) /\ DOMAIN s = 1 .. Len(s)
      /\ Len(t) = Len(s) - 2 /\ DOMAIN t = 1 .. Len(s) - 2
  <2>1. /\ Tail(s) \in Seq(Symbols) /\ Len(Tail(s)) = Len(s) - 1 /\ DOMAIN s = 1 .. Len(s)
    BY TailOfStack
  <2>2. Tail(s) # <<>>
    <3>1. Len(Tail(s)) # 0
      BY <1>2, <2>1
    <3> QED BY <3>1, EmptySeq
  <2> QED BY <1>2, <2>1, <2>2, TailOfStack
<1>5. \A i \in 1 .. Len(s) - 2 : t[i] = s[i + 2]
  <2>1. /\ Tail(s) \in Seq(Symbols) /\ Len(Tail(s)) = Len(s) - 1
        /\ \A i \in 1 .. Len(s) - 1 : Tail(s)[i] = s[i + 1]
    BY TailOfStack
  <2>2. Tail(s) # <<>>
    <3>1. Len(Tail(s)) # 0
      BY <1>2, <2>1
    <3> QED BY <3>1, EmptySeq
  <2>3. \A i \in 1 .. Len(Tail(s)) - 1 : t[i] = Tail(s)[i + 1]
    BY <2>1, <2>2, TailOfStack
  <2> QED BY <1>2, <2>1, <2>3
<1>6. t # <<>> /\ Len(t) > 0
  <2>1. Len(t) > 0 /\ Len(t) # 0
    <3>1. Len(t) = Len(s) - 2
      BY <1>4
    <3> QED BY <1>2, <3>1
  <2> QED BY <2>1, EmptySeq
<1>7. NamesPlaced(t, r, n)
  <2>1. ASSUME NEW i \in 1 .. Len(s) - 2, Unchecked(t, i)
        PROVE  i > 3 /\ t[i - 1] = "is_valid_var" /\ t[i - 2] = "in_bounds"
               /\ t[i - 3] \in {"(", "comma"}
    <3>1. /\ i + 2 \in DOMAIN s /\ (i + 2) - 1 = i + 1 /\ (i + 2) - 2 = i /\ (i + 2) - 3 = i - 1
          /\ i + 2 > 1 /\ i + 2 > 2 /\ (i > 1 => i + 2 > 3)
      BY <1>2, <1>4, <2>1
    <3>2. Unchecked(s, i + 2)
      <4>1. /\ i \in 1 .. Len(s) - 3 /\ t[i] = "string_node"
            /\ t[i + 1] \in {")", ".DIE", "more_names"}
        BY <1>2, <1>4, <2>1 DEF Unchecked
      <4>2. t[i] = s[i + 2] /\ t[i + 1] = s[i + 3] /\ (i + 2) + 1 = i + 3
            /\ i + 2 \in 1 .. Len(s) - 1
        BY <1>2, <1>5, <4>1
      <4> QED BY <4>1, <4>2 DEF Unchecked
    <3>3. s[i + 1] = "is_valid_var" /\ s[i] = "in_bounds"
          /\ (i > 1 => s[i - 1] \in {"(", "comma"})
      BY <1>1, <3>1, <3>2 DEF NamesPlaced
    <3>4. i # 1 /\ i # 2 /\ i # 3
      BY <1>3, <3>3
    <3>5. i > 3 /\ i - 1 \in 1 .. Len(s) - 2 /\ i - 2 \in 1 .. Len(s) - 2
          /\ i - 3 \in 1 .. Len(s) - 2
      BY <1>2, <2>1, <3>4
    <3>6. t[i - 1] = s[i + 1] /\ t[i - 2] = s[i] /\ t[i - 3] = s[i - 1]
      BY <1>2, <1>5, <3>5
    <3> QED BY <3>3, <3>5, <3>6
  <2>2. ASSUME NEW i \in DOMAIN t, Unchecked(t, i)
        PROVE  /\ i = 1 => n = "name"
               /\ i > 1 => t[i - 1] = "is_valid_var"
               /\ i > 2 => t[i - 2] = "in_bounds"
               /\ IF i > 3 THEN t[i - 3] \in {"(", "comma"} ELSE AfterStart(r)
    <3>1. i \in 1 .. Len(s) - 2
      BY <1>4, <2>2
    <3>2. i > 3 /\ t[i - 1] = "is_valid_var" /\ t[i - 2] = "in_bounds"
          /\ t[i - 3] \in {"(", "comma"}
      BY <2>1, <2>2, <3>1
    <3> QED BY <1>2, <3>1, <3>2
  <2> QED BY <2>2 DEF NamesPlaced
<1>8. Guarded(t)
  <2>1. ASSUME NEW i \in 2 .. Len(t), t[i] \in Looking
        PROVE  \/ t[i - 1] = "in_bounds"
               \/ Unchecked(t, i - 1)
               \/ t[i] = "body"
               \/ t[i] = ")" /\ t[i - 1] = "executed"
               \/ t[i] = ".DIE" /\ t[i - 1] \in {"dying", "more_names"}
    <3>1. /\ i + 2 \in 2 .. Len(s) /\ t[i] = s[i + 2] /\ t[i - 1] = s[i + 1]
          /\ (i + 2) - 1 = i + 1 /\ ~ (i + 2 < 4) /\ i - 1 \in 1 .. Len(t) - 1
          /\ (i - 1) + 1 = i /\ (i + 1) + 1 = i + 2
      BY <1>2, <1>4, <1>5, <2>1
    <3>2. \/ s[i + 1] = "in_bounds"
          \/ Unchecked(s, i + 1)
          \/ s[i + 2] = "body"
          \/ s[i + 2] = ")" /\ s[i + 1] = "executed"
          \/ s[i + 2] = ".DIE" /\ s[i + 1] \in {"dying", "more_names"}
      BY <1>1, <2>1, <3>1 DEF Guarded
    <3>3. Unchecked(s, i + 1) => Unchecked(t, i - 1)
      BY <3>1 DEF Unchecked
    <3> QED BY <3>1, <3>2, <3>3
  <2> QED BY <2>1 DEF Guarded
<1>9. ASSUME NEW i \in 1 .. Len(s) - 2
      PROVE  /\ t[i] # "grave"
             /\ t[i] = "dying" => i = 1 /\ AfterStart(r)
             /\ t[i] \in {"dying", "more_names"} => i < Len(t) /\ t[i + 1] = ".DIE"
             /\ t[i] = "executed" =>
                  i < Len(t) /\ t[i + 1] = ")" /\ i > 2 /\ t[i - 1] = "in_bounds" /\ t[i - 2] = "("
  <2>1. ASSUME NEW k \in DOMAIN s
        PROVE  /\ s[k] \in {"grave", "dying"} => AfterStart(r)
               /\ s[k] = "grave" => k = 1
               /\ s[k] = "dying" => k = 1 \/ (k = 3 /\ s[1] = "node")
               /\ s[k] \in {"dying", "more_names"} => k < Len(s) /\ s[k + 1] = ".DIE"
               /\ s[k] = "executed" =>
                    /\ k < Len(s) /\ s[k + 1] = ")"
                    /\ k > 1 => s[k - 1] = "in_bounds"
                    /\ IF k > 2 THEN s[k - 2] = "(" ELSE AfterStart(r)
    BY <1>1, <2>1 DEF DecisionsPlaced
  <2>2. /\ i + 2 \in DOMAIN s /\ t[i] = s[i + 2] /\ (i + 2) + 1 = i + 3
        /\ (i + 2) - 1 = i + 1 /\ (i + 2) - 2 = i /\ i + 2 > 1 /\ i + 2 > 2
        /\ i + 2 < Len(s) <=> i < Len(t)
    BY <1>2, <1>4, <1>5, <1>9
  <2>3. i < Len(t) => t[i + 1] = s[i + 3]
    BY <1>2, <1>4, <1>5, <1>9
  <2>4. i + 2 # 1 /\ (i + 2 = 3 => i = 1)
    BY <1>2, <1>9
  <2>5. /\ s[i + 2] # "grave"
        /\ s[i + 2] = "dying" => i = 1 /\ AfterStart(r)
        /\ s[i + 2] \in {"dying", "more_names"} => i + 2 < Len(s) /\ s[i + 3] = ".DIE"
        /\ s[i + 2] = "executed" =>
             i + 2 < Len(s) /\ s[i + 3] = ")" /\ s[i + 1] = "in_bounds" /\ s[i] = "("
    BY <2>1, <2>2, <2>4
  <2>6. ASSUME t[i] = "executed"
        PROVE  i > 2 /\ t[i - 1] = "in_bounds" /\ t[i - 2] = "("
    <3>1. s[i + 1] = "in_bounds" /\ s[i] = "("
      BY <2>2, <2>5, <2>6
    <3>2. i # 1 /\ i # 2
      BY <1>3, <3>1
    <3>3. i > 2 /\ i - 1 \in 1 .. Len(s) - 2 /\ i - 2 \in 1 .. Len(s) - 2
      BY <1>2, <1>9, <3>2
    <3>4. t[i - 1] = s[i + 1] /\ t[i - 2] = s[i]
      BY <1>2, <1>5, <3>3
    <3> QED BY <3>1, <3>3, <3>4
  <2> QED BY <2>2, <2>3, <2>5, <2>6
<1>10. DecisionsPlaced(t, r)
  BY <1>4, <1>9 DEF DecisionsPlaced
<1>11. BodiesPlaced(t, r)
  <2>1. ASSUME NEW i \in 1 .. Len(s) - 2, t[i] = "body"
        PROVE  /\ i < Len(t) /\ t[i + 1] = "end"
               /\ Contains(r, "lbrace") \/ \E j \in 1 .. i - 1 : t[j] = "lbrace"
               /\ i > 2
               /\ \/ t[i - 1] = "end" /\ t[i - 2] \in {"semicolon", "body"}
                  \/ t[i - 1] = "in_bounds" /\ t[i - 2] = "lbrace"
    <3>1. /\ i + 2 \in DOMAIN s /\ t[i] = s[i + 2] /\ (i + 2) + 1 = i + 3
          /\ (i + 2) - 1 = i + 1 /\ (i + 2) - 2 = i /\ i + 2 > 1 /\ i + 2 > 2
          /\ i + 2 < Len(s) <=> i < Len(t)
      BY <1>2, <1>4, <1>5, <2>1
    <3>2. ASSUME NEW k \in DOMAIN s, s[k] = "body", k > 2
          PROVE  /\ k < Len(s) /\ s[k + 1] = "end"
                 /\ Contains(r, "lbrace") \/ \E j \in 1 .. k - 1 : s[j] = "lbrace"
                 /\ \/ s[k - 1] = "grave"
                    \/ s[k - 1] = "end" /\ s[k - 2] \in {"semicolon", "body"}
                    \/ s[k - 1] = "in_bounds" /\ s[k - 2] = "lbrace"
      BY <1>1, <3>2 DEF BodiesPlaced, AfterGrave
    <3>3. /\ i + 2 < Len(s) /\ s[i + 3] = "end"
          /\ Contains(r, "lbrace") \/ \E j \in 1 .. i + 1 : s[j] = "lbrace"
          /\ \/ s[i + 1] = "grave"
             \/ s[i + 1] = "end" /\ s[i] \in {"semicolon", "body"}
             \/ s[i + 1] = "in_bounds" /\ s[i] = "lbrace"
      BY <2>1, <3>1, <3>2
    <3>4. s[i + 1] # "grave"
      <4>1. i + 1 \in DOMAIN s /\ i + 1 # 1
        BY <1>2, <1>4, <2>1
      <4> QED BY <1>1, <4>1 DEF DecisionsPlaced
    <3>5. i # 1 /\ i # 2
      BY <1>3, <3>3, <3>4
    <3>6. i > 2 /\ i - 1 \in 1 .. Len(s) - 2 /\ i - 2 \in 1 .. Len(s) - 2
      BY <1>2, <2>1, <3>5
    <3>7. t[i - 1] = s[i + 1] /\ t[i - 2] = s[i]
      BY <1>2, <1>5, <3>6
    <3>8. t[i + 1] = s[i + 3]
      BY <1>2, <1>4, <1>5, <3>1, <3>3
    <3>9. ASSUME NEW j \in 1 .. i + 1, s[j] = "lbrace"
          PROVE  \E l \in 1 .. i - 1 : t[l] = "lbrace"
      <4>1. j # 1 /\ j # 2
        BY <1>3, <3>9
      <4>2. j - 2 \in 1 .. i - 1 /\ j - 2 \in 1 .. Len(s) - 2 /\ (j - 2) + 2 = j
        BY <1>2, <2>1, <4>1
      <4>3. t[j - 2] = s[j]
        BY <1>5, <4>2
      <4> QED BY <3>9, <4>2, <4>3
    <3> QED BY <3>1, <3>3, <3>4, <3>6, <3>7, <3>8, <3>9
  <2>2. ASSUME NEW i \in DOMAIN t, t[i] = "body"
        PROVE  /\ i < Len(t) /\ t[i + 1] = "end"
               /\ Contains(r, "lbrace") \/ \E j \in 1 .. i - 1 : t[j] = "lbrace"
               /\ i > 1
               /\ \/ AfterGrave(t, r, i)
                  \/ t[i - 1] = "in_bounds" /\ IF i > 2 THEN t[i - 2] = "lbrace" ELSE AfterStart(r)
    <3>1. i \in 1 .. Len(s) - 2
      BY <1>4, <2>2
    <3>2. i > 2 /\ i > 1
      BY <1>2, <2>1, <2>2, <3>1
    <3>3. \/ t[i - 1] = "end" /\ t[i - 2] \in {"semicolon", "body"}
          \/ t[i - 1] = "in_bounds" /\ t[i - 2] = "lbrace"
      BY <2>1, <2>2, <3>1
    <3>4. /\ i < Len(t) /\ t[i + 1] = "end"
          /\ Contains(r, "lbrace") \/ \E j \in 1 .. i - 1 : t[j] = "lbrace"
      BY <2>1, <2>2, <3>1
    <3> QED BY <3>2, <3>3, <3>4 DEF AfterGrave
  <2> QED BY <2>2 DEF BodiesPlaced
<1>12. GravesLeft(t, r)
  <2>1. \/ s[Len(s)] = "grave"
        \/ s[Len(s)] = "end" /\ s[Len(s) - 1] \in {"semicolon", "body"}
    <3>1. AfterGrave(s, r, Len(s) + 1)
      BY <1>1 DEF GravesLeft
    <3>2. (Len(s) + 1) - 1 = Len(s) /\ (Len(s) + 1) - 2 = Len(s) - 1 /\ Len(s) + 1 > 2
      BY <1>2
    <3> QED BY <3>1, <3>2 DEF AfterGrave
  <2>2. s[Len(s)] # "grave"
    <3>1. Len(s) \in DOMAIN s /\ Len(s) # 1
      BY <1>2, <1>4
    <3> QED BY <1>1, <3>1 DEF DecisionsPlaced
  <2>3. Len(s) # 3
    BY <1>3, <2>1, <2>2
  <2>4. /\ Len(t) + 1 > 2 /\ (Len(t) + 1) - 1 \in 1 .. Len(s) - 2
        /\ (Len(t) + 1) - 2 \in 1 .. Len(s) - 2
        /\ ((Len(t) + 1) - 1) + 2 = Len(s) /\ ((Len(t) + 1) - 2) + 2 = Len(s) - 1
    BY <1>2, <1>4, <2>3
  <2>5. t[(Len(t) + 1) - 1] = s[Len(s)] /\ t[(Len(t) + 1) - 2] = s[Len(s) - 1]
    BY <1>5, <2>4
  <2> QED BY <1>6, <2>1, <2>2, <2>4, <2>5 DEF GravesLeft, AfterGrave
<1>13. HeadGuarded(t, r, n)
  <2>1. 1 \in 1 .. Len(s) - 2 /\ \A i \in 2 .. Len(t) : i \in 1 .. Len(s) - 2
    BY <1>2, <1>4
  <2>2. \A i \in 1 .. Len(s) - 2 : i + 2 \in 2 .. Len(s)
    BY <1>2
  <2>3. \A i \in 1 .. Len(s) - 2 : t[i] # "node"
    BY <1>2, <1>5, <2>2
  <2> QED BY <1>2, <2>1, <2>3 DEF HeadGuarded
<1> QED BY <1>4, <1>7, <1>8, <1>10, <1>11, <1>12, <1>13 DEF StackFits

(***************************************************************************)
(* A decision has been made: the rule w takes the place of the symbol d.   *)
(***************************************************************************)
\* What every rule that may take the place of d fulfils.
RulePlaces(w, d, r, i) ==
  /\ w[i] = "string_node" /\ (i < Len(w) => w[i + 1] \in {")", ".DIE", "more_names"}) =>
       /\ i > 1 /\ w[i - 1] = "is_valid_var"
       /\ i > 2 => w[i - 2] = "in_bounds"
       /\ IF i > 3 THEN w[i - 3] \in {"(", "comma"} ELSE AfterStart(r)
  /\ w[i] = "grave" => i = 1 /\ AfterStart(r)
  /\ w[i] = "dying" => i = 3 /\ w[1] = "node" /\ i < Len(w) /\ w[i + 1] = ".DIE" /\ AfterStart(r)
  /\ w[i] = "more_names" => i = Len(w) /\ d \in {"dying", "more_names"}
  /\ w[i] = "executed" =>
       i < Len(w) /\ w[i + 1] = ")" /\ i > 2 /\ w[i - 1] = "in_bounds" /\ w[i - 2] = "("
  /\ w[i] = "body" =>
       \/ /\ d = "grave" /\ i > 2 /\ i < Len(w) /\ w[i + 1] = "end"
          /\ w[i - 1] = "in_bounds" /\ w[i - 2] = "lbrace"
       \/ d = "body" /\ i = Len(w) /\ i = 2 /\ w[1] = "grave"

RuleGuards(w, i) ==
  /\ w[i] # "node"
  /\ w[i] \in Looking =>
       \/ w[i - 1] = "in_bounds"
       \/ w[i - 1] = "string_node" /\ w[i] \in {")", ".DIE", "more_names"}
       \/ i < 4 /\ w[1] = "node"
       \/ w[i] = "body"
       \/ w[i] = ")" /\ w[i - 1] = "executed"
       \/ w[i] = ".DIE" /\ w[i - 1] = "dying"

RuleEnds(w, d) ==
  /\ w[1] = "node" => Len(w) > 2 /\ w[2] \in Operations
  /\ d = "grave" => w[Len(w)] = "end" /\ w[Len(w) - 1] \in {"semicolon", "body"}
  /\ d = "body" => w[Len(w)] \in {"semicolon", "body"}
  /\ d = "executed" => w[Len(w)] = "in_bounds"
  /\ d \in {"dying", "more_names"} => w[Len(w)] \in {"in_bounds", "string_node", "more_names"}

RuleFits(w, d, r) ==
  /\ w \in Seq(Symbols) /\ Len(w) > 1
  /\ \A i \in 1 .. Len(w) : RulePlaces(w, d, r, i)
  /\ \A i \in 2 .. Len(w) : RuleGuards(w, i)
  /\ RuleEnds(w, d)

\* A stack u with the rule w in the place of the head of s.
Replaced(s, w, u) ==
  /\ Len(s) \in Nat \ {0} /\ Len(w) \in Nat /\ Len(w) > 1
  /\ Len(u) = Len(w) + Len(s) - 1
  /\ DOMAIN s = 1 .. Len(s) /\ DOMAIN u = 1 .. Len(w) + Len(s) - 1
  /\ \A i \in 1 .. Len(w) : u[i] = w[i]
  /\ \A i \in 2 .. Len(s) : u[Len(w) - 1 + i] = s[i]

\* The concatenation is such a stack.
LEMMA ReplacedBy ==
  ASSUME NEW s \in Seq(Symbols), s # <<>>, NEW w \in Seq(Symbols), Len(w) > 1,
         NEW u, u = w \o Tail(s)
  PROVE  u \in Seq(Symbols) /\ Replaced(s, w, u)
<1>1. /\ Tail(s) \in Seq(Symbols) /\ Len(s) \in Nat \ {0} /\ Len(Tail(s)) = Len(s) - 1
      /\ DOMAIN s = 1 .. Len(s)
      /\ \A i \in 1 .. Len(s) - 1 : Tail(s)[i] = s[i + 1]
  BY TailOfStack
<1>2. /\ u \in Seq(Symbols)
      /\ Len(u) = Len(w) + Len(Tail(s))
      /\ \A i \in 1 .. Len(w) + Len(Tail(s)) :
           u[i] = IF i <= Len(w) THEN w[i] ELSE Tail(s)[i - Len(w)]
  BY <1>1, ConcatProperties
<1>3. Len(w) \in Nat /\ DOMAIN u = 1 .. Len(u)
  BY <1>2, LenProperties
<1>4. ASSUME NEW i \in 1 .. Len(w)
      PROVE  u[i] = w[i]
  <2>1. i \in 1 .. Len(w) + Len(Tail(s)) /\ i <= Len(w)
    BY <1>1, <1>3, <1>4
  <2> QED BY <1>2, <2>1
<1>5. ASSUME NEW i \in 2 .. Len(s)
      PROVE  u[Len(w) - 1 + i] = s[i]
  <2>1. /\ Len(w) - 1 + i \in 1 .. Len(w) + Len(Tail(s)) /\ ~ (Len(w) - 1 + i <= Len(w))
        /\ (Len(w) - 1 + i) - Len(w) = i - 1 /\ i - 1 \in 1 .. Len(s) - 1 /\ (i - 1) + 1 = i
    BY <1>1, <1>3, <1>5
  <2>2. u[Len(w) - 1 + i] = Tail(s)[i - 1]
    BY <1>2, <2>1
  <2> QED BY <1>1, <2>1, <2>2
<1> QED BY <1>1, <1>2, <1>3, <1>4, <1>5 DEF Replaced

\* The element j of s, which is the element i of u.
Behind(s, w, i, j) == j \in 2 .. Len(s) /\ i = Len(w) - 1 + j

\* Which part of the stack an element belongs to.
LEMMA ReplacedIndex ==
  ASSUME NEW s, NEW w, NEW u, Replaced(s, w, u), NEW i \in DOMAIN u
  PROVE  \/ i \in 1 .. Len(w)
         \/ \E j : Behind(s, w, i, j)
<1>1. CASE i <= Len(w)
  BY <1>1 DEF Replaced
<1>2. CASE i > Len(w)
  <2>1. i - Len(w) + 1 \in 2 .. Len(s) /\ i = Len(w) - 1 + (i - Len(w) + 1)
    BY <1>2 DEF Replaced
  <2> QED BY <2>1 DEF Behind
<1>3. i \in Int /\ Len(w) \in Int
  BY DEF Replaced
<1> QED BY <1>1, <1>2, <1>3

\* The elements around one of the rule's.
LEMMA ReplacedInside ==
  ASSUME NEW s, NEW w, NEW u, Replaced(s, w, u), NEW i \in 1 .. Len(w)
  PROVE  /\ i \in Nat \ {0} /\ u[i] = w[i]
         /\ i > 1 => u[i - 1] = w[i - 1]
         /\ i > 2 => u[i - 2] = w[i - 2]
         /\ i > 3 => u[i - 3] = w[i - 3]
         /\ i < Len(w) => u[i + 1] = w[i + 1] /\ i < Len(u)
         /\ i = Len(w) /\ Len(s) > 1 => u[i + 1] = s[2] /\ i < Len(u)
         /\ i = Len(w) /\ i < Len(u) => Len(s) > 1
<1>1. /\ Len(s) \in Nat \ {0} /\ Len(w) \in Nat /\ Len(w) > 1
      /\ Len(u) = Len(w) + Len(s) - 1
  BY DEF Replaced
<1>2. \A k \in 1 .. Len(w) : u[k] = w[k]
  BY DEF Replaced
<1>3. ASSUME Len(s) > 1
      PROVE  u[Len(w) + 1] = s[2]
  <2>1. 2 \in 2 .. Len(s) /\ Len(w) - 1 + 2 = Len(w) + 1
    BY <1>1, <1>3
  <2> QED BY <2>1 DEF Replaced
<1>4. i \in Nat \ {0}
  BY <1>1
<1>5. i > 1 => u[i - 1] = w[i - 1]
  BY <1>1, <1>2
<1>6. i > 2 => u[i - 2] = w[i - 2]
  BY <1>1, <1>2
<1>7. i > 3 => u[i - 3] = w[i - 3]
  BY <1>1, <1>2
<1>8. i < Len(w) => u[i + 1] = w[i + 1] /\ i < Len(u)
  BY <1>1, <1>2
<1>9. i = Len(w) => (Len(s) > 1 <=> i < Len(u))
  BY <1>1
<1> QED BY <1>2, <1>3, <1>4, <1>5, <1>6, <1>7, <1>8, <1>9

\* The elements around one that was there before.
LEMMA ReplacedBehind ==
  ASSUME NEW s, NEW w, NEW u, Replaced(s, w, u), NEW i, NEW j, Behind(s, w, i, j)
  PROVE  /\ j \in 2 .. Len(s)
         /\ i \in Nat /\ j \in Nat /\ i > Len(w) /\ i > 2 /\ u[i] = s[j]
         /\ j < Len(s) <=> i < Len(u)
         /\ j < Len(s) => u[i + 1] = s[j + 1]
         /\ u[i - 1] = IF j > 2 THEN s[j - 1] ELSE w[Len(w)]
         /\ u[i - 2] = IF j > 3 THEN s[j - 2] ELSE IF j = 3 THEN w[Len(w)] ELSE w[Len(w) - 1]
         /\ j > 4 => i > 3 /\ u[i - 3] = s[j - 3]
<1>1. /\ Len(s) \in Nat \ {0} /\ Len(w) \in Nat /\ Len(w) > 1
      /\ Len(u) = Len(w) + Len(s) - 1
      /\ j \in 2 .. Len(s) /\ i = Len(w) - 1 + j
  BY DEF Replaced, Behind
<1>2. \A k \in 1 .. Len(w) : u[k] = w[k]
  BY DEF Replaced
<1>3. \A k \in 2 .. Len(s) : u[Len(w) - 1 + k] = s[k]
  BY DEF Replaced
<1>4. /\ i \in Nat /\ j \in Nat /\ i > Len(w) /\ i > 2
      /\ j < Len(s) <=> i < Len(u)
  BY <1>1
<1>5. u[i] = s[j]
  BY <1>1, <1>3
<1>6. j < Len(s) => u[i + 1] = s[j + 1]
  <2>1. j < Len(s) => j + 1 \in 2 .. Len(s) /\ Len(w) - 1 + (j + 1) = i + 1
    BY <1>1, <1>4
  <2> QED BY <1>3, <2>1
<1>7. u[i - 1] = IF j > 2 THEN s[j - 1] ELSE w[Len(w)]
  <2>1. CASE j > 2
    <3>1. j - 1 \in 2 .. Len(s) /\ Len(w) - 1 + (j - 1) = i - 1
      BY <1>1, <1>4, <2>1
    <3> QED BY <1>3, <2>1, <3>1
  <2>2. CASE j = 2
    <3>1. i - 1 = Len(w) /\ Len(w) \in 1 .. Len(w) /\ ~ (j > 2)
      BY <1>1, <1>4, <2>2
    <3> QED BY <1>2, <3>1
  <2> QED BY <1>1, <1>4, <2>1, <2>2
<1>8. u[i - 2] = IF j > 3 THEN s[j - 2] ELSE IF j = 3 THEN w[Len(w)] ELSE w[Len(w) - 1]
  <2>1. CASE j > 3
    <3>1. j - 2 \in 2 .. Len(s) /\ Len(w) - 1 + (j - 2) = i - 2
      BY <1>1, <1>4, <2>1
    <3> QED BY <1>3, <2>1, <3>1
  <2>2. CASE j = 3
    <3>1. i - 2 = Len(w) /\ Len(w) \in 1 .. Len(w) /\ ~ (j > 3)
      BY <1>1, <1>4, <2>2
    <3> QED BY <1>2, <2>2, <3>1
  <2>3. CASE j = 2
    <3>1. i - 2 = Len(w) - 1 /\ Len(w) - 1 \in 1 .. Len(w) /\ ~ (j > 3) /\ j # 3
      BY <1>1, <1>4, <2>3
    <3> QED BY <1>2, <2>3, <3>1
  <2> QED BY <1>1, <1>4, <2>1, <2>2, <2>3
<1>9. j > 4 => i > 3 /\ u[i - 3] = s[j - 3]
  <2>1. j > 4 => j - 3 \in 2 .. Len(s) /\ Len(w) - 1 + (j - 3) = i - 3 /\ i > 3
    BY <1>1, <1>4
  <2> QED BY <1>3, <2>1
<1> QED BY <1>1, <1>4, <1>5, <1>6, <1>7, <1>8, <1>9

\* Names.
LEMMA ReplaceNames ==
  ASSUME NEW s, NEW w, NEW u, Replaced(s, w, u), s[1] \in Decisions,
         NEW r, NEW n, NamesPlaced(s, r, n), RuleFits(w, s[1], r)
  PROVE  NamesPlaced(u, r, n)
<1>1. /\ Len(s) \in Nat \ {0} /\ Len(w) \in Nat /\ Len(w) > 1
      /\ Len(u) = Len(w) + Len(s) - 1 /\ DOMAIN s = 1 .. Len(s)
  BY DEF Replaced
<1>2. s[1] \notin {"string_node", "is_valid_var", "in_bounds", "(", "comma"}
  BY DEF Decisions
<1>3. ASSUME NEW i \in DOMAIN u, Unchecked(u, i)
      PROVE  /\ i > 1 /\ u[i - 1] = "is_valid_var"
             /\ i > 2 => u[i - 2] = "in_bounds"
             /\ IF i > 3 THEN u[i - 3] \in {"(", "comma"} ELSE AfterStart(r)
  <2>1. u[i] = "string_node" /\ u[i + 1] \in {")", ".DIE", "more_names"}
    BY <1>3 DEF Unchecked
  <2>2. CASE i \in 1 .. Len(w)
    <3>1. /\ i \in Nat \ {0} /\ u[i] = w[i]
          /\ i > 1 => u[i - 1] = w[i - 1]
          /\ i > 2 => u[i - 2] = w[i - 2]
          /\ i > 3 => u[i - 3] = w[i - 3]
          /\ i < Len(w) => u[i + 1] = w[i + 1]
      BY <2>2, ReplacedInside
    <3>2. w[i] = "string_node" /\ (i < Len(w) => w[i + 1] \in {")", ".DIE", "more_names"})
      BY <2>1, <3>1
    <3>3. /\ i > 1 /\ w[i - 1] = "is_valid_var"
          /\ i > 2 => w[i - 2] = "in_bounds"
          /\ IF i > 3 THEN w[i - 3] \in {"(", "comma"} ELSE AfterStart(r)
      BY <2>2, <3>2 DEF RuleFits, RulePlaces, RuleGuards, RuleEnds
    <3> QED BY <3>1, <3>3
  <2>3. ASSUME NEW j, Behind(s, w, i, j)
        PROVE  i > 3 /\ u[i - 1] = "is_valid_var" /\ u[i - 2] = "in_bounds"
               /\ u[i - 3] \in {"(", "comma"}
    <3>1. /\ j \in 2 .. Len(s) /\ j \in Nat /\ u[i] = s[j]
          /\ j < Len(s) <=> i < Len(u)
          /\ j < Len(s) => u[i + 1] = s[j + 1]
          /\ u[i - 1] = IF j > 2 THEN s[j - 1] ELSE w[Len(w)]
          /\ u[i - 2] = IF j > 3 THEN s[j - 2] ELSE IF j = 3 THEN w[Len(w)] ELSE w[Len(w) - 1]
          /\ j > 4 => i > 3 /\ u[i - 3] = s[j - 3]
      BY <2>3, ReplacedBehind, SMTT(30)
    <3>2. i < Len(u)
      BY <1>1, <1>3 DEF Unchecked
    <3>3. Unchecked(s, j) /\ j \in DOMAIN s
      BY <1>1, <2>1, <3>1, <3>2 DEF Unchecked
    <3>4. /\ j > 1 => s[j - 1] = "is_valid_var"
          /\ j > 2 => s[j - 2] = "in_bounds"
          /\ j > 3 => s[j - 3] \in {"(", "comma"}
      BY <3>3 DEF NamesPlaced
    <3>5. j > 1 /\ j # 2 /\ j # 3 /\ j # 4
      BY <1>2, <3>1, <3>4
    <3>6. j > 4
      BY <3>1, <3>5
    <3> QED BY <3>1, <3>4, <3>6
  <2>4. i \in Int
    BY <1>1, <1>3 DEF Unchecked
  <2> QED BY <1>1, <2>2, <2>3, <2>4, ReplacedIndex
<1> QED BY <1>3 DEF NamesPlaced

\* The symbols that look at a token.
LEMMA ReplaceGuarded ==
  ASSUME NEW s, NEW w, NEW u, Replaced(s, w, u), s[1] \in Decisions,
         Guarded(s), NEW r, RuleFits(w, s[1], r)
  PROVE  Guarded(u)
<1>1. /\ Len(s) \in Nat \ {0} /\ Len(w) \in Nat /\ Len(w) > 1
      /\ Len(u) = Len(w) + Len(s) - 1 /\ DOMAIN s = 1 .. Len(s) /\ DOMAIN u = 1 .. Len(u)
  BY DEF Replaced
<1>2. s[1] \notin {"string_node", "in_bounds", "node"}
  BY DEF Decisions
<1>3. ASSUME NEW i \in 2 .. Len(u), u[i] \in Looking
      PROVE  \/ u[i - 1] = "in_bounds"
             \/ Unchecked(u, i - 1)
             \/ i < 4 /\ u[1] = "node"
             \/ u[i] = "body"
             \/ u[i] = ")" /\ u[i - 1] = "executed"
             \/ u[i] = ".DIE" /\ u[i - 1] \in {"dying", "more_names"}
  <2>1. ASSUME u[i - 1] = "string_node", u[i] \in {")", ".DIE", "more_names"}
        PROVE  Unchecked(u, i - 1)
    <3>1. i - 1 \in 1 .. Len(u) - 1 /\ (i - 1) + 1 = i
      BY <1>1, <1>3
    <3> QED BY <2>1, <3>1 DEF Unchecked
  <2>2. CASE i \in 1 .. Len(w)
    <3>1. u[i] = w[i] /\ u[i - 1] = w[i - 1] /\ u[1] = w[1]
      <4>1. 1 \in 1 .. Len(w) /\ i > 1
        BY <1>1, <1>3
      <4>2. u[i] = w[i] /\ (i > 1 => u[i - 1] = w[i - 1])
        BY <2>2, ReplacedInside
      <4>3. u[1] = w[1]
        BY <4>1, ReplacedInside
      <4> QED BY <4>1, <4>2, <4>3
    <3>2. i \in 2 .. Len(w)
      BY <1>1, <1>3, <2>2
    <3>3. \/ w[i - 1] = "in_bounds"
          \/ w[i - 1] = "string_node" /\ w[i] \in {")", ".DIE", "more_names"}
          \/ i < 4 /\ w[1] = "node"
          \/ w[i] = "body"
          \/ w[i] = ")" /\ w[i - 1] = "executed"
          \/ w[i] = ".DIE" /\ w[i - 1] = "dying"
      BY <1>3, <3>1, <3>2 DEF RuleFits, RulePlaces, RuleGuards, RuleEnds
    <3> QED BY <2>1, <3>1, <3>3
  <2>3. ASSUME NEW j, Behind(s, w, i, j)
        PROVE  \/ u[i - 1] = "in_bounds"
               \/ Unchecked(u, i - 1)
               \/ u[i] = "body"
               \/ u[i] = ")" /\ u[i - 1] = "executed"
               \/ u[i] = ".DIE" /\ u[i - 1] \in {"dying", "more_names"}
    <3>1. /\ j \in 2 .. Len(s) /\ j \in Nat /\ u[i] = s[j]
          /\ u[i - 1] = IF j > 2 THEN s[j - 1] ELSE w[Len(w)]
      BY <2>3, ReplacedBehind
    <3>2. \/ s[j - 1] = "in_bounds"
          \/ s[j - 1] = "string_node" /\ s[j] \in {")", ".DIE", "more_names"}
          \/ s[j] = "body"
          \/ s[j] = ")" /\ s[j - 1] = "executed"
          \/ s[j] = ".DIE" /\ s[j - 1] \in {"dying", "more_names"}
      <4>1. /\ j - 1 + 1 = j
            /\ s[j] \in Looking
        BY <1>3, <3>1
      <4> QED BY <1>2, <3>1, <4>1 DEF Guarded, Unchecked
    <3>3. CASE j > 2
      BY <2>1, <3>1, <3>2, <3>3
    <3>4. CASE j = 2
      <4>1. \/ s[2] = "body"
            \/ s[2] = ")" /\ s[1] = "executed"
            \/ s[2] = ".DIE" /\ s[1] \in {"dying", "more_names"}
        BY <1>2, <3>2, <3>4
      <4>2. u[i] = s[2] /\ u[i - 1] = w[Len(w)]
        BY <3>1, <3>4
      <4>3. /\ s[1] = "executed" => w[Len(w)] = "in_bounds"
            /\ s[1] \in {"dying", "more_names"} =>
                 w[Len(w)] \in {"in_bounds", "string_node", "more_names"}
        BY DEF RuleFits, RulePlaces, RuleGuards, RuleEnds
      <4> QED BY <2>1, <4>1, <4>2, <4>3
    <3> QED BY <3>1, <3>3, <3>4
  <2>4. i \in DOMAIN u
    BY <1>1, <1>3
  <2> QED BY <2>2, <2>3, <2>4, ReplacedIndex
<1> QED BY <1>3 DEF Guarded

\* The decisions.
LEMMA ReplaceDecisions ==
  ASSUME NEW s, NEW w, NEW u, Replaced(s, w, u), s[1] \in Decisions,
         NEW r, DecisionsPlaced(s, r), RuleFits(w, s[1], r)
  PROVE  DecisionsPlaced(u, r)
<1>1. /\ Len(s) \in Nat \ {0} /\ Len(w) \in Nat /\ Len(w) > 1
      /\ Len(u) = Len(w) + Len(s) - 1 /\ DOMAIN s = 1 .. Len(s) /\ DOMAIN u = 1 .. Len(u)
  BY DEF Replaced
<1>2. s[1] \notin {"in_bounds", "node", "("}
  BY DEF Decisions
<1>3. ASSUME NEW k \in DOMAIN s
      PROVE  /\ s[k] = "grave" => k = 1
             /\ s[k] = "dying" => k = 1 \/ (k = 3 /\ s[1] = "node")
             /\ s[k] \in {"dying", "more_names"} => k < Len(s) /\ s[k + 1] = ".DIE"
             /\ s[k] = "executed" =>
                  /\ k < Len(s) /\ s[k + 1] = ")"
                  /\ k > 1 => s[k - 1] = "in_bounds"
                  /\ k > 2 => s[k - 2] = "("
  BY <1>3 DEF DecisionsPlaced
<1>4. s[1] \in {"dying", "more_names"} => Len(s) > 1 /\ s[2] = ".DIE"
  <2>1. 1 \in DOMAIN s /\ 1 + 1 = 2
    BY <1>1
  <2> QED BY <1>3, <2>1
<1>5. ASSUME NEW i \in DOMAIN u
      PROVE  /\ u[i] = "grave" => i = 1 /\ AfterStart(r)
             /\ u[i] = "dying" => i = 3 /\ u[1] = "node" /\ AfterStart(r)
             /\ u[i] \in {"dying", "more_names"} => i < Len(u) /\ u[i + 1] = ".DIE"
             /\ u[i] = "executed" =>
                  i < Len(u) /\ u[i + 1] = ")" /\ i > 2 /\ u[i - 1] = "in_bounds" /\ u[i - 2] = "("
  <2>1. CASE i \in 1 .. Len(w)
    <3>1. /\ i \in Nat \ {0} /\ u[i] = w[i]
          /\ i > 1 => u[i - 1] = w[i - 1]
          /\ i > 2 => u[i - 2] = w[i - 2]
          /\ i < Len(w) => u[i + 1] = w[i + 1] /\ i < Len(u)
          /\ i = Len(w) /\ Len(s) > 1 => u[i + 1] = s[2] /\ i < Len(u)
      BY <2>1, ReplacedInside
    <3>2. u[1] = w[1]
      <4>1. 1 \in 1 .. Len(w)
        BY <1>1
      <4> QED BY <4>1, ReplacedInside
    <3>3. /\ w[i] = "grave" => i = 1 /\ AfterStart(r)
          /\ w[i] = "dying" => i = 3 /\ w[1] = "node" /\ i < Len(w) /\ w[i + 1] = ".DIE" /\ AfterStart(r)
          /\ w[i] = "more_names" => i = Len(w) /\ s[1] \in {"dying", "more_names"}
          /\ w[i] = "executed" =>
               i < Len(w) /\ w[i + 1] = ")" /\ i > 2 /\ w[i - 1] = "in_bounds" /\ w[i - 2] = "("
      BY <2>1 DEF RuleFits, RulePlaces, RuleGuards, RuleEnds
    <3>4. w[i] = "executed" =>
            i < Len(u) /\ u[i + 1] = ")" /\ i > 2 /\ u[i - 1] = "in_bounds" /\ u[i - 2] = "("
      BY <3>1, <3>3
    <3>5. w[i] = "more_names" => i < Len(u) /\ u[i + 1] = ".DIE"
      BY <1>4, <3>1, <3>3
    <3>6. w[i] = "dying" => i = 3 /\ u[1] = "node" /\ AfterStart(r) /\ i < Len(u) /\ u[i + 1] = ".DIE"
      BY <3>1, <3>2, <3>3
    <3>7. w[i] = "grave" => i = 1 /\ AfterStart(r)
      BY <3>3
    <3>8. u[i] = w[i]
      BY <3>1
    <3> QED BY <3>4, <3>5, <3>6, <3>7, <3>8
  <2>2. ASSUME NEW j, Behind(s, w, i, j)
        PROVE  /\ u[i] \notin {"grave", "dying"}
               /\ u[i] = "more_names" => i < Len(u) /\ u[i + 1] = ".DIE"
               /\ u[i] = "executed" =>
                    i < Len(u) /\ u[i + 1] = ")" /\ i > 2 /\ u[i - 1] = "in_bounds" /\ u[i - 2] = "("
    <3>1. /\ j \in 2 .. Len(s) /\ j \in Nat /\ i > 2 /\ u[i] = s[j]
          /\ j < Len(s) <=> i < Len(u)
          /\ j < Len(s) => u[i + 1] = s[j + 1]
          /\ u[i - 1] = IF j > 2 THEN s[j - 1] ELSE w[Len(w)]
          /\ u[i - 2] = IF j > 3 THEN s[j - 2] ELSE IF j = 3 THEN w[Len(w)] ELSE w[Len(w) - 1]
      BY <2>2, ReplacedBehind
    <3>2. j \in DOMAIN s /\ j > 1 /\ j # 1
      BY <1>1, <3>1
    <3>3. /\ s[j] \notin {"grave", "dying"}
          /\ s[j] = "more_names" => j < Len(s) /\ s[j + 1] = ".DIE"
          /\ s[j] = "executed" =>
               /\ j < Len(s) /\ s[j + 1] = ")" /\ s[j - 1] = "in_bounds"
               /\ j > 2 => s[j - 2] = "("
      BY <1>2, <1>3, <3>2
    <3>4. ASSUME s[j] = "executed"
          PROVE  u[i - 1] = "in_bounds" /\ u[i - 2] = "("
      <4>1. s[j - 1] = "in_bounds" /\ (j > 2 => s[j - 2] = "(")
        BY <3>3, <3>4
      <4>2. j # 2 /\ j # 3
        BY <1>2, <4>1
      <4>3. j > 2 /\ j > 3
        BY <3>1, <3>2, <4>2
      <4>4. u[i - 1] = s[j - 1] /\ u[i - 2] = s[j - 2]
        BY <3>1, <4>3
      <4> QED BY <4>1, <4>3, <4>4
    <3>5. s[j] \in {"more_names", "executed"} => i < Len(u) /\ u[i + 1] = s[j + 1]
      BY <3>1, <3>3
    <3>6. u[i] = s[j] /\ i > 2
      BY <3>1
    <3> QED BY <3>3, <3>4, <3>5, <3>6
  <2> QED BY <2>1, <2>2, ReplacedIndex
<1> QED BY <1>5 DEF DecisionsPlaced

\* The graves of bodies.
LEMMA ReplaceBodies ==
  ASSUME NEW s, NEW w, NEW u, Replaced(s, w, u), s[1] \in Decisions,
         NEW r, DecisionsPlaced(s, r), BodiesPlaced(s, r), RuleFits(w, s[1], r)
  PROVE  BodiesPlaced(u, r)
<1>1. /\ Len(s) \in Nat \ {0} /\ Len(w) \in Nat /\ Len(w) > 1
      /\ Len(u) = Len(w) + Len(s) - 1 /\ DOMAIN s = 1 .. Len(s) /\ DOMAIN u = 1 .. Len(u)
  BY DEF Replaced
<1>2. s[1] \notin {"end", "in_bounds", "lbrace", "semicolon"}
  BY DEF Decisions
<1>3. ASSUME NEW k \in DOMAIN s, s[k] = "body"
      PROVE  /\ k < Len(s) /\ s[k + 1] = "end"
             /\ Contains(r, "lbrace") \/ \E j \in 1 .. k - 1 : s[j] = "lbrace"
             /\ k > 1 => \/ s[k - 1] = "grave"
                         \/ s[k - 1] = "end" /\ (k > 2 => s[k - 2] \in {"semicolon", "body"})
                         \/ s[k - 1] = "in_bounds" /\ (k > 2 => s[k - 2] = "lbrace")
  <2>1. /\ k < Len(s) /\ s[k + 1] = "end"
        /\ Contains(r, "lbrace") \/ \E j \in 1 .. k - 1 : s[j] = "lbrace"
        /\ \/ k = 1
           \/ AfterGrave(s, r, k)
           \/ s[k - 1] = "in_bounds" /\ (k > 2 => s[k - 2] = "lbrace")
    BY <1>3 DEF BodiesPlaced
  <2>2. k > 1 => k # 1
    BY <1>1, <1>3
  <2> QED BY <2>1, <2>2 DEF AfterGrave
<1>4. ASSUME NEW i \in DOMAIN u, u[i] = "body"
      PROVE  /\ i > 1 /\ i < Len(u) /\ u[i + 1] = "end"
             /\ Contains(r, "lbrace") \/ \E j \in 1 .. i - 1 : u[j] = "lbrace"
             /\ \/ AfterGrave(u, r, i)
                \/ u[i - 1] = "in_bounds" /\ i > 2 /\ u[i - 2] = "lbrace"
  <2>1. ASSUME i \in 1 .. Len(w), s[1] = "grave"
        PROVE  /\ i > 2 /\ i < Len(u) /\ u[i + 1] = "end"
               /\ u[i - 1] = "in_bounds" /\ u[i - 2] = "lbrace"
    <3>1. /\ i \in Nat \ {0} /\ u[i] = w[i]
          /\ i > 1 => u[i - 1] = w[i - 1]
          /\ i > 2 => u[i - 2] = w[i - 2]
          /\ i < Len(w) => u[i + 1] = w[i + 1] /\ i < Len(u)
      <4>1. i \in 1 .. Len(w)
        BY <2>1
      <4> QED BY <4>1, ReplacedInside
    <3>2. i > 2 /\ i < Len(w) /\ w[i + 1] = "end" /\ w[i - 1] = "in_bounds" /\ w[i - 2] = "lbrace"
      BY <1>4, <2>1, <3>1 DEF RuleFits, RulePlaces, RuleGuards, RuleEnds
    <3>3. i > 1
      BY <1>1, <2>1, <3>2
    <3> QED BY <3>1, <3>2, <3>3
  <2>2. CASE i \in 1 .. Len(w) /\ s[1] = "grave"
    <3>1. i - 2 \in 1 .. i - 1 /\ i > 1
      BY <1>1, <2>1, <2>2
    <3> QED BY <2>1, <2>2, <3>1
  <2>3. CASE i \in 1 .. Len(w) /\ s[1] # "grave"
    <3>1. /\ u[i] = w[i]
          /\ i > 1 => u[i - 1] = w[i - 1]
          /\ i = Len(w) /\ Len(s) > 1 => u[i + 1] = s[2] /\ i < Len(u)
      BY <2>3, ReplacedInside
    <3>2. s[1] = "body" /\ i = Len(w) /\ i = 2 /\ w[1] = "grave"
      BY <1>4, <2>3, <3>1 DEF RuleFits, RulePlaces, RuleGuards, RuleEnds
    <3>3. 1 \in DOMAIN s /\ 1 + 1 = 2 /\ 2 - 1 = 1 /\ i > 1
      BY <1>1, <3>2
    <3>4. /\ 1 < Len(s) /\ s[2] = "end"
          /\ Contains(r, "lbrace") \/ \E j \in 1 .. 1 - 1 : s[j] = "lbrace"
      BY <1>3, <3>2, <3>3
    <3>5. 1 .. 1 - 1 = {}
      OBVIOUS
    <3>6. Contains(r, "lbrace")
      BY <3>4, <3>5
    <3>7. u[i - 1] = "grave"
      BY <3>1, <3>2, <3>3
    <3>8. u[i + 1] = "end" /\ i < Len(u)
      BY <1>1, <3>1, <3>2, <3>4
    <3> QED BY <3>3, <3>6, <3>7, <3>8 DEF AfterGrave
  <2>4. ASSUME NEW j, Behind(s, w, i, j)
        PROVE  /\ i > 1 /\ i < Len(u) /\ u[i + 1] = "end"
               /\ Contains(r, "lbrace") \/ \E l \in 1 .. i - 1 : u[l] = "lbrace"
               /\ \/ AfterGrave(u, r, i)
                  \/ u[i - 1] = "in_bounds" /\ i > 2 /\ u[i - 2] = "lbrace"
    <3>1. /\ j \in 2 .. Len(s) /\ i \in Nat /\ j \in Nat /\ i > 2 /\ u[i] = s[j]
          /\ j < Len(s) <=> i < Len(u)
          /\ j < Len(s) => u[i + 1] = s[j + 1]
          /\ u[i - 1] = IF j > 2 THEN s[j - 1] ELSE w[Len(w)]
          /\ u[i - 2] = IF j > 3 THEN s[j - 2] ELSE IF j = 3 THEN w[Len(w)] ELSE w[Len(w) - 1]
      BY <2>4, ReplacedBehind
    <3>2. j \in DOMAIN s /\ j > 1 /\ i > 1 /\ s[j] = "body"
      BY <1>1, <1>4, <3>1
    <3>3. /\ j < Len(s) /\ s[j + 1] = "end"
          /\ Contains(r, "lbrace") \/ \E l \in 1 .. j - 1 : s[l] = "lbrace"
          /\ \/ s[j - 1] = "grave"
             \/ s[j - 1] = "end" /\ (j > 2 => s[j - 2] \in {"semicolon", "body"})
             \/ s[j - 1] = "in_bounds" /\ (j > 2 => s[j - 2] = "lbrace")
      BY <1>3, <3>2
    <3>4. i < Len(u) /\ u[i + 1] = "end"
      BY <3>1, <3>3
    <3>5. ASSUME NEW l \in 1 .. j - 1, s[l] = "lbrace"
          PROVE  \E m \in 1 .. i - 1 : u[m] = "lbrace"
      <4>1. l # 1
        BY <1>2, <3>5
      <4>2. l \in 2 .. Len(s) /\ Len(w) - 1 + l \in 1 .. i - 1
        BY <1>1, <2>4, <3>1, <4>1 DEF Behind
      <4>3. u[Len(w) - 1 + l] = "lbrace"
        BY <3>5, <4>2 DEF Replaced
      <4> QED BY <4>2, <4>3
    <3>6. s[j - 1] = "grave" => j = 2
      <4>1. j - 1 \in DOMAIN s
        BY <1>1, <3>1
      <4>2. s[j - 1] = "grave" => j - 1 = 1
        BY <4>1 DEF DecisionsPlaced
      <4> QED BY <3>1, <4>2
    <3>7. CASE j = 2
      <4>1. s[1] = "grave"
        <5>1. j - 1 = 1
          BY <3>7
        <5> QED BY <1>2, <3>3, <5>1
      <4>2. u[i - 1] = "end" /\ u[i - 2] \in {"semicolon", "body"}
        <5>1. u[i - 1] = w[Len(w)] /\ u[i - 2] = w[Len(w) - 1]
          BY <3>1, <3>7
        <5> QED BY <4>1, <5>1 DEF RuleFits, RulePlaces, RuleGuards, RuleEnds
      <4> QED BY <3>1, <3>2, <3>3, <3>4, <3>5, <4>2 DEF AfterGrave
    <3>8. CASE j = 3
      <4>1. s[2] = "end" /\ s[1] = "body"
        <5>1. j - 1 = 2 /\ j - 2 = 1 /\ j > 2 /\ j # 2
          BY <3>8
        <5> QED BY <1>2, <3>3, <3>6, <5>1
      <4>2. u[i - 1] = "end" /\ u[i - 2] \in {"semicolon", "body"}
        <5>1. j > 2 /\ j - 1 = 2 /\ ~ (j > 3)
          BY <3>8
        <5>2. u[i - 1] = s[2] /\ u[i - 2] = w[Len(w)]
          BY <3>1, <3>8, <5>1
        <5>3. w[Len(w)] \in {"semicolon", "body"}
          BY <4>1 DEF RuleFits, RulePlaces, RuleGuards, RuleEnds
        <5> QED BY <4>1, <5>2, <5>3
      <4> QED BY <3>1, <3>2, <3>3, <3>4, <3>5, <4>2 DEF AfterGrave
    <3>9. CASE j > 3
      <4>1. u[i - 1] = s[j - 1] /\ u[i - 2] = s[j - 2] /\ j > 2 /\ j # 2
        BY <3>1, <3>9
      <4>2. \/ s[j - 1] = "end" /\ s[j - 2] \in {"semicolon", "body"}
            \/ s[j - 1] = "in_bounds" /\ s[j - 2] = "lbrace"
        BY <3>3, <3>6, <4>1
      <4> QED BY <3>1, <3>2, <3>3, <3>4, <3>5, <4>1, <4>2 DEF AfterGrave
    <3> QED BY <3>1, <3>7, <3>8, <3>9
  <2> QED BY <2>2, <2>3, <2>4, ReplacedIndex
<1> QED BY <1>4 DEF BodiesPlaced

\* Whole graves.
LEMMA ReplaceGravesLeft ==
  ASSUME NEW s, NEW w, NEW u \in Seq(Symbols), Replaced(s, w, u), s[1] \in Decisions, s # <<>>,
         NEW r, DecisionsPlaced(s, r), GravesLeft(s, r), RuleFits(w, s[1], r)
  PROVE  GravesLeft(u, r)
<1>1. /\ Len(s) \in Nat \ {0} /\ Len(w) \in Nat /\ Len(w) > 1
      /\ Len(u) = Len(w) + Len(s) - 1 /\ DOMAIN s = 1 .. Len(s)
  BY DEF Replaced
<1>2. s[1] \notin {"end", "semicolon"}
  BY DEF Decisions
<1>3. \/ s[Len(s)] = "grave" /\ Len(s) = 1
      \/ s[Len(s)] = "end" /\ Len(s) > 1 /\ s[Len(s) - 1] \in {"semicolon", "body"}
  <2>1. AfterGrave(s, r, Len(s) + 1)
    BY DEF GravesLeft
  <2>2. /\ (Len(s) + 1) - 1 = Len(s) /\ (Len(s) + 1) - 2 = Len(s) - 1
        /\ Len(s) + 1 > 2 <=> Len(s) > 1
        /\ Len(s) > 1 <=> Len(s) # 1
    BY <1>1
  <2>3. \/ s[Len(s)] = "grave"
        \/ s[Len(s)] = "end" /\ (Len(s) > 1 => s[Len(s) - 1] \in {"semicolon", "body"})
    BY <2>1, <2>2 DEF AfterGrave
  <2>4. s[Len(s)] = "grave" => Len(s) = 1
    <3>1. Len(s) \in DOMAIN s
      BY <1>1
    <3> QED BY <3>1 DEF DecisionsPlaced
  <2>5. s[Len(s)] = "end" => Len(s) # 1
    BY <1>2
  <2> QED BY <2>2, <2>3, <2>4, <2>5
<1>4. u[Len(u)] = "end" /\ u[Len(u) - 1] \in {"semicolon", "body"}
  <2>1. CASE Len(s) = 1
    <3>1. s[1] = "grave"
      BY <1>1, <1>3, <2>1
    <3>2. Len(u) = Len(w) /\ Len(w) \in 1 .. Len(w) /\ Len(w) - 1 \in 1 .. Len(w)
      BY <1>1, <2>1
    <3>3. u[Len(w)] = w[Len(w)] /\ u[Len(w) - 1] = w[Len(w) - 1]
      BY <3>2 DEF Replaced
    <3> QED BY <3>1, <3>2, <3>3 DEF RuleFits, RulePlaces, RuleGuards, RuleEnds
  <2>2. CASE Len(s) > 1
    <3>1. s[Len(s)] = "end" /\ s[Len(s) - 1] \in {"semicolon", "body"}
      BY <1>1, <1>3, <2>2
    <3>2. Behind(s, w, Len(u), Len(s))
      BY <1>1, <2>2 DEF Behind
    <3>3. /\ u[Len(u)] = s[Len(s)]
          /\ u[Len(u) - 1] = IF Len(s) > 2 THEN s[Len(s) - 1] ELSE w[Len(w)]
      BY <3>2, ReplacedBehind
    <3>4. CASE Len(s) > 2
      BY <3>1, <3>3, <3>4
    <3>5. CASE Len(s) = 2
      <4>1. s[1] = "body"
        <5>1. Len(s) - 1 = 1
          BY <3>5
        <5> QED BY <1>2, <3>1, <5>1
      <4>2. w[Len(w)] \in {"semicolon", "body"}
        BY <4>1 DEF RuleFits, RulePlaces, RuleGuards, RuleEnds
      <4>3. ~ (Len(s) > 2)
        BY <3>5
      <4> QED BY <3>1, <3>3, <4>2, <4>3
    <3> QED BY <1>1, <2>2, <3>4, <3>5
  <2> QED BY <1>1, <2>1, <2>2
<1>5. /\ (Len(u) + 1) - 1 = Len(u) /\ (Len(u) + 1) - 2 = Len(u) - 1
      /\ Len(u) + 1 > 2 /\ Len(u) # 0
  BY <1>1
<1>6. u # <<>>
  BY <1>5, EmptySeq
<1> QED BY <1>4, <1>5, <1>6 DEF GravesLeft, AfterGrave

\* What comes next.
LEMMA ReplaceHead ==
  ASSUME NEW s, NEW w, NEW u, Replaced(s, w, u), s # <<>>,
         NEW r, NEW n, n # "eof", HeadGuarded(s, r, n), RuleFits(w, s[1], r)
  PROVE  HeadGuarded(u, r, n)
<1>1. /\ Len(s) \in Nat \ {0} /\ Len(w) \in Nat /\ Len(w) > 1
      /\ Len(u) = Len(w) + Len(s) - 1 /\ DOMAIN u = 1 .. Len(u)
  BY DEF Replaced
<1>2. u[1] = w[1] /\ u[2] = w[2]
  <2>1. 1 \in 1 .. Len(w) /\ 2 \in 1 .. Len(w)
    BY <1>1
  <2> QED BY <2>1 DEF Replaced
<1>3. u[1] = "node" => Len(u) > 2 /\ u[2] \in Operations
  <2>1. w[1] = "node" => Len(w) > 2 /\ w[2] \in Operations
    BY DEF RuleFits, RulePlaces, RuleGuards, RuleEnds
  <2> QED BY <1>1, <1>2, <2>1
<1>4. ASSUME NEW i \in 2 .. Len(u)
      PROVE  u[i] # "node"
  <2>1. CASE i \in 1 .. Len(w)
    <3>1. u[i] = w[i] /\ i \in 2 .. Len(w)
      <4>1. i \in 2 .. Len(w)
        BY <1>1, <1>4, <2>1
      <4> QED BY <2>1, <4>1 DEF Replaced
    <3> QED BY <3>1 DEF RuleFits, RulePlaces, RuleGuards, RuleEnds
  <2>2. ASSUME NEW j, Behind(s, w, i, j)
        PROVE  u[i] # "node"
    <3>1. j \in 2 .. Len(s) /\ u[i] = s[j]
      BY <2>2, ReplacedBehind
    <3> QED BY <3>1 DEF HeadGuarded
  <2>3. i \in DOMAIN u
    BY <1>1, <1>4
  <2> QED BY <2>1, <2>2, <2>3, ReplacedIndex
<1> QED BY <1>3, <1>4 DEF HeadGuarded

\* All of it together.
LEMMA ReplaceKeeps ==
  ASSUME NEW s \in Seq(Symbols), s # <<>>, s[1] \in Decisions, NEW w,
         NEW u, u = w \o Tail(s), NEW r, NEW n, n # "eof", StackFits(s, r, n),
         RuleFits(w, s[1], r)
  PROVE  u \in Seq(Symbols) /\ StackFits(u, r, n)
<1>1. w \in Seq(Symbols) /\ Len(w) > 1
  BY DEF RuleFits, RulePlaces, RuleGuards, RuleEnds
<1>2. u \in Seq(Symbols) /\ Replaced(s, w, u)
  BY <1>1, ReplacedBy
<1>3. /\ NamesPlaced(s, r, n) /\ Guarded(s) /\ DecisionsPlaced(s, r) /\ BodiesPlaced(s, r)
      /\ GravesLeft(s, r) /\ HeadGuarded(s, r, n)
  BY DEF StackFits
<1>4. NamesPlaced(u, r, n)
  BY <1>2, <1>3, ReplaceNames
<1>5. Guarded(u)
  BY <1>2, <1>3, ReplaceGuarded
<1>6. DecisionsPlaced(u, r)
  BY <1>2, <1>3, ReplaceDecisions
<1>7. BodiesPlaced(u, r)
  BY <1>2, <1>3, ReplaceBodies
<1>8. GravesLeft(u, r)
  BY <1>2, <1>3, ReplaceGravesLeft
<1>9. HeadGuarded(u, r, n)
  BY <1>2, <1>3, ReplaceHead
<1> QED BY <1>2, <1>4, <1>5, <1>6, <1>7, <1>8, <1>9 DEF StackFits

(***************************************************************************)
(* Every rule fits.                                                        *)
(***************************************************************************)
\* A variable between two parts of a rule.
Around(a, b, w) == w = a \o variable \o b

\* Its symbols are those of the two parts and of the variable.
LEMMA VariableBetween ==
  ASSUME NEW a \in Seq(Symbols), NEW b \in Seq(Symbols), NEW w, Around(a, b, w)
  PROVE  /\ w \in Seq(Symbols) /\ Len(a) \in Nat /\ Len(b) \in Nat
         /\ Len(w) = Len(a) + 2 + Len(b)
         /\ \A i \in 1 .. Len(a) : w[i] = a[i]
         /\ w[Len(a) + 1] = "is_valid_var" /\ w[Len(a) + 2] = "string_node"
         /\ \A i \in 1 .. Len(b) : w[Len(a) + 2 + i] = b[i]
<1>1. /\ variable \in Seq(Symbols) /\ Len(variable) = 2
      /\ variable[1] = "is_valid_var" /\ variable[2] = "string_node"
  BY DemandsKnown DEF variable, Symbols, Looking
<1>2. PICK c : c = a \o variable /\ w = c \o b
  BY DEF Around
<1>3. /\ c \in Seq(Symbols) /\ Len(c) = Len(a) + 2
      /\ \A i \in 1 .. Len(a) + 2 : c[i] = IF i <= Len(a) THEN a[i] ELSE variable[i - Len(a)]
  <2>1. /\ c \in Seq(Symbols) /\ Len(c) = Len(a) + Len(variable)
        /\ \A i \in 1 .. Len(a) + Len(variable) :
             c[i] = IF i <= Len(a) THEN a[i] ELSE variable[i - Len(a)]
    BY <1>1, <1>2, ConcatProperties
  <2> QED BY <1>1, <2>1
<1>4. /\ w \in Seq(Symbols) /\ Len(w) = Len(c) + Len(b)
      /\ \A i \in 1 .. Len(c) + Len(b) : w[i] = IF i <= Len(c) THEN c[i] ELSE b[i - Len(c)]
  BY <1>2, <1>3, ConcatProperties
<1>5. Len(a) \in Nat /\ Len(b) \in Nat
  BY LenProperties
<1>6. ASSUME NEW i \in 1 .. Len(a) + 2
      PROVE  w[i] = IF i <= Len(a) THEN a[i] ELSE variable[i - Len(a)]
  <2>1. i \in 1 .. Len(c) + Len(b) /\ i <= Len(c)
    BY <1>3, <1>5
  <2>2. w[i] = c[i]
    BY <1>4, <2>1
  <2> QED BY <1>3, <2>2
<1>7. \A i \in 1 .. Len(a) : w[i] = a[i]
  BY <1>5, <1>6
<1>8. w[Len(a) + 1] = "is_valid_var"
  <2>1. /\ Len(a) + 1 \in 1 .. Len(a) + 2 /\ ~ (Len(a) + 1 <= Len(a))
        /\ (Len(a) + 1) - Len(a) = 1
    BY <1>5
  <2> QED BY <1>1, <1>6, <2>1
<1>9. w[Len(a) + 2] = "string_node"
  <2>1. /\ Len(a) + 2 \in 1 .. Len(a) + 2 /\ ~ (Len(a) + 2 <= Len(a))
        /\ (Len(a) + 2) - Len(a) = 2
    BY <1>5
  <2> QED BY <1>1, <1>6, <2>1
<1>10. ASSUME NEW i \in 1 .. Len(b)
       PROVE  w[Len(a) + 2 + i] = b[i]
  <2>1. /\ Len(a) + 2 + i \in 1 .. Len(c) + Len(b) /\ ~ (Len(a) + 2 + i <= Len(c))
        /\ (Len(a) + 2 + i) - Len(c) = i
    BY <1>3, <1>5
  <2> QED BY <1>4, <2>1
<1> QED BY <1>3, <1>4, <1>5, <1>7, <1>8, <1>9, <1>10

\* A loop.
LEMMA LoopFits ==
  ASSUME NEW r, AfterStart(r)
  PROVE  RuleFits(loop, "grave", r)
<1>1. PICK w : w = loop
  OBVIOUS
<1>2. /\ w \in Seq(Symbols) /\ Len(w) = 14
      /\ w[1] = "node" /\ w[2] = "LOOP" /\ w[3] = "~ATH" /\ w[4] = "in_bounds"
      /\ w[5] = "(" /\ w[6] = "in_bounds" /\ w[7] = "is_valid_var" /\ w[8] = "string_node"
      /\ w[9] = ")" /\ w[10] = "in_bounds" /\ w[11] = "lbrace" /\ w[12] = "in_bounds"
      /\ w[13] = "body" /\ w[14] = "end"
  <2>1. PICK a : a = <<"node", "LOOP", "~ATH", "in_bounds", "(", "in_bounds">>
    OBVIOUS
  <2>2. PICK b : b = <<")", "in_bounds", "lbrace", "in_bounds", "body", "end">>
    OBVIOUS
  <2>3. /\ a \in Seq(Symbols) /\ b \in Seq(Symbols)
        /\ Len(a) = 6 /\ Len(b) = 6
    BY <2>1, <2>2 DEF Symbols, Looking, Tokens, Decisions, Operations, Demands
  <2>4. a \in Seq(Symbols) /\ b \in Seq(Symbols)
    BY <2>3
  <2>5. Around(a, b, w)
    BY <1>1, <2>1, <2>2 DEF loop, Around
  <2>6. /\ w \in Seq(Symbols) /\ Len(a) \in Nat /\ Len(b) \in Nat
        /\ Len(w) = Len(a) + 2 + Len(b)
        /\ \A i \in 1 .. Len(a) : w[i] = a[i]
        /\ w[Len(a) + 1] = "is_valid_var" /\ w[Len(a) + 2] = "string_node"
        /\ \A i \in 1 .. Len(b) : w[Len(a) + 2 + i] = b[i]
    BY <2>4, <2>5, VariableBetween
  <2>7. /\ Len(w) = 14
        /\ \A i \in 1 .. 6 : w[i] = a[i]
        /\ w[7] = "is_valid_var" /\ w[8] = "string_node"
        /\ \A i \in 1 .. 6 : w[8 + i] = b[i]
    BY <2>3, <2>6
  <2>8. /\ w[1] = "node" /\ w[2] = "LOOP" /\ w[3] = "~ATH" /\ w[4] = "in_bounds"
        /\ w[5] = "(" /\ w[6] = "in_bounds"
    BY <2>1, <2>7
  <2>9. /\ w[7] = "is_valid_var" /\ w[8] = "string_node" /\ w[9] = ")"
        /\ w[10] = "in_bounds" /\ w[11] = "lbrace" /\ w[12] = "in_bounds"
        /\ w[13] = "body" /\ w[14] = "end"
    BY <2>2, <2>7
  <2> QED BY <2>6, <2>7, <2>8, <2>9
<1>3. ASSUME NEW i \in 1 .. 14
      PROVE  RulePlaces(w, "grave", r, i)
  BY <1>2 DEF RulePlaces
<1>4. ASSUME NEW i \in 2 .. 14
      PROVE  RuleGuards(w, i)
  BY <1>2, DemandsKnown DEF RuleGuards, Looking, Tokens, Decisions
<1>5. RuleEnds(w, "grave")
  BY <1>2 DEF RuleEnds, Operations
<1>6. RuleFits(w, "grave", r)
  BY <1>2, <1>3, <1>4, <1>5 DEF RuleFits
<1> QED BY <1>1, <1>6

\* A bifurcation.
LEMMA BifurcateFits ==
  ASSUME NEW r, AfterStart(r)
  PROVE  RuleFits(bifurcate, "grave", r)
<1>1. PICK w : w = bifurcate
  OBVIOUS
<1>2. /\ w \in Seq(Symbols) /\ Len(w) = 21
      /\ w[1] = "node" /\ w[2] = "BIFURCATE" /\ w[3] = "bifurcate" /\ w[4] = "in_bounds"
      /\ w[5] = "is_valid_var" /\ w[6] = "string_node" /\ w[7] = "in_bounds" /\ w[8] = "["
      /\ w[9] = "in_bounds" /\ w[10] = "is_valid_var" /\ w[11] = "string_node"
      /\ w[12] = "in_bounds" /\ w[13] = "comma" /\ w[14] = "in_bounds"
      /\ w[15] = "is_valid_var" /\ w[16] = "string_node" /\ w[17] = "in_bounds"
      /\ w[18] = "]" /\ w[19] = "in_bounds" /\ w[20] = "semicolon" /\ w[21] = "end"
  <2>1. PICK a : a = <<"node", "BIFURCATE", "bifurcate", "in_bounds">>
    OBVIOUS
  <2>2. PICK b : b = <<"in_bounds", "[", "in_bounds">>
    OBVIOUS
  <2>3. PICK c : c = <<"in_bounds", "comma", "in_bounds">>
    OBVIOUS
  <2>4. PICK d : d = <<"in_bounds", "]", "in_bounds", "semicolon", "end">>
    OBVIOUS
  <2>5. /\ a \in Seq(Symbols) /\ b \in Seq(Symbols) /\ c \in Seq(Symbols) /\ d \in Seq(Symbols)
        /\ Len(a) = 4 /\ Len(b) = 3 /\ Len(c) = 3 /\ Len(d) = 5
    BY <2>1, <2>2, <2>3, <2>4 DEF Symbols, Looking, Tokens, Decisions, Operations, Demands
  <2>6. a \in Seq(Symbols) /\ b \in Seq(Symbols) /\ c \in Seq(Symbols) /\ d \in Seq(Symbols)
    BY <2>5
  <2>7. PICK x : Around(a, b, x)
    BY DEF Around
  <2>8. PICK y : Around(x, c, y)
    BY DEF Around
  <2>9. Around(y, d, w)
    BY <1>1, <2>1, <2>2, <2>3, <2>4, <2>7, <2>8 DEF bifurcate, Around
  <2>10. /\ x \in Seq(Symbols) /\ Len(a) \in Nat /\ Len(b) \in Nat
         /\ Len(x) = Len(a) + 2 + Len(b)
         /\ \A i \in 1 .. Len(a) : x[i] = a[i]
         /\ x[Len(a) + 1] = "is_valid_var" /\ x[Len(a) + 2] = "string_node"
         /\ \A i \in 1 .. Len(b) : x[Len(a) + 2 + i] = b[i]
    BY <2>6, <2>7, VariableBetween
  <2>11. /\ Len(x) = 9
         /\ \A i \in 1 .. 4 : x[i] = a[i]
         /\ x[5] = "is_valid_var" /\ x[6] = "string_node"
         /\ \A i \in 1 .. 3 : x[6 + i] = b[i]
    BY <2>5, <2>10
  <2>12. /\ x[1] = "node" /\ x[2] = "BIFURCATE" /\ x[3] = "bifurcate" /\ x[4] = "in_bounds"
    BY <2>1, <2>11
  <2>13. /\ x[5] = "is_valid_var" /\ x[6] = "string_node" /\ x[7] = "in_bounds"
         /\ x[8] = "[" /\ x[9] = "in_bounds"
    BY <2>2, <2>11
  <2>14. x \in Seq(Symbols)
    BY <2>10
  <2>15. /\ y \in Seq(Symbols) /\ Len(x) \in Nat /\ Len(c) \in Nat
         /\ Len(y) = Len(x) + 2 + Len(c)
         /\ \A i \in 1 .. Len(x) : y[i] = x[i]
         /\ y[Len(x) + 1] = "is_valid_var" /\ y[Len(x) + 2] = "string_node"
         /\ \A i \in 1 .. Len(c) : y[Len(x) + 2 + i] = c[i]
    BY <2>6, <2>14, <2>8, VariableBetween
  <2>16. /\ Len(y) = 14
         /\ \A i \in 1 .. 9 : y[i] = x[i]
         /\ y[10] = "is_valid_var" /\ y[11] = "string_node"
         /\ \A i \in 1 .. 3 : y[11 + i] = c[i]
    BY <2>5, <2>15, <2>11
  <2>17. /\ y[1] = "node" /\ y[2] = "BIFURCATE" /\ y[3] = "bifurcate" /\ y[4] = "in_bounds"
         /\ y[5] = "is_valid_var" /\ y[6] = "string_node" /\ y[7] = "in_bounds"
         /\ y[8] = "[" /\ y[9] = "in_bounds"
    BY <2>12, <2>13, <2>16
  <2>18. /\ y[10] = "is_valid_var" /\ y[11] = "string_node" /\ y[12] = "in_bounds"
         /\ y[13] = "comma" /\ y[14] = "in_bounds"
    BY <2>3, <2>16
  <2>19. y \in Seq(Symbols)
    BY <2>15
  <2>20. /\ w \in Seq(Symbols) /\ Len(y) \in Nat /\ Len(d) \in Nat
         /\ Len(w) = Len(y) + 2 + Len(d)
         /\ \A i \in 1 .. Len(y) : w[i] = y[i]
         /\ w[Len(y) + 1] = "is_valid_var" /\ w[Len(y) + 2] = "string_node"
         /\ \A i \in 1 .. Len(d) : w[Len(y) + 2 + i] = d[i]
    BY <2>6, <2>19, <2>9, VariableBetween
  <2>21. /\ Len(w) = 21
         /\ \A i \in 1 .. 14 : w[i] = y[i]
         /\ w[15] = "is_valid_var" /\ w[16] = "string_node"
         /\ \A i \in 1 .. 5 : w[16 + i] = d[i]
    BY <2>5, <2>20, <2>16
  <2>22. /\ w[1] = "node" /\ w[2] = "BIFURCATE" /\ w[3] = "bifurcate" /\ w[4] = "in_bounds"
         /\ w[5] = "is_valid_var" /\ w[6] = "string_node" /\ w[7] = "in_bounds"
         /\ w[8] = "[" /\ w[9] = "in_bounds" /\ w[10] = "is_valid_var"
         /\ w[11] = "string_node" /\ w[12] = "in_bounds" /\ w[13] = "comma"
         /\ w[14] = "in_bounds"
    BY <2>17, <2>18, <2>21
  <2>23. /\ w[15] = "is_valid_var" /\ w[16] = "string_node" /\ w[17] = "in_bounds"
         /\ w[18] = "]" /\ w[19] = "in_bounds" /\ w[20] = "semicolon" /\ w[21] = "end"
    BY <2>4, <2>21
  <2> QED BY <2>20, <2>21, <2>22, <2>23
<1>3. ASSUME NEW i \in 1 .. 21
      PROVE  RulePlaces(w, "grave", r, i)
  BY <1>2, SMTT(30) DEF RulePlaces
<1>4. ASSUME NEW i \in 2 .. 21
      PROVE  RuleGuards(w, i)
  BY <1>2, DemandsKnown, SMTT(60) DEF RuleGuards, Looking, Tokens, Decisions
<1>5. RuleEnds(w, "grave")
  BY <1>2 DEF RuleEnds, Operations
<1>6. RuleFits(w, "grave", r)
  BY <1>2, <1>3, <1>4, <1>5 DEF RuleFits
<1> QED BY <1>1, <1>6

\* An import.
LEMMA ImportFits ==
  ASSUME NEW r, AfterStart(r)
  PROVE  RuleFits(import, "grave", r)
<1>1. PICK w : w = import
  OBVIOUS
<1>2. /\ w \in Seq(Symbols) /\ Len(w) = 12
      /\ w[1] = "node" /\ w[2] = "IMPORT" /\ w[3] = "import" /\ w[4] = "in_bounds"
      /\ w[5] = "is_valid_import" /\ w[6] = "string_node" /\ w[7] = "in_bounds"
      /\ w[8] = "is_valid_var" /\ w[9] = "string_node" /\ w[10] = "in_bounds"
      /\ w[11] = "semicolon" /\ w[12] = "end"
  <2>1. PICK a : a = <<"node", "IMPORT", "import", "in_bounds", "is_valid_import",
                    "string_node", "in_bounds">>
    OBVIOUS
  <2>2. PICK b : b = <<"in_bounds", "semicolon", "end">>
    OBVIOUS
  <2>3. /\ a \in Seq(Symbols) /\ b \in Seq(Symbols)
        /\ Len(a) = 7 /\ Len(b) = 3
    BY <2>1, <2>2 DEF Symbols, Looking, Tokens, Decisions, Operations, Demands
  <2>4. a \in Seq(Symbols) /\ b \in Seq(Symbols)
    BY <2>3
  <2>5. Around(a, b, w)
    BY <1>1, <2>1, <2>2 DEF import, Around
  <2>6. /\ w \in Seq(Symbols) /\ Len(a) \in Nat /\ Len(b) \in Nat
        /\ Len(w) = Len(a) + 2 + Len(b)
        /\ \A i \in 1 .. Len(a) : w[i] = a[i]
        /\ w[Len(a) + 1] = "is_valid_var" /\ w[Len(a) + 2] = "string_node"
        /\ \A i \in 1 .. Len(b) : w[Len(a) + 2 + i] = b[i]
    BY <2>4, <2>5, VariableBetween
  <2>7. /\ Len(w) = 12
        /\ \A i \in 1 .. 7 : w[i] = a[i]
        /\ w[8] = "is_valid_var" /\ w[9] = "string_node"
        /\ \A i \in 1 .. 3 : w[9 + i] = b[i]
    BY <2>3, <2>6
  <2>8. /\ w[1] = "node" /\ w[2] = "IMPORT" /\ w[3] = "import" /\ w[4] = "in_bounds"
        /\ w[5] = "is_valid_import" /\ w[6] = "string_node" /\ w[7] = "in_bounds"
    BY <2>1, <2>7
  <2>9. /\ w[8] = "is_valid_var" /\ w[9] = "string_node" /\ w[10] = "in_bounds"
        /\ w[11] = "semicolon" /\ w[12] = "end"
    BY <2>2, <2>7
  <2> QED BY <2>6, <2>7, <2>8, <2>9
<1>3. ASSUME NEW i \in 1 .. 12
      PROVE  RulePlaces(w, "grave", r, i)
  BY <1>2 DEF RulePlaces
<1>4. ASSUME NEW i \in 2 .. 12
      PROVE  RuleGuards(w, i)
  BY <1>2, DemandsKnown DEF RuleGuards, Looking, Tokens, Decisions
<1>5. RuleEnds(w, "grave")
  BY <1>2 DEF RuleEnds, Operations
<1>6. RuleFits(w, "grave", r)
  BY <1>2, <1>3, <1>4, <1>5 DEF RuleFits
<1> QED BY <1>1, <1>6

\* A death.
LEMMA DeathFits ==
  ASSUME NEW r, AfterStart(r)
  PROVE  RuleFits(death, "grave", r)
<1>1. PICK w : w = death
  OBVIOUS
<1>2. /\ w \in Seq(Symbols) /\ Len(w) = 11
      /\ w[1] = "node" /\ w[2] = "DIE" /\ w[3] = "dying" /\ w[4] = ".DIE"
      /\ w[5] = "in_bounds" /\ w[6] = "(" /\ w[7] = "in_bounds" /\ w[8] = ")"
      /\ w[9] = "in_bounds" /\ w[10] = "semicolon" /\ w[11] = "end"
  <2>1. w = <<"node", "DIE", "dying", ".DIE", "in_bounds", "(", "in_bounds", ")",
            "in_bounds", "semicolon", "end">>
    BY <1>1 DEF death
  <2> QED BY <2>1, DemandsKnown DEF Symbols, Looking, Tokens, Decisions, Operations
<1>3. ASSUME NEW i \in 1 .. 11
      PROVE  RulePlaces(w, "grave", r, i)
  BY <1>2 DEF RulePlaces
<1>4. ASSUME NEW i \in 2 .. 11
      PROVE  RuleGuards(w, i)
  BY <1>2, DemandsKnown DEF RuleGuards, Looking, Tokens, Decisions
<1>5. RuleEnds(w, "grave")
  BY <1>2 DEF RuleEnds, Operations
<1>6. RuleFits(w, "grave", r)
  BY <1>2, <1>3, <1>4, <1>5 DEF RuleFits
<1> QED BY <1>1, <1>6

\* What dies: a list.
LEMMA ListFits ==
  ASSUME NEW r
  PROVE  RuleFits(dying("["), "dying", r)
<1>1. PICK w : w = dying("[")
  OBVIOUS
<1>2. /\ w \in Seq(Symbols) /\ Len(w) = 6
      /\ w[1] = "[" /\ w[2] = "in_bounds" /\ w[3] = "is_valid_var" /\ w[4] = "string_node"
      /\ w[5] = "in_bounds" /\ w[6] = "more_names"
  <2>1. PICK a : a = <<"[", "in_bounds">>
    OBVIOUS
  <2>2. PICK b : b = <<"in_bounds", "more_names">>
    OBVIOUS
  <2>3. /\ a \in Seq(Symbols) /\ b \in Seq(Symbols)
        /\ Len(a) = 2 /\ Len(b) = 2
    BY <2>1, <2>2 DEF Symbols, Looking, Tokens, Decisions, Operations, Demands
  <2>4. a \in Seq(Symbols) /\ b \in Seq(Symbols)
    BY <2>3
  <2>5. Around(a, b, w)
    BY <1>1, <2>1, <2>2 DEF dying, Around
  <2>6. /\ w \in Seq(Symbols) /\ Len(a) \in Nat /\ Len(b) \in Nat
        /\ Len(w) = Len(a) + 2 + Len(b)
        /\ \A i \in 1 .. Len(a) : w[i] = a[i]
        /\ w[Len(a) + 1] = "is_valid_var" /\ w[Len(a) + 2] = "string_node"
        /\ \A i \in 1 .. Len(b) : w[Len(a) + 2 + i] = b[i]
    BY <2>4, <2>5, VariableBetween
  <2>7. /\ Len(w) = 6
        /\ \A i \in 1 .. 2 : w[i] = a[i]
        /\ w[3] = "is_valid_var" /\ w[4] = "string_node"
        /\ \A i \in 1 .. 2 : w[4 + i] = b[i]
    BY <2>3, <2>6
  <2>8. /\ w[1] = "[" /\ w[2] = "in_bounds"
    BY <2>1, <2>7
  <2>9. /\ w[3] = "is_valid_var" /\ w[4] = "string_node" /\ w[5] = "in_bounds"
        /\ w[6] = "more_names"
    BY <2>2, <2>7
  <2> QED BY <2>6, <2>7, <2>8, <2>9
<1>3. ASSUME NEW i \in 1 .. 6
      PROVE  RulePlaces(w, "dying", r, i)
  BY <1>2 DEF RulePlaces
<1>4. ASSUME NEW i \in 2 .. 6
      PROVE  RuleGuards(w, i)
  BY <1>2, DemandsKnown DEF RuleGuards, Looking, Tokens, Decisions
<1>5. RuleEnds(w, "dying")
  BY <1>2 DEF RuleEnds, Operations
<1>6. RuleFits(w, "dying", r)
  BY <1>2, <1>3, <1>4, <1>5 DEF RuleFits
<1> QED BY <1>1, <1>6

\* What dies: the program.
LEMMA ThisFits ==
  ASSUME NEW r
  PROVE  RuleFits(dying("THIS"), "dying", r)
<1>1. PICK w : w = dying("THIS")
  OBVIOUS
<1>2. /\ w \in Seq(Symbols) /\ Len(w) = 2
      /\ w[1] = "string_node" /\ w[2] = "in_bounds"
  <2>1. w = <<"string_node", "in_bounds">>
    BY <1>1 DEF dying
  <2> QED BY <2>1, DemandsKnown DEF Symbols, Looking, Tokens, Decisions, Operations
<1>3. ASSUME NEW i \in 1 .. 2
      PROVE  RulePlaces(w, "dying", r, i)
  BY <1>2 DEF RulePlaces
<1>4. ASSUME NEW i \in 2 .. 2
      PROVE  RuleGuards(w, i)
  BY <1>2, DemandsKnown DEF RuleGuards, Looking, Tokens, Decisions
<1>5. RuleEnds(w, "dying")
  BY <1>2 DEF RuleEnds, Operations
<1>6. RuleFits(w, "dying", r)
  BY <1>2, <1>3, <1>4, <1>5 DEF RuleFits
<1> QED BY <1>1, <1>6

\* What dies: one object.
LEMMA NameFits ==
  ASSUME NEW r, AfterStart(r)
  PROVE  RuleFits(variable, "dying", r)
<1>1. PICK w : w = variable
  OBVIOUS
<1>2. /\ w \in Seq(Symbols) /\ Len(w) = 2
      /\ w[1] = "is_valid_var" /\ w[2] = "string_node"
  <2>1. w = <<"is_valid_var", "string_node">>
    BY <1>1 DEF variable
  <2> QED BY <2>1, DemandsKnown DEF Symbols, Looking, Tokens, Decisions, Operations
<1>3. ASSUME NEW i \in 1 .. 2
      PROVE  RulePlaces(w, "dying", r, i)
  BY <1>2 DEF RulePlaces
<1>4. ASSUME NEW i \in 2 .. 2
      PROVE  RuleGuards(w, i)
  BY <1>2, DemandsKnown DEF RuleGuards, Looking, Tokens, Decisions
<1>5. RuleEnds(w, "dying")
  BY <1>2 DEF RuleEnds, Operations
<1>6. RuleFits(w, "dying", r)
  BY <1>2, <1>3, <1>4, <1>5 DEF RuleFits
<1> QED BY <1>1, <1>6

\* One more name of a list.
LEMMA MoreNamesFits ==
  ASSUME NEW r
  PROVE  RuleFits(more_names("comma"), "more_names", r)
<1>1. PICK w : w = more_names("comma")
  OBVIOUS
<1>2. /\ w \in Seq(Symbols) /\ Len(w) = 5
      /\ w[1] = "comma" /\ w[2] = "in_bounds" /\ w[3] = "is_valid_var"
      /\ w[4] = "string_node" /\ w[5] = "more_names"
  <2>1. PICK a : a = <<"comma", "in_bounds">>
    OBVIOUS
  <2>2. PICK b : b = <<"more_names">>
    OBVIOUS
  <2>3. /\ a \in Seq(Symbols) /\ b \in Seq(Symbols)
        /\ Len(a) = 2 /\ Len(b) = 1
    BY <2>1, <2>2 DEF Symbols, Looking, Tokens, Decisions, Operations, Demands
  <2>4. a \in Seq(Symbols) /\ b \in Seq(Symbols)
    BY <2>3
  <2>5. Around(a, b, w)
    BY <1>1, <2>1, <2>2 DEF more_names, Around
  <2>6. /\ w \in Seq(Symbols) /\ Len(a) \in Nat /\ Len(b) \in Nat
        /\ Len(w) = Len(a) + 2 + Len(b)
        /\ \A i \in 1 .. Len(a) : w[i] = a[i]
        /\ w[Len(a) + 1] = "is_valid_var" /\ w[Len(a) + 2] = "string_node"
        /\ \A i \in 1 .. Len(b) : w[Len(a) + 2 + i] = b[i]
    BY <2>4, <2>5, VariableBetween
  <2>7. /\ Len(w) = 5
        /\ \A i \in 1 .. 2 : w[i] = a[i]
        /\ w[3] = "is_valid_var" /\ w[4] = "string_node"
        /\ \A i \in 1 .. 1 : w[4 + i] = b[i]
    BY <2>3, <2>6
  <2>8. /\ w[1] = "comma" /\ w[2] = "in_bounds"
    BY <2>1, <2>7
  <2>9. /\ w[3] = "is_valid_var" /\ w[4] = "string_node" /\ w[5] = "more_names"
    BY <2>2, <2>7
  <2> QED BY <2>6, <2>7, <2>8, <2>9
<1>3. ASSUME NEW i \in 1 .. 5
      PROVE  RulePlaces(w, "more_names", r, i)
  BY <1>2 DEF RulePlaces
<1>4. ASSUME NEW i \in 2 .. 5
      PROVE  RuleGuards(w, i)
  BY <1>2, DemandsKnown DEF RuleGuards, Looking, Tokens, Decisions
<1>5. RuleEnds(w, "more_names")
  BY <1>2 DEF RuleEnds, Operations
<1>6. RuleFits(w, "more_names", r)
  BY <1>2, <1>3, <1>4, <1>5 DEF RuleFits
<1> QED BY <1>1, <1>6

\* The end of a list.
LEMMA NoMoreNamesFits ==
  ASSUME NEW r
  PROVE  RuleFits(<<"]", "in_bounds">>, "more_names", r)
<1>1. PICK w : w = <<"]", "in_bounds">>
  OBVIOUS
<1>2. /\ w \in Seq(Symbols) /\ Len(w) = 2
      /\ w[1] = "]" /\ w[2] = "in_bounds"
  <2>1. w = <<"]", "in_bounds">>
    BY <1>1
  <2> QED BY <2>1, DemandsKnown DEF Symbols, Looking, Tokens, Decisions, Operations
<1>3. ASSUME NEW i \in 1 .. 2
      PROVE  RulePlaces(w, "more_names", r, i)
  BY <1>2 DEF RulePlaces
<1>4. ASSUME NEW i \in 2 .. 2
      PROVE  RuleGuards(w, i)
  BY <1>2, DemandsKnown DEF RuleGuards, Looking, Tokens, Decisions
<1>5. RuleEnds(w, "more_names")
  BY <1>2 DEF RuleEnds, Operations
<1>6. RuleFits(w, "more_names", r)
  BY <1>2, <1>3, <1>4, <1>5 DEF RuleFits
<1> QED BY <1>1, <1>6

\* An EXECUTE that prints.
LEMMA PrintFits ==
  ASSUME NEW r
  PROVE  RuleFits(execute("PRINT"), "executed", r)
<1>1. PICK w : w = execute("PRINT")
  OBVIOUS
<1>2. /\ w \in Seq(Symbols) /\ Len(w) = 9
      /\ w[1] = "node" /\ w[2] = "PRINT" /\ w[3] = "PRINT" /\ w[4] = "in_bounds"
      /\ w[5] = "is_string" /\ w[6] = "string_node" /\ w[7] = "in_bounds" /\ w[8] = "end"
      /\ w[9] = "in_bounds"
  <2>1. w = <<"node", "PRINT", "PRINT", "in_bounds", "is_string", "string_node", "in_bounds",
            "end", "in_bounds">>
    BY <1>1 DEF execute
  <2> QED BY <2>1, DemandsKnown DEF Symbols, Looking, Tokens, Decisions, Operations
<1>3. ASSUME NEW i \in 1 .. 9
      PROVE  RulePlaces(w, "executed", r, i)
  BY <1>2 DEF RulePlaces
<1>4. ASSUME NEW i \in 2 .. 9
      PROVE  RuleGuards(w, i)
  BY <1>2, DemandsKnown DEF RuleGuards, Looking, Tokens, Decisions
<1>5. RuleEnds(w, "executed")
  BY <1>2 DEF RuleEnds, Operations
<1>6. RuleFits(w, "executed", r)
  BY <1>2, <1>3, <1>4, <1>5 DEF RuleFits
<1> QED BY <1>1, <1>6

\* An EXECUTE of nothing.
LEMMA NullFits ==
  ASSUME NEW r
  PROVE  RuleFits(execute("NULL"), "executed", r)
<1>1. PICK w : w = execute("NULL")
  OBVIOUS
<1>2. /\ w \in Seq(Symbols) /\ Len(w) = 5
      /\ w[1] = "node" /\ w[2] = "NULL" /\ w[3] = "NULL" /\ w[4] = "end"
      /\ w[5] = "in_bounds"
  <2>1. w = <<"node", "NULL", "NULL", "end", "in_bounds">>
    BY <1>1 DEF execute
  <2> QED BY <2>1, DemandsKnown DEF Symbols, Looking, Tokens, Decisions, Operations
<1>3. ASSUME NEW i \in 1 .. 5
      PROVE  RulePlaces(w, "executed", r, i)
  BY <1>2 DEF RulePlaces
<1>4. ASSUME NEW i \in 2 .. 5
      PROVE  RuleGuards(w, i)
  BY <1>2, DemandsKnown DEF RuleGuards, Looking, Tokens, Decisions
<1>5. RuleEnds(w, "executed")
  BY <1>2 DEF RuleEnds, Operations
<1>6. RuleFits(w, "executed", r)
  BY <1>2, <1>3, <1>4, <1>5 DEF RuleFits
<1> QED BY <1>1, <1>6

\* An EXECUTE of a grave.
LEMMA GraveFits ==
  ASSUME NEW r, AfterStart(r)
  PROVE  RuleFits(<<"grave", "in_bounds">>, "executed", r)
<1>1. PICK w : w = <<"grave", "in_bounds">>
  OBVIOUS
<1>2. /\ w \in Seq(Symbols) /\ Len(w) = 2
      /\ w[1] = "grave" /\ w[2] = "in_bounds"
  <2>1. w = <<"grave", "in_bounds">>
    BY <1>1
  <2> QED BY <2>1, DemandsKnown DEF Symbols, Looking, Tokens, Decisions, Operations
<1>3. ASSUME NEW i \in 1 .. 2
      PROVE  RulePlaces(w, "executed", r, i)
  BY <1>2 DEF RulePlaces
<1>4. ASSUME NEW i \in 2 .. 2
      PROVE  RuleGuards(w, i)
  BY <1>2, DemandsKnown DEF RuleGuards, Looking, Tokens, Decisions
<1>5. RuleEnds(w, "executed")
  BY <1>2 DEF RuleEnds, Operations
<1>6. RuleFits(w, "executed", r)
  BY <1>2, <1>3, <1>4, <1>5 DEF RuleFits
<1> QED BY <1>1, <1>6

\* The end of a body.
LEMMA LoopEndFits ==
  ASSUME NEW r
  PROVE  RuleFits(loop_end, "body", r)
<1>1. PICK w : w = loop_end
  OBVIOUS
<1>2. /\ w \in Seq(Symbols) /\ Len(w) = 10
      /\ w[1] = "rbrace" /\ w[2] = "in_bounds" /\ w[3] = "EXECUTE" /\ w[4] = "in_bounds"
      /\ w[5] = "(" /\ w[6] = "in_bounds" /\ w[7] = "executed" /\ w[8] = ")"
      /\ w[9] = "in_bounds" /\ w[10] = "semicolon"
  <2>1. w = <<"rbrace", "in_bounds", "EXECUTE", "in_bounds", "(", "in_bounds", "executed",
            ")", "in_bounds", "semicolon">>
    BY <1>1 DEF loop_end
  <2> QED BY <2>1, DemandsKnown DEF Symbols, Looking, Tokens, Decisions, Operations
<1>3. ASSUME NEW i \in 1 .. 10
      PROVE  RulePlaces(w, "body", r, i)
  BY <1>2 DEF RulePlaces
<1>4. ASSUME NEW i \in 2 .. 10
      PROVE  RuleGuards(w, i)
  BY <1>2, DemandsKnown DEF RuleGuards, Looking, Tokens, Decisions
<1>5. RuleEnds(w, "body")
  BY <1>2 DEF RuleEnds, Operations
<1>6. RuleFits(w, "body", r)
  BY <1>2, <1>3, <1>4, <1>5 DEF RuleFits
<1> QED BY <1>1, <1>6

\* One more grave of a body.
LEMMA BodyFits ==
  ASSUME NEW r, AfterStart(r)
  PROVE  RuleFits(<<"grave", "body">>, "body", r)
<1>1. PICK w : w = <<"grave", "body">>
  OBVIOUS
<1>2. /\ w \in Seq(Symbols) /\ Len(w) = 2
      /\ w[1] = "grave" /\ w[2] = "body"
  <2>1. w = <<"grave", "body">>
    BY <1>1
  <2> QED BY <2>1, DemandsKnown DEF Symbols, Looking, Tokens, Decisions, Operations
<1>3. ASSUME NEW i \in 1 .. 2
      PROVE  RulePlaces(w, "body", r, i)
  BY <1>2 DEF RulePlaces
<1>4. ASSUME NEW i \in 2 .. 2
      PROVE  RuleGuards(w, i)
  BY <1>2, DemandsKnown DEF RuleGuards, Looking, Tokens, Decisions
<1>5. RuleEnds(w, "body")
  BY <1>2 DEF RuleEnds, Operations
<1>6. RuleFits(w, "body", r)
  BY <1>2, <1>3, <1>4, <1>5 DEF RuleFits
<1> QED BY <1>1, <1>6

\* Whatever is decided.
LEMMA ChosenFits ==
  ASSUME NEW s \in Seq(Symbols), s # <<>>, s[1] \in Decisions, NEW r, NEW n,
         StackFits(s, r, n)
  PROVE  RuleFits(Chosen(s[1], n), s[1], r)
<1>1. 1 \in DOMAIN s /\ DecisionsPlaced(s, r) /\ BodiesPlaced(s, r)
  BY TailOfStack DEF StackFits
<1>2. s[1] # "more_names" => AfterStart(r)
  <2>1. s[1] \in {"grave", "dying", "executed"} => AfterStart(r)
    BY <1>1 DEF DecisionsPlaced
  <2>2. ASSUME s[1] = "body"
        PROVE  AfterStart(r)
    <3>1. \/ 1 = 1 /\ AfterStart(r)
          \/ 1 > 1
      BY <1>1, <2>2 DEF BodiesPlaced
    <3> QED BY <3>1
  <2> QED BY <2>1, <2>2 DEF Decisions
<1>3. CASE s[1] = "grave"
  <2>1. Chosen(s[1], n) = grave(n)
    BY <1>3 DEF Chosen
  <2>2. grave(n) \in {loop, bifurcate, import, death}
    BY DEF grave
  <2> QED BY <1>2, <1>3, <2>1, <2>2, LoopFits, BifurcateFits, ImportFits, DeathFits
<1>4. CASE s[1] = "body"
  <2>1. Chosen(s[1], n) = body(n)
    BY <1>4 DEF Chosen
  <2>2. body(n) \in {loop_end, <<"grave", "body">>}
    BY DEF body
  <2> QED BY <1>2, <1>4, <2>1, <2>2, LoopEndFits, BodyFits
<1>5. CASE s[1] = "dying"
  <2>1. Chosen(s[1], n) = dying(n)
    BY <1>5 DEF Chosen
  <2>2. dying(n) \in {dying("["), dying("THIS"), variable}
    BY DEF dying
  <2> QED BY <1>2, <1>5, <2>1, <2>2, ListFits, ThisFits, NameFits
<1>6. CASE s[1] = "more_names"
  <2>1. Chosen(s[1], n) = more_names(n)
    BY <1>6 DEF Chosen
  <2>2. more_names(n) \in {more_names("comma"), <<"]", "in_bounds">>}
    BY DEF more_names
  <2> QED BY <1>6, <2>1, <2>2, MoreNamesFits, NoMoreNamesFits
<1>7. CASE s[1] = "executed"
  <2>1. Chosen(s[1], n) = execute(n)
    BY <1>7 DEF Chosen
  <2>2. execute(n) \in {execute("PRINT"), execute("NULL"), <<"grave", "in_bounds">>}
    BY DEF execute
  <2> QED BY <1>2, <1>7, <2>1, <2>2, PrintFits, NullFits, GraveFits
<1> QED BY <1>3, <1>4, <1>5, <1>6, <1>7 DEF Decisions

(***************************************************************************)
(* The invariant.                                                          *)
(***************************************************************************)
\* The next grave of the file.
LEMMA GraveStack ==
  ASSUME NEW s, s = <<"grave">>, NEW r, AfterStart(r), NEW n, n # "eof"
  PROVE  s \in Seq(Symbols) /\ StackFits(s, r, n)
<1>1. /\ s \in Seq(Symbols) /\ Len(s) = 1 /\ DOMAIN s = 1 .. 1 /\ s[1] = "grave" /\ s # <<>>
  <2>1. s \in Seq(Symbols) /\ Len(s) = 1 /\ s[1] = "grave"
    BY DEF Symbols, Looking, Decisions
  <2>2. s # <<>>
    OBVIOUS
  <2> QED BY <2>1, <2>2, LenProperties
<1>2. NamesPlaced(s, r, n)
  BY <1>1 DEF NamesPlaced, Unchecked
<1>3. Guarded(s)
  BY <1>1 DEF Guarded
<1>4. DecisionsPlaced(s, r)
  BY <1>1 DEF DecisionsPlaced
<1>5. BodiesPlaced(s, r)
  BY <1>1 DEF BodiesPlaced
<1>6. GravesLeft(s, r)
  BY <1>1 DEF GravesLeft, AfterGrave
<1>7. HeadGuarded(s, r, n)
  BY <1>1 DEF HeadGuarded
<1> QED BY <1>1, <1>2, <1>3, <1>4, <1>5, <1>6, <1>7 DEF StackFits

\* An empty stack.
LEMMA EmptyStack ==
  ASSUME NEW r, AfterStart(r), NEW n
  PROVE  <<>> \in Seq(Symbols) /\ StackFits(<<>>, r, n)
<1>1. PICK s : s = <<>>
  OBVIOUS
<1>2. s \in Seq(Symbols) /\ Len(s) = 0 /\ DOMAIN s = {}
  <2>1. s \in Seq(Symbols) /\ Len(s) = 0
    BY <1>1, EmptySeq
  <2>2. DOMAIN s = 1 .. 0
    BY <2>1, LenProperties
  <2> QED BY <2>1, <2>2
<1>3. NamesPlaced(s, r, n) /\ Guarded(s) /\ DecisionsPlaced(s, r) /\ BodiesPlaced(s, r)
  BY <1>2 DEF NamesPlaced, Guarded, DecisionsPlaced, BodiesPlaced
<1>4. GravesLeft(s, r) /\ HeadGuarded(s, r, n)
  BY <1>1 DEF GravesLeft, HeadGuarded
<1> QED BY <1>1, <1>2, <1>3, <1>4 DEF StackFits

\* The initial states.
LEMMA InitInv == Init => ParseInv
<1> SUFFICES ASSUME Init
             PROVE  ParseInv
  OBVIOUS
<1>1. read = <<>> /\ next \in Tokens \cup {"eof"} /\ stack = <<>> /\ status # "undefined"
  BY DEF Init
<1>2. AfterStart(read)
  BY <1>1 DEF AfterStart
<1>3. stack \in Seq(Symbols) /\ StackFits(stack, read, next)
  BY <1>1, <1>2, EmptyStack
<1>4. read \in Seq(Tokens \cup {"eof"})
  BY <1>1, EmptySeq
<1> QED BY <1>1, <1>3, <1>4 DEF ParseInv, ParseTypes, ReadsBeyondOnly

\* A step that does the head of the stack.
LEMMA PopStep ==
  ASSUME ParseInv, Parsing, stack # <<>>, stack' = Tail(stack), status' = status,
         read' \in Seq(Tokens \cup {"eof"}), next' \in Tokens \cup {"eof"},
         Popped(stack, read, next, read', next')
  PROVE  ParseInv'
<1>1. /\ read \in Seq(Tokens \cup {"eof"}) /\ next \in Tokens \cup {"eof"}
      /\ stack \in Seq(Symbols) /\ StackFits(stack, read, next)
  BY DEF ParseInv, ParseTypes
<1>2. stack' \in Seq(Symbols) /\ StackFits(stack', read', next')
  BY <1>1, Pop
<1>3. ReadsBeyondOnly'
  BY DEF Parsing, ReadsBeyondOnly
<1> QED BY <1>2, <1>3 DEF ParseInv, ParseTypes

\* The parser gets further.
LEMMA AdvanceTypes ==
  ASSUME ParseTypes, Advance
  PROVE  /\ read' = Append(read, next)
         /\ read' \in Seq(Tokens \cup {"eof"}) /\ next' \in Tokens \cup {"eof"}
<1>1. read' = Append(read, next) /\ next' \in Tokens \cup {"eof"}
  BY DEF Advance
<1>2. Append(read, next) \in Seq(Tokens \cup {"eof"})
  BY AppendProperties DEF ParseTypes
<1> QED BY <1>1, <1>2

\* Every step.
LEMMA NextInv == ParseInv /\ [Next]_vars => ParseInv'
<1> SUFFICES ASSUME ParseInv, [Next]_vars
             PROVE  ParseInv'
  OBVIOUS
<1>1. /\ ParseTypes /\ read \in Seq(Tokens \cup {"eof"}) /\ next \in Tokens \cup {"eof"}
      /\ stack \in Seq(Symbols) /\ StackFits(stack, read, next)
  BY DEF ParseInv, ParseTypes
<1>2. stack # <<>> => Symbol = stack[1]
  BY <1>1, HeadTailProperties DEF Symbol
\* A step that ends the parser.
<1>3. ASSUME NEW how, Stop(how), how # "undefined" \/ ReadsBeyondOnly'
      PROVE  ParseInv'
  <2>1. read' = read /\ next' = next /\ stack' = stack /\ status' = how
    BY <1>3 DEF Stop
  <2>2. ReadsBeyondOnly'
    BY <1>3, <2>1 DEF ReadsBeyondOnly
  <2> QED BY <1>1, <2>1, <2>2 DEF ParseInv, ParseTypes
<1>4. CASE NextGrave
  <2>1. /\ status = "parsing" /\ stack = <<>> /\ next # "eof" /\ stack' = <<"grave">>
        /\ read' = read /\ next' = next /\ status' = status
    BY <1>4 DEF NextGrave, Parsing
  <2>2. AfterStart(read)
    BY <1>1, <2>1 DEF StackFits, GravesLeft
  <2>3. stack' \in Seq(Symbols) /\ StackFits(stack', read', next')
    BY <2>1, <2>2, GraveStack
  <2>4. ReadsBeyondOnly'
    BY <2>1 DEF ReadsBeyondOnly
  <2> QED BY <1>1, <2>1, <2>3, <2>4 DEF ParseInv, ParseTypes
<1>5. CASE Finish
  <2>1. /\ status' \in {"segv", "no THIS.DIE()", "accepted"}
        /\ read' = read /\ next' = next /\ stack' = stack
    BY <1>5 DEF Finish, Stop
  <2>2. ReadsBeyondOnly'
    BY <2>1 DEF ReadsBeyondOnly
  <2> QED BY <1>1, <2>1, <2>2 DEF ParseInv, ParseTypes
<1>6. CASE InBounds
  <2>1. CASE /\ next # "eof"
             /\ stack' = Tail(stack)
             /\ UNCHANGED <<read, next, tree, status, is_library>>
    <3>1. Popped(stack, read, next, read', next')
      BY <1>2, <1>6, <2>1 DEF InBounds, AtSymbol, Popped
    <3> QED BY <1>1, <1>6, <2>1, <3>1, PopStep DEF InBounds, AtSymbol
  <2>2. CASE Stop("unexpected end of file")
    BY <1>3, <2>2
  <2> QED BY <1>6, <2>1, <2>2 DEF InBounds
<1>7. CASE Choose
  <2>1. /\ status = "parsing" /\ stack # <<>> /\ stack[1] \in Decisions /\ next # "eof"
        /\ stack' = Chosen(stack[1], next) \o Tail(stack)
        /\ read' = read /\ next' = next /\ status' = status
    BY <1>2, <1>7 DEF Choose, AtSymbol, Parsing
  <2>2. RuleFits(Chosen(stack[1], next), stack[1], read)
    BY <1>1, <2>1, ChosenFits
  <2>3. stack' \in Seq(Symbols) /\ StackFits(stack', read, next)
    <3>1. PICK w : w = Chosen(stack[1], next)
      OBVIOUS
    <3>2. RuleFits(w, stack[1], read) /\ stack' = w \o Tail(stack)
      BY <2>1, <2>2, <3>1
    <3>3. stack \in Seq(Symbols) /\ StackFits(stack, read, next)
      BY <1>1
    <3>4. stack # <<>> /\ stack[1] \in Decisions /\ next # "eof"
      BY <2>1
    <3> QED BY <3>2, <3>3, <3>4, ReplaceKeeps
  <2>4. ReadsBeyondOnly'
    BY <2>1 DEF ReadsBeyondOnly
  <2> QED BY <1>1, <2>1, <2>3, <2>4 DEF ParseInv, ParseTypes
<1>8. CASE Match
  <2>1. CASE /\ next = Symbol
             /\ Advance
             /\ stack' = Tail(stack)
             /\ UNCHANGED <<tree, status, is_library>>
    <3>1. Parsing /\ stack # <<>> /\ stack[1] \in Tokens /\ next = stack[1]
      BY <1>2, <1>8, <2>1 DEF Match, AtSymbol
    <3>2. /\ read' = Append(read, next)
          /\ read' \in Seq(Tokens \cup {"eof"}) /\ next' \in Tokens \cup {"eof"}
      BY <1>1, <2>1, AdvanceTypes
    <3>3. Popped(stack, read, next, read', next')
      BY <3>1, <3>2 DEF Popped
    <3> QED BY <2>1, <3>1, <3>2, <3>3, PopStep
  <2>2. CASE Stop("syntax error")
    BY <1>3, <2>2
  <2> QED BY <1>8, <2>1, <2>2 DEF Match
<1>9. CASE Check
  <2>1. CASE /\ next = Demands[Symbol]
             /\ stack' = Tail(stack)
             /\ UNCHANGED <<read, next, tree, status, is_library>>
    <3>1. Parsing /\ stack # <<>> /\ stack[1] \in DOMAIN Demands /\ next = Demands[stack[1]]
      BY <1>2, <1>9, <2>1 DEF Check, AtSymbol
    <3>2. Popped(stack, read, next, read', next')
      BY <2>1, <3>1 DEF Popped
    <3> QED BY <1>1, <2>1, <3>1, <3>2, PopStep
  <2>2. CASE Stop("syntax error")
    BY <1>3, <2>2
  <2> QED BY <1>9, <2>1, <2>2 DEF Check
<1>10. CASE ReadBeyond
  <2>1. stack # <<>> /\ stack[1] \in Looking /\ next = "eof" /\ Stop("undefined")
    BY <1>2, <1>10 DEF ReadBeyond, AtSymbol, Looking
  <2>2. EndsAfterName(read) \/ EndsInBody(read)
    BY <1>1, <2>1 DEF StackFits, HeadGuarded
  <2>3. read' = read
    BY <2>1 DEF Stop
  <2>4. ReadsBeyondOnly'
    BY <2>2, <2>3 DEF ReadsBeyondOnly
  <2> QED BY <1>3, <2>1, <2>4
<1>11. CASE StringNode
  <2>1. /\ Parsing /\ stack # <<>> /\ stack[1] = "string_node" /\ Advance
        /\ stack' = Tail(stack) /\ status' = status
    BY <1>2, <1>11 DEF StringNode, AtSymbol
  <2>2. /\ read' = Append(read, next)
        /\ read' \in Seq(Tokens \cup {"eof"}) /\ next' \in Tokens \cup {"eof"}
    BY <1>1, <2>1, AdvanceTypes
  <2>3. Popped(stack, read, next, read', next')
    BY <2>1, <2>2 DEF Popped
  <2> QED BY <2>1, <2>2, <2>3, PopStep
<1>12. CASE OpenNode
  <2>1. /\ status = "parsing" /\ stack # <<>> /\ stack[1] = "node"
        /\ stack' = Tail(Tail(stack)) /\ read' = read /\ next' = next /\ status' = status
    BY <1>2, <1>12 DEF OpenNode, AtSymbol, Parsing
  <2>2. stack' \in Seq(Symbols) /\ StackFits(stack', read, next)
    BY <1>1, <2>1, OpenKeeps
  <2>3. ReadsBeyondOnly'
    BY <2>1 DEF ReadsBeyondOnly
  <2> QED BY <1>1, <2>1, <2>2, <2>3 DEF ParseInv, ParseTypes
<1>13. CASE CloseNode
  <2>1. /\ Parsing /\ stack # <<>> /\ stack[1] = "end"
        /\ stack' = Tail(stack) /\ read' = read /\ next' = next /\ status' = status
    BY <1>2, <1>13 DEF CloseNode, AtSymbol
  <2>2. Popped(stack, read, next, read', next')
    BY <2>1 DEF Popped
  <2> QED BY <1>1, <2>1, <2>2, PopStep
<1>14. CASE UNCHANGED vars
  <2>1. read' = read /\ next' = next /\ stack' = stack /\ status' = status
    BY <1>14 DEF vars
  <2>2. ReadsBeyondOnly'
    BY <2>1 DEF ParseInv, ReadsBeyondOnly
  <2> QED BY <1>1, <2>1, <2>2 DEF ParseInv, ParseTypes
<1> QED BY <1>4, <1>5, <1>6, <1>7, <1>8, <1>9, <1>10, <1>11, <1>12, <1>13, <1>14 DEF Next

\* The invariant of the parser holds for files of every length: each look at a token stands
\* behind a test of the bounds, or behind one of the names and graves that have none.
THEOREM ParseInvariant == Spec => []ParseInv
<1> QED BY InitInv, NextInv, PTL DEF Spec

\* The parser reads beyond its tokens only when the file ends after the name of a loop or of
\* an object that dies, or between the graves of a body (parse.c).
THEOREM ReadsBeyondOnlyThere == Spec => []ReadsBeyondOnly
<1>1. ParseInv => ReadsBeyondOnly
  BY DEF ParseInv
<1> QED BY <1>1, ParseInvariant, PTL

=============================================================================
