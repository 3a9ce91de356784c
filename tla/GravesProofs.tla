---------------------------- MODULE GravesProofs ----------------------------
(***************************************************************************)
(* Every program without the UnsafeShapes keeps to the rules the runtime   *)
(* expects: it releases a variable once, before it stores to it again, and *)
(* works only on what a variable still holds. With the count of references *)
(* that module ObjectsProofs shows every step to keep, no such program     *)
(* ever touches a freed object.                                            *)
(***************************************************************************)
EXTENDS Graves, ObjectsProofs

(***************************************************************************)
(* The instructions of a grave.                                            *)
(***************************************************************************)
\* A slot is a number from 0 to NumVars - 1: an index of progvars.
LEMMA SlotType ==
  ASSUME NEW v PROVE v \in Slot <=> v \in Int /\ 0 <= v /\ v < NumVars
BY ObjectsAssumption DEF ObjectsAssumption, Slot

\* Free, Kill, Create and Split of slots are instructions.
LEMMA InstructionType ==
  ASSUME NEW s \in Slot, NEW l \in Slot, NEW r \in Slot, NEW t \in Type
  PROVE  /\ Free(s) \in Instruction /\ Kill(s) \in Instruction
         /\ Create(s, t) \in Instruction /\ Split(s, l, r) \in Instruction
BY DEF Free, Kill, Create, Split, Instruction, Type

\* So are the two that need one slot, whatever the rest of a grave is made of.
LEMMA ReleaseType ==
  ASSUME NEW s \in Slot PROVE Free(s) \in Instruction /\ Kill(s) \in Instruction
BY DEF Free, Kill, Instruction, Type

\* Short tuples of elements of S are sequences over S.
LEMMA TupleType ==
  ASSUME NEW S, NEW a \in S, NEW b \in S, NEW c \in S
  PROVE  <<a>> \in Seq(S) /\ <<a, b>> \in Seq(S) /\ <<a, b, c>> \in Seq(S)
OBVIOUS

\* The instructions of declare_var, which the cases below are made of.
LEMMA DeclareCases ==
  ASSUME NEW v, NEW n, NEW guard
  PROVE  \/ declare_var(v, n, guard) = <<Free(v)>> /\ v < n /\ v # guard
         \/ declare_var(v, n, guard) = <<>> /\ ~ (v < n /\ v # guard)
BY DEF declare_var

\* The concatenations the code of an import or a bifurcation is made of.
LEMMA Joined ==
  ASSUME NEW a, NEW b, NEW c
  PROVE  /\ <<>> \o <<a>> = <<a>> /\ <<a>> \o <<b>> = <<a, b>>
         /\ <<>> \o <<>> = <<>> /\ <<>> \o <<a>> \o <<b>> = <<a, b>>
         /\ <<>> \o <<>> \o <<a>> = <<a>> /\ <<a>> \o <<>> \o <<b>> = <<a, b>>
         /\ <<a>> \o <<b>> \o <<c>> = <<a, b, c>>
<1> DEFINE S == {a, b, c}
<1>1. /\ <<>> \in Seq(S) /\ <<a>> \in Seq(S) /\ <<b>> \in Seq(S) /\ <<c>> \in Seq(S)
      /\ <<a, b>> \in Seq(S) /\ <<a, b, c>> \in Seq(S)
      /\ Len(<<a>>) = 1 /\ Len(<<b>>) = 1 /\ Len(<<c>>) = 1
      /\ Len(<<a, b>>) = 2 /\ Len(<<a, b, c>>) = 3
  OBVIOUS
<1> HIDE DEF S
<1>2. <<a>> \o <<b>> = <<a, b>>
  <2>1. /\ <<a>> \o <<b>> \in Seq(S)
        /\ Len(<<a>> \o <<b>>) = 2
        /\ (<<a>> \o <<b>>)[1] = a /\ (<<a>> \o <<b>>)[2] = b
    BY <1>1, ConcatProperties
  <2>2. \A i \in 1 .. 2 : (<<a>> \o <<b>>)[i] = <<a, b>>[i]
    BY <2>1
  <2> QED BY <1>1, <2>1, <2>2, SeqEqual
<1>3. <<a, b>> \o <<c>> = <<a, b, c>>
  <2>1. /\ <<a, b>> \o <<c>> \in Seq(S)
        /\ Len(<<a, b>> \o <<c>>) = 3
        /\ \A i \in 1 .. 3 : (<<a, b>> \o <<c>>)[i] = IF i <= 2 THEN <<a, b>>[i]
                                                          ELSE <<c>>[i - 2]
    BY <1>1, ConcatProperties
  <2>2. \A i \in 1 .. 3 : (<<a, b>> \o <<c>>)[i] = <<a, b, c>>[i]
    BY <2>1
  <2> QED BY <1>1, <2>1, <2>2, SeqEqual
<1>4. /\ <<>> \o <<>> = <<>> /\ <<>> \o <<a>> = <<a>> /\ <<>> \o <<b>> = <<b>>
      /\ <<a>> \o <<>> = <<a>>
  BY <1>1, ConcatEmptySeq
<1> QED BY <1>2, <1>3, <1>4

\* What code' can be after an import and after a bifurcation.
LEMMA ImportCode ==
  ASSUME TypeOK, NEW v \in Slot, NEW t \in Imports, process_import(v, t)
  PROVE  /\ t \in Type /\ v <= visible
         /\ \/ code' = <<Create(v, t)>>
            \/ code' = <<Free(v), Create(v, t)>> /\ v < visible
         /\ visible' = IF v = visible THEN visible + 1 ELSE visible
         /\ visible' \in 0 .. NumVars
<1>1. v <= visible /\ v \in Int /\ visible \in Int /\ v < NumVars /\ 0 <= v
  BY SlotType, ObjectsAssumption DEF process_import, TypeOK, ObjectsAssumption
<1>2. code' = <<Create(v, t)>> \/ (code' = <<Free(v), Create(v, t)>> /\ v < visible)
  <2>1. code' = declare_var(v, visible, 0) \o <<Create(v, t)>>
    BY DEF process_import
  <2>2. CASE declare_var(v, visible, 0) = <<Free(v)>> /\ v < visible
    BY <2>1, <2>2, Joined
  <2>3. CASE declare_var(v, visible, 0) = <<>>
    BY <2>1, <2>3, Joined
  <2> QED BY <2>2, <2>3, DeclareCases
<1>3. visible' = IF v = visible THEN visible + 1 ELSE visible
  BY <1>1 DEF process_import, Larger
<1>4. visible' \in 0 .. NumVars
  BY <1>1, <1>3, ObjectsAssumption DEF TypeOK, ObjectsAssumption
<1> QED BY <1>1, <1>2, <1>3, <1>4, GravesAssumption DEF GravesAssumption

\* A bifurcation is one Split after at most one release for each half, none of them of
\* the bifurcated slot; only the names of the halves are new in the table.
LEMMA BifCode ==
  ASSUME TypeOK, NEW s \in Slot, NEW l \in Slot, NEW r \in Slot, process_bif(s, l, r)
  PROVE  /\ s < visible
         /\ \/ code' = <<Split(s, l, r)>>
            \/ code' = <<Free(l), Split(s, l, r)>> /\ l < visible /\ l # s
            \/ /\ code' = <<Free(r), Split(s, l, r)>> /\ r # s
               /\ r < visible \/ r = l
            \/ /\ code' = <<Free(l), Free(r), Split(s, l, r)>>
               /\ l < visible /\ l # s /\ r # s
               /\ r < visible \/ r = l
         /\ visible' \in Int /\ visible <= visible' /\ visible' <= NumVars
         /\ \A q \in Slot : q < visible' => q < visible \/ q = l \/ q = r
<1> DEFINE n == Larger(visible, l + 1)
<1>1. /\ s < visible /\ l <= visible /\ r <= n
      /\ l \in Int /\ r \in Int /\ visible \in Int /\ NumVars \in Nat
      /\ 0 <= l /\ l < NumVars /\ r < NumVars /\ 0 <= r
      /\ visible <= NumVars /\ 0 <= visible
  BY SlotType, ObjectsAssumption DEF process_bif, TypeOK, ObjectsAssumption
<1>2. n \in Int /\ (n = visible \/ (n = visible + 1 /\ l = visible)) /\ l < n
  BY <1>1 DEF Larger
<1>3. code' = declare_var(l, visible, s) \o declare_var(r, n, s) \o <<Split(s, l, r)>>
      /\ visible' = Larger(n, r + 1)
  BY DEF process_bif
<1>4. /\ visible' \in Int /\ visible <= visible' /\ visible' <= NumVars
      /\ \A q \in Slot : q < visible' => q < visible \/ q = l \/ q = r
  BY <1>1, <1>2, <1>3, SlotType DEF Larger
<1>5. r < n => r < visible \/ r = l
  BY <1>1, <1>2
<1> HIDE DEF n
<1>6. CASE declare_var(l, visible, s) = <<Free(l)>> /\ l < visible /\ l # s
  <2>1. CASE declare_var(r, n, s) = <<Free(r)>> /\ r < n /\ r # s
    BY <1>1, <1>3, <1>4, <1>5, <1>6, <2>1, Joined
  <2>2. CASE declare_var(r, n, s) = <<>>
    BY <1>1, <1>3, <1>4, <1>6, <2>2, Joined
  <2> QED BY <2>1, <2>2, DeclareCases
<1>7. CASE declare_var(l, visible, s) = <<>>
  <2>1. CASE declare_var(r, n, s) = <<Free(r)>> /\ r < n /\ r # s
    BY <1>1, <1>3, <1>4, <1>5, <1>7, <2>1, Joined
  <2>2. CASE declare_var(r, n, s) = <<>>
    BY <1>1, <1>3, <1>4, <1>7, <2>2, Joined
  <2> QED BY <2>1, <2>2, DeclareCases
<1> QED BY <1>6, <1>7, DeclareCases

(***************************************************************************)
(* Types.                                                                  *)
(***************************************************************************)
\* The first n elements of a sequence.
LEMMA FrontProperties ==
  ASSUME NEW S, NEW s \in Seq(S), NEW n \in Nat, n <= Len(s)
  PROVE  /\ SubSeq(s, 1, n) \in Seq(S)
         /\ Len(SubSeq(s, 1, n)) = n
         /\ \A i \in 1 .. n : SubSeq(s, 1, n)[i] = s[i]
<1>1. \A i \in 1 .. n : s[i] \in S
  BY LenProperties
<1>2. /\ SubSeq(s, 1, n) \in Seq(S)
      /\ Len(SubSeq(s, 1, n)) = IF 1 <= n THEN n - 1 + 1 ELSE 0
      /\ \A i \in 1 .. n - 1 + 1 : SubSeq(s, 1, n)[i] = s[1 + i - 1]
  BY <1>1, SubSeqProperties
<1> QED BY <1>2

\* The innermost open block, and the blocks around it.
LEMMA InnermostType ==
  ASSUME TypeOK, scopes # <<>>
  PROVE  /\ Len(scopes) \in Nat \ {0}
         /\ Innermost \in Scope
         /\ Innermost.kind \in {"body", "execute"}
         /\ Innermost.len \in 0 .. NumVars
         /\ Innermost.var \in Slot
         /\ Outer \in Seq(Scope) /\ Len(Outer) = Len(scopes) - 1
         /\ \A i \in 1 .. Len(scopes) - 1 : Outer[i] = scopes[i]
<1>1. scopes \in Seq(Scope) /\ Len(scopes) \in Nat \ {0}
  BY EmptySeq, LenProperties DEF TypeOK
<1>2. scopes[Len(scopes)] \in Scope
  BY <1>1, ElementOfSeq
<1>3. /\ Outer \in Seq(Scope) /\ Len(Outer) = Len(scopes) - 1
      /\ \A i \in 1 .. Len(scopes) - 1 : Outer[i] = scopes[i]
  <2> DEFINE n == Len(scopes) - 1
  <2>1. n \in Nat /\ n <= Len(scopes)
    BY <1>1
  <2> HIDE DEF n
  <2>2. /\ SubSeq(scopes, 1, n) \in Seq(Scope) /\ Len(SubSeq(scopes, 1, n)) = n
        /\ \A i \in 1 .. n : SubSeq(scopes, 1, n)[i] = scopes[i]
    BY <1>1, <2>1, FrontProperties
  <2> QED BY <2>2 DEF Outer, n
<1> QED BY <1>1, <1>2, <1>3 DEF Innermost, Scope

\* A grave that begins changes no block but for the count of its graves.
LEMMA BegunProperties ==
  ASSUME TypeOK
  PROVE  /\ Begun \in Seq(Scope)
         /\ Len(Begun) = Len(scopes)
         /\ \A i \in 1 .. Len(scopes) : /\ Begun[i].kind = scopes[i].kind
                                        /\ Begun[i].len = scopes[i].len
                                        /\ Begun[i].var = scopes[i].var
<1>1. CASE InExecute
  <2>1. scopes # <<>> /\ scopes \in Seq(Scope) /\ Len(scopes) \in Nat \ {0}
    BY <1>1, InnermostType DEF InExecute, TypeOK
  <2>2. Begun = [scopes EXCEPT ![Len(scopes)].done = TRUE]
    BY <1>1 DEF Begun
  <2>3. \A i \in 1 .. Len(scopes) : scopes[i] \in Scope
    BY <2>1
  <2>7. PICK n \in 1 .. Len(scopes) : n = Len(scopes)
    BY <2>1
  <2>8. DOMAIN scopes = 1 .. Len(scopes) /\ Begun = [scopes EXCEPT ![n].done = TRUE]
    BY <2>1, <2>2, <2>7
  <2>4. /\ DOMAIN Begun = 1 .. Len(scopes)
        /\ \A i \in 1 .. Len(scopes) :
             Begun[i] = IF i = Len(scopes) THEN [scopes[i] EXCEPT !.done = TRUE]
                                             ELSE scopes[i]
    BY <2>7, <2>8
  <2>5. ASSUME NEW i \in 1 .. Len(scopes)
        PROVE  /\ Begun[i] \in Scope
               /\ Begun[i].kind = scopes[i].kind
               /\ Begun[i].len = scopes[i].len
               /\ Begun[i].var = scopes[i].var
    BY <2>3, <2>4 DEF Scope
  <2>6. Begun \in Seq(Scope) /\ Len(Begun) = Len(scopes)
    BY <2>1, <2>2, <2>4, <2>5
  <2> QED BY <2>5, <2>6
<1>2. CASE ~ InExecute
  BY <1>2 DEF Begun, TypeOK
<1> QED BY <1>1, <1>2

\* A function from 1 .. n to instructions is a list of n instructions.
LEMMA CodeType ==
  ASSUME NEW n \in Nat, NEW f, f = [i \in 1 .. n |-> f[i]],
         \A i \in 1 .. n : f[i] \in Instruction
  PROVE  f \in Seq(Instruction) /\ Len(f) = n
<1>1. f \in [1 .. n -> Instruction]
  BY Zenon
<1> QED BY <1>1

\* The instructions of a list of deaths and those at the end of a block.
LEMMA DieCode ==
  ASSUME TypeOK, NEW slots \in DieLists, process_die(slots)
  PROVE  /\ slots \in Seq(Slot) /\ code' \in Seq(Instruction)
         /\ Len(code') = Len(slots)
         /\ \A i \in 1 .. Len(slots) : code'[i] = Kill(slots[i]) /\ slots[i] \in Slot
<1>1. PICK n \in 1 .. MaxDie : slots \in [1 .. n -> Slot]
  BY DEF DieLists
<1>2. n \in Nat
  BY <1>1, GravesAssumption DEF GravesAssumption
<1>3. slots \in Seq(Slot) /\ Len(slots) = n
  BY <1>1, <1>2
<1>4. code' = [i \in 1 .. n |-> Kill(slots[i])]
  BY <1>3 DEF process_die
<1>5. \A i \in 1 .. n : code'[i] = Kill(slots[i]) /\ slots[i] \in Slot
  BY <1>1, <1>4
<1>6. \A i \in 1 .. n : code'[i] \in Instruction
  BY <1>5, ReleaseType
<1>7. code' = [i \in 1 .. n |-> code'[i]]
  BY <1>4
<1>8. code' \in Seq(Instruction) /\ Len(code') = n
  BY <1>2, <1>6, <1>7, CodeType
<1> QED BY <1>3, <1>5, <1>8

\* The end of a block releases slots that are out of the table and were in the block's.
LEMMA EndCode ==
  ASSUME TypeOK, EndBlock
  PROVE  /\ code' \in Seq(Instruction)
         /\ \A i \in 1 .. Len(code') :
              /\ code'[i] = Free(visible + i - 1)
              /\ visible + i - 1 \in Slot
              /\ visible + i - 1 < Innermost.len
<1>1. CASE Innermost.len > visible
  <2> DEFINE n == Innermost.len - visible
  <2>1. /\ n \in Nat /\ visible \in Nat /\ Innermost.len \in Nat
        /\ Innermost.len <= NumVars /\ NumVars \in Nat
    BY <1>1, InnermostType, ObjectsAssumption
       DEF EndBlock, InExecute, TypeOK, ObjectsAssumption
  <2>2. code' = [i \in 1 .. n |-> Free(visible + i - 1)]
    BY <1>1 DEF EndBlock
  <2>3. ASSUME NEW i \in 1 .. n
        PROVE  visible + i - 1 \in Slot /\ visible + i - 1 < Innermost.len
    BY <2>1, SlotType
  <2>4. \A i \in 1 .. n : code'[i] = Free(visible + i - 1)
    BY <2>2
  <2>5. \A i \in 1 .. n : code'[i] \in Instruction
    BY <2>3, <2>4, ReleaseType
  <2> HIDE DEF n
  <2>6. code' = [i \in 1 .. n |-> code'[i]]
    BY <2>2
  <2>7. code' \in Seq(Instruction) /\ Len(code') = n
    BY <2>1, <2>5, <2>6, CodeType
  <2> QED BY <2>3, <2>4, <2>7
<1>2. CASE ~ (Innermost.len > visible)
  <2>1. code' = <<>>
    BY <1>2 DEF EndBlock
  <2> QED BY <2>1
<1> QED BY <1>1, <1>2

\* The instruction fetched is the first of the list, and the rest moves up.
LEMMA FetchType ==
  ASSUME TypeOK, NEW op, Fetch(op)
  PROVE  /\ Instr \in Instruction /\ Instr.op = op
         /\ Instr.slot \in Slot /\ Instr.left \in Slot /\ Instr.right \in Slot
         /\ Instr.type \in Type
         /\ Instr = code[1] /\ Len(code) \in Nat \ {0}
         /\ code' \in Seq(Instruction) /\ Len(code') = Len(code) - 1
         /\ \A i \in 1 .. Len(code') : code'[i] = code[i + 1]
         /\ UNCHANGED <<visible, scopes>>
<1>1. code \in Seq(Instruction) /\ code # <<>>
  BY DEF Fetch, TypeOK
<1>2. Instr \in Instruction /\ Instr = code[1] /\ Len(code) \in Nat \ {0}
  BY <1>1, HeadTailProperties, EmptySeq DEF Instr
<1>3. /\ Tail(code) \in Seq(Instruction) /\ Len(Tail(code)) = Len(code) - 1
      /\ \A i \in 1 .. Len(Tail(code)) : Tail(code)[i] = code[i + 1]
  BY <1>1, HeadTailProperties
<1> QED BY <1>2, <1>3 DEF Fetch, Instruction

\* The choice of a grave (process_node) keeps the state well typed.
LEMMA TypeGrave ==
  ASSUME TypeOK, Grave
  PROVE  TypeOK'
<1> USE DEF TypeOK
<1>1. ASSUME NEW v \in Slot, NEW t \in Imports, process_import(v, t) PROVE TypeOK'
  <2>1. /\ t \in Type /\ visible' \in 0 .. NumVars
        /\ code' = <<Create(v, t)>> \/ code' = <<Free(v), Create(v, t)>>
    BY <1>1, ImportCode
  <2>2. Create(v, t) \in Instruction /\ Free(v) \in Instruction
    BY <2>1, InstructionType
  <2>3. code' \in Seq(Instruction)
    BY <2>1, <2>2, TupleType
  <2>4. scopes' \in Seq(Scope) /\ ObjectsTypeOK'
    BY <1>1, BegunProperties DEF process_import, GraveBegun, objectVars, ObjectsTypeOK
  <2> QED BY <2>1, <2>3, <2>4
<1>2. ASSUME NEW s \in Slot, NEW l \in Slot, NEW r \in Slot, process_bif(s, l, r)
      PROVE  TypeOK'
  <2>1. /\ visible' \in Int /\ visible <= visible' /\ visible' <= NumVars
        /\ \/ code' = <<Split(s, l, r)>>
           \/ code' = <<Free(l), Split(s, l, r)>>
           \/ code' = <<Free(r), Split(s, l, r)>>
           \/ code' = <<Free(l), Free(r), Split(s, l, r)>>
    BY <1>2, BifCode
  <2>2. Split(s, l, r) \in Instruction /\ Free(l) \in Instruction /\ Free(r) \in Instruction
    BY InstructionType DEF Free, Split, Instruction, Type
  <2>3. code' \in Seq(Instruction)
    BY <2>1, <2>2, TupleType
  <2>4. scopes' \in Seq(Scope) /\ ObjectsTypeOK'
    BY <1>2, BegunProperties DEF process_bif, GraveBegun, objectVars, ObjectsTypeOK
  <2>5. visible' \in 0 .. NumVars
    BY <2>1, ObjectsAssumption DEF ObjectsAssumption
  <2> QED BY <2>3, <2>4, <2>5
<1>3. ASSUME NEW slots \in DieLists, process_die(slots) PROVE TypeOK'
  BY <1>3, DieCode, BegunProperties DEF process_die, GraveBegun, ObjectsTypeOK
<1>4. CASE process_this_die
  BY <1>4, StopType DEF process_this_die
<1>5. ASSUME NEW v \in Slot, Enter(v) PROVE TypeOK'
  <2> DEFINE block == [kind |-> "body", len |-> visible, var |-> v, done |-> FALSE]
  <2>1. Begun \in Seq(Scope)
    BY BegunProperties
  <2>2. block \in Scope
    BY DEF Scope
  <2>3. scopes' = Append(Begun, block)
    BY <1>5 DEF Enter
  <2> HIDE DEF block
  <2>4. scopes' \in Seq(Scope)
    BY <2>1, <2>2, <2>3
  <2> QED BY <1>5, <2>4 DEF Enter, ObjectsTypeOK
<1>6. ASSUME NEW v \in Slot, NEW k \in 0 .. 2, Skip(v, k) PROVE TypeOK'
  <2>1. visible' \in 0 .. NumVars
    BY <1>6 DEF Skip
  <2> QED BY <1>6, <2>1, BegunProperties DEF Skip, GraveBegun, ObjectsTypeOK
<1>7. CASE Repeat
  BY <1>7, InnermostType DEF Repeat, InBody, ObjectsTypeOK
<1>8. CASE EndBody
  <2> DEFINE block == [kind |-> "execute", len |-> visible, var |-> Innermost.var,
                       done |-> FALSE]
  <2>1. Outer \in Seq(Scope) /\ block \in Scope /\ Innermost.len \in 0 .. NumVars
    BY <1>8, InnermostType DEF EndBody, InBody, Scope
  <2>2. scopes' = Append(Outer, block)
    BY <1>8 DEF EndBody
  <2> HIDE DEF block
  <2>3. scopes' \in Seq(Scope)
    BY <2>1, <2>2
  <2> QED BY <1>8, <2>1, <2>3 DEF EndBody, ObjectsTypeOK
<1>9. CASE EndBlock
  <2>1. scopes' \in Seq(Scope)
    BY <1>9, InnermostType DEF EndBlock, InExecute
  <2> QED BY <1>9, <2>1, EndCode DEF EndBlock, ObjectsTypeOK
<1>10. CASE TestFaults
  BY <1>10, FaultType DEF TestFaults
<1> QED BY <1>1, <1>2, <1>3, <1>4, <1>5, <1>6, <1>7, <1>8, <1>9, <1>10 DEF Grave

\* So does every step.
LEMMA TypeNext ==
  ASSUME TypeOK, [Next]_vars
  PROVE  TypeOK'
<1>1. CASE Grave
  BY <1>1, TypeGrave
<1>2. CASE ExecFree
  BY <1>2, FetchType, TypeFreeSlot DEF ExecFree, TypeOK
<1>3. CASE ExecKill
  BY <1>3, FetchType, TypeKill DEF ExecKill, TypeOK
<1>4. CASE ExecCreate
  BY <1>4, FetchType, TypeCreate DEF ExecCreate, TypeOK
<1>5. CASE ExecSplit
  BY <1>5, FetchType, TypeBifurcate DEF ExecSplit, TypeOK
<1>6. CASE RunRuntime
  BY <1>6, TypeRuntime DEF RunRuntime, TypeOK
<1>7. CASE UNCHANGED vars
  BY <1>7 DEF vars, TypeOK, ObjectsTypeOK
<1> QED BY <1>1, <1>2, <1>3, <1>4, <1>5, <1>6, <1>7 DEF Next, Terminated

\* Whatever the program does, every pointer is null, universal_dead or an address
\* of the memory, every slot the code works on is one of progvars, and the table of
\* names never outgrows it.
THEOREM TypeCorrect == Spec => []TypeOK
<1>1. Init => TypeOK
  BY TypeInit, ObjectsAssumption DEF Init, TypeOK, ObjectsAssumption
<1>2. TypeOK /\ [Next]_vars => TypeOK'
  BY TypeNext
<1> QED BY <1>1, <1>2, PTL DEF Spec

(***************************************************************************)
(* The rules the emitted instructions keep.                                *)
(***************************************************************************)
\* What a release uses and stores.
LEMMA FreeFields ==
  ASSUME NEW s
  PROVE  /\ Free(s).op = "free_object" /\ Free(s).slot = s
         /\ Uses(Free(s)) = {s} /\ Stores(Free(s)) = {}
BY DEF Free, Uses, Stores

\* What a kill uses.
LEMMA KillFields ==
  ASSUME NEW s
  PROVE  Kill(s).op = "kill" /\ Kill(s).slot = s /\ Uses(Kill(s)) = {s}
BY DEF Kill, Uses

\* What the creation of an object uses and stores.
LEMMA CreateFields ==
  ASSUME NEW s, NEW t
  PROVE  /\ Create(s, t).op = "create_object"
         /\ Uses(Create(s, t)) = {} /\ Stores(Create(s, t)) = {s}
BY DEF Create, Uses, Stores

\* What a bifurcation uses and stores.
LEMMA SplitFields ==
  ASSUME NEW s, NEW l, NEW r
  PROVE  /\ Split(s, l, r).op = "bifurcate" /\ Split(s, l, r).slot = s
         /\ Uses(Split(s, l, r)) = {s} /\ Stores(Split(s, l, r)) = {l, r}
BY DEF Split, Uses, Stores

\* Between two graves every name in the table is owned.
LEMMA BetweenOwned ==
  ASSUME GravesInv, Ready, code = <<>>
  PROVE  /\ Running /\ TypeOK /\ RuntimeInv /\ Defined /\ TablesNested
         /\ \A s \in Slot : s < visible => s \in owned
         /\ InExecute => \A s \in Slot : visible <= s /\ s < Innermost.len => s \in owned
<1>1. /\ Running /\ TypeOK /\ RuntimeInv /\ Defined /\ TablesNested
      /\ NamesBound /\ LocalsOwned
  BY DEF GravesInv, Ready, CodeInv
<1>2. Len(code) = 0
  OBVIOUS
<1> QED BY <1>1, <1>2 DEF NamesBound, LocalsOwned

\* A step that leaves the objects alone keeps what is true of them.
LEMMA SameObjects ==
  ASSUME RuntimeInv, Defined, UNCHANGED objectVars
  PROVE  RuntimeInv' /\ Defined'
<1>1. UNCHANGED <<heap, progvars, owned, calls, status>>
  BY DEF objectVars
<1>2. RefsCounted'
  BY <1>1, ZenonT(60) DEF RuntimeInv, RefsCounted, References, Count, Detached
<1>3. FreesUnique' /\ KillsHeld' /\ OwnedStored' /\ Defined'
  BY <1>1 DEF RuntimeInv, FreesUnique, KillsHeld, OwnedStored, Defined
<1> QED BY <1>2, <1>3 DEF RuntimeInv

\* The instructions of a grave that stores: releases of names in the table, then the
\* one that stores to all of them.
LEMMA StoringGrave ==
  ASSUME GravesInv, Ready, code = <<>>, UNCHANGED objectVars,
         code' \in Seq(Instruction), NEW n \in Nat \ {0}, Len(code') = n,
         \A i \in 1 .. n - 1 : /\ code'[i].op = "free_object"
                               /\ code'[i].slot < visible
                               /\ code'[i].slot \notin Uses(code'[n])
                               /\ code'[i].slot \in Stores(code'[n]),
         \A i, j \in 1 .. n - 1 : i < j => code'[i].slot # code'[j].slot,
         \A s \in Uses(code'[n]) : s \in Slot /\ s < visible,
         code'[n].op # "free_object",
         code'[n].op = "bifurcate" => ~ IsUniverse(progvars[code'[n].slot]),
         \A s \in Slot : s < visible' => s < visible \/ s \in Stores(code'[n])
  PROVE  /\ CodeInv'
         /\ \A s \in Slot : visible <= s => ~ Releases(s)'
<1>1. UNCHANGED <<heap, progvars, owned, calls, status>>
  BY DEF objectVars
<1>2. visible \in Int /\ \A s \in Slot : s < visible => s \in owned
  BY BetweenOwned DEF TypeOK
<1>3. \A i \in 1 .. n - 1 : code'[i].slot \in Slot
  <2>1. \A i \in 1 .. n - 1 : code'[i] \in Instruction
    BY ElementOfSeq
  <2> QED BY <2>1 DEF Instruction
<1>4. \A i \in 1 .. n - 1 : Uses(code'[i]) = {code'[i].slot}
  BY DEF Uses
<1>5. UsesOwned'
  <2>1. ASSUME NEW i \in 1 .. n PROVE Uses(code'[i]) \subseteq owned
    <3>1. CASE i = n
      BY <1>2, <3>1
    <3>2. CASE i \in 1 .. n - 1
      BY <1>2, <1>3, <1>4, <3>2, ZenonT(60)
    <3> QED BY <3>1, <3>2
  <2>2. ASSUME NEW i \in 1 .. n, NEW j \in 1 .. n, i < j
        PROVE  code'[i].slot \notin Uses(code'[j])
    <3>1. i \in 1 .. n - 1
      BY <2>2
    <3>2. CASE j = n
      BY <3>1, <3>2
    <3>3. CASE j \in 1 .. n - 1
      BY <1>4, <2>2, <3>1, <3>3, ZenonT(60)
    <3> QED BY <3>2, <3>3
  <2> QED BY <1>1, <2>1, <2>2 DEF UsesOwned
<1>6. SplitsNoUniverse'
  <2>1. \A i \in 1 .. n : code'[i].op = "bifurcate" => i = n
    OBVIOUS
  <2> QED BY <1>1, <2>1 DEF SplitsNoUniverse, IsUniverse
<1>7. StoresLast'
  BY DEF StoresLast
<1>8. NamesBound'
  <2> SUFFICES ASSUME NEW s \in Slot, s < visible'
               PROVE  (s \in owned' /\ ~ Releases(s)')
                        \/ \E i \in 1 .. Len(code') : s \in Stores(code'[i])
    BY DEF NamesBound
  <2>1. CASE s \in Stores(code'[n])
    BY <2>1
  <2>2. CASE s \notin Stores(code'[n])
    <3>1. s \in owned'
      BY <1>1, <1>2, <2>2
    <3>2. ASSUME NEW i \in 1 .. Len(code'), code'[i].op = "free_object" PROVE code'[i].slot # s
      <4>1. i \in 1 .. n - 1
        BY <3>2
      <4> QED BY <2>2, <4>1
    <3> QED BY <3>1, <3>2 DEF Releases
  <2> QED BY <2>1, <2>2
<1>9. ASSUME NEW s \in Slot, visible <= s PROVE ~ Releases(s)'
  <2> SUFFICES ASSUME NEW i \in 1 .. Len(code'), code'[i].op = "free_object" PROVE code'[i].slot # s
    BY DEF Releases
  <2>1. i \in 1 .. n - 1
    OBVIOUS
  <2>2. code'[i].slot \in Int /\ s \in Int /\ code'[i].slot < visible
    BY <1>3, <2>1, SlotType
  <2> QED BY <1>2, <1>9, <2>2
<1> QED BY <1>5, <1>6, <1>7, <1>8, <1>9 DEF CodeInv

\* The blocks stay open, and the table of names does not shrink.
LEMMA BlocksStay ==
  ASSUME TypeOK, TablesNested, GraveBegun, visible' \in Int, visible <= visible'
  PROVE  /\ TablesNested'
         /\ InExecute' = InExecute
         /\ InExecute => Innermost'.len = Innermost.len
<1>1. /\ scopes' = Begun /\ scopes' \in Seq(Scope) /\ Len(scopes') = Len(scopes)
      /\ \A i \in 1 .. Len(scopes) : /\ scopes'[i].kind = scopes[i].kind
                                     /\ scopes'[i].len = scopes[i].len
                                     /\ scopes'[i].var = scopes[i].var
  BY BegunProperties DEF GraveBegun
<1>2. \A i \in 1 .. Len(scopes) : scopes[i].len \in Int
  <2>1. \A i \in 1 .. Len(scopes) : scopes[i] \in Scope
    BY ElementOfSeq DEF TypeOK
  <2>2. \A i \in 1 .. Len(scopes) : scopes[i].len \in 0 .. NumVars
    BY <2>1 DEF Scope
  <2> QED BY <2>2, ObjectsAssumption DEF ObjectsAssumption
<1>3. visible \in Int
  BY DEF TypeOK
<1>4. TablesNested'
  BY <1>1, <1>2, <1>3 DEF TablesNested
<1>5. scopes \in Seq(Scope) /\ Len(scopes) \in Nat
  BY DEF TypeOK
<1>6. scopes' = <<>> <=> scopes = <<>>
  BY <1>1, <1>5, EmptySeq
<1>7. CASE scopes = <<>>
  BY <1>4, <1>6, <1>7 DEF InExecute
<1>8. CASE scopes # <<>>
  <2>1. Len(scopes) \in 1 .. Len(scopes)
    BY <1>5, <1>8, EmptySeq
  <2> QED BY <1>1, <1>4, <1>6, <1>8, <2>1 DEF InExecute, Innermost
<1> QED BY <1>4, <1>7, <1>8

(***************************************************************************)
(* The graves, when the program has none of the UnsafeShapes.              *)
(***************************************************************************)
\* import: process_abs, process_uni and process_in keep the invariant.
LEMMA ImportKeeps ==
  ASSUME GravesInv, NEW v \in Slot, NEW t \in Imports, process_import(v, t)
  PROVE  GravesInv'
<1>1. /\ AtGrave /\ GraveBegun /\ UNCHANGED objectVars
      /\ Ready /\ code = <<>>
  BY DEF process_import, AtGrave, Between
<1>2. /\ Running /\ TypeOK /\ RuntimeInv /\ Defined /\ TablesNested
      /\ InExecute => \A s \in Slot : visible <= s /\ s < Innermost.len => s \in owned
  BY <1>1, BetweenOwned
<1>3. TypeOK'
  BY <1>2, TypeNext DEF Next, Grave
<1>4. /\ visible \in Int /\ visible' \in Int /\ visible <= visible'
      /\ \A s \in Slot : s < visible' => s < visible \/ s = v
      /\ \/ code' = <<Create(v, t)>>
         \/ code' = <<Free(v), Create(v, t)>> /\ v < visible
  <2>1. /\ v <= visible
        /\ visible' = IF v = visible THEN visible + 1 ELSE visible
        /\ \/ code' = <<Create(v, t)>>
           \/ code' = <<Free(v), Create(v, t)>> /\ v < visible
    BY <1>2, ImportCode
  <2>2. visible \in Int /\ NumVars \in Nat
    BY <1>2, ObjectsAssumption DEF TypeOK, ObjectsAssumption
  <2> QED BY <2>1, <2>2, SlotType
<1>5. PICK n \in Nat \ {0} :
        /\ Len(code') = n
        /\ code'[n] = Create(v, t)
        /\ \A i \in 1 .. n - 1 : code'[i] = Free(v) /\ v < visible
        /\ n <= 2
  <2>1. CASE code' = <<Create(v, t)>>
    <3>1. Len(code') = 1 /\ code'[1] = Create(v, t)
      BY <2>1
    <3> QED BY <3>1
  <2>2. CASE code' = <<Free(v), Create(v, t)>> /\ v < visible
    <3>1. Len(code') = 2 /\ code'[1] = Free(v) /\ code'[2] = Create(v, t)
      BY <2>2
    <3> QED BY <2>2, <3>1
  <2> QED BY <1>4, <2>1, <2>2
<1>6. CodeInv' /\ \A s \in Slot : visible <= s => ~ Releases(s)'
  <2>1. code' \in Seq(Instruction)
    BY <1>3 DEF TypeOK
  <2>2. \A i \in 1 .. n - 1 : /\ code'[i].op = "free_object"
                              /\ code'[i].slot < visible
                              /\ code'[i].slot \notin Uses(code'[n])
                              /\ code'[i].slot \in Stores(code'[n])
    BY <1>5, FreeFields, CreateFields
  <2>3. \A i, j \in 1 .. n - 1 : i < j => code'[i].slot # code'[j].slot
    BY <1>5
  <2>4. Uses(code'[n]) = {} /\ Stores(code'[n]) = {v} /\ code'[n].op = "create_object"
    BY <1>5, FreeFields, CreateFields
  <2> QED BY <1>1, <1>4, <1>5, <2>1, <2>2, <2>3, <2>4, StoringGrave
<1>7. TablesNested' /\ InExecute' = InExecute
      /\ (InExecute => Innermost'.len = Innermost.len)
  BY <1>1, <1>2, <1>4, BlocksStay
<1>8. LocalsOwned'
  <2>1. owned' = owned
    BY <1>1 DEF objectVars
  <2>2. \A s \in Slot : s \in Int
    BY SlotType
  <2> QED BY <1>2, <1>4, <1>6, <1>7, <2>1, <2>2 DEF LocalsOwned
<1> QED BY <1>1, <1>2, <1>3, <1>6, <1>7, <1>8, SameObjects DEF GravesInv

\* bifurcate: process_bif keeps it, when no two halves go to one existing variable.
LEMMA BifKeeps ==
  ASSUME GravesInv, Shapes \cap UnsafeShapes = {},
         NEW s \in Slot, NEW l \in Slot, NEW r \in Slot, process_bif(s, l, r)
  PROVE  GravesInv'
<1>1. /\ AtGrave /\ GraveBegun /\ UNCHANGED objectVars
      /\ Ready /\ code = <<>> /\ l # r /\ ~ IsUniverse(progvars[s])
  BY DEF process_bif, AtGrave, Between, UnsafeShapes, NotUniverse, IsUniverse
<1>2. /\ Running /\ TypeOK /\ RuntimeInv /\ Defined /\ TablesNested
      /\ InExecute => \A q \in Slot : visible <= q /\ q < Innermost.len => q \in owned
  BY <1>1, BetweenOwned
<1>3. TypeOK'
  BY <1>2, TypeNext DEF Next, Grave
<1>4. /\ visible \in Int /\ visible' \in Int /\ visible <= visible' /\ s < visible
      /\ \A q \in Slot : q < visible' => q < visible \/ q = l \/ q = r
  BY <1>2, BifCode DEF TypeOK
<1>5. PICK n \in Nat \ {0} :
        /\ Len(code') = n
        /\ code'[n] = Split(s, l, r)
        /\ \A i \in 1 .. n - 1 : \E q \in {l, r} :
             code'[i] = Free(q) /\ q < visible /\ q # s
        /\ \A i, j \in 1 .. n - 1 : i < j => code'[i].slot # code'[j].slot
  <2>1. CASE code' = <<Split(s, l, r)>>
    <3>1. Len(code') = 1 /\ code'[1] = Split(s, l, r)
      BY <2>1
    <3> QED BY <3>1
  <2>2. ASSUME NEW q \in {l, r}, code' = <<Free(q), Split(s, l, r)>>, q < visible, q # s
        PROVE  \E n \in Nat \ {0} :
                 /\ Len(code') = n
                 /\ code'[n] = Split(s, l, r)
                 /\ \A i \in 1 .. n - 1 : \E w \in {l, r} :
                      code'[i] = Free(w) /\ w < visible /\ w # s
                 /\ \A i, j \in 1 .. n - 1 : i < j => code'[i].slot # code'[j].slot
    <3>1. Len(code') = 2 /\ code'[1] = Free(q) /\ code'[2] = Split(s, l, r)
      BY <2>2
    <3> QED BY <2>2, <3>1
  <2>3. CASE /\ code' = <<Free(l), Free(r), Split(s, l, r)>>
             /\ l < visible /\ r < visible /\ l # s /\ r # s
    <3>1. /\ Len(code') = 3 /\ code'[1] = Free(l) /\ code'[2] = Free(r)
          /\ code'[3] = Split(s, l, r)
          /\ code'[1].slot # code'[2].slot
      BY <1>1, <2>3, FreeFields, SplitFields
    <3> QED BY <2>3, <3>1
  <2> QED BY <1>1, <1>2, <2>1, <2>2, <2>3, BifCode
<1>6. CodeInv' /\ \A q \in Slot : visible <= q => ~ Releases(q)'
  <2>1. code' \in Seq(Instruction)
    BY <1>3 DEF TypeOK
  <2>2. /\ Uses(code'[n]) = {s} /\ Stores(code'[n]) = {l, r}
        /\ code'[n].op = "bifurcate" /\ code'[n].slot = s
    BY <1>5, FreeFields, SplitFields
  <2>3. \A i \in 1 .. n - 1 : /\ code'[i].op = "free_object"
                              /\ code'[i].slot < visible
                              /\ code'[i].slot \notin Uses(code'[n])
                              /\ code'[i].slot \in Stores(code'[n])
    BY <1>5, <2>2, FreeFields, SplitFields
  <2> QED BY <1>1, <1>4, <1>5, <2>1, <2>2, <2>3, StoringGrave
<1>7. TablesNested' /\ InExecute' = InExecute
      /\ (InExecute => Innermost'.len = Innermost.len)
  BY <1>1, <1>2, <1>4, BlocksStay
<1>8. LocalsOwned'
  <2>1. owned' = owned
    BY <1>1 DEF objectVars
  <2>2. \A q \in Slot : q \in Int
    BY SlotType
  <2> QED BY <1>2, <1>4, <1>6, <1>7, <2>1, <2>2 DEF LocalsOwned
<1> QED BY <1>1, <1>2, <1>3, <1>6, <1>7, <1>8, SameObjects DEF GravesInv

\* .DIE(): process_die keeps it.
LEMMA DieKeeps ==
  ASSUME GravesInv, NEW slots \in DieLists, process_die(slots)
  PROVE  GravesInv'
<1>1. /\ AtGrave /\ GraveBegun /\ Ready /\ code = <<>>
      /\ UNCHANGED objectVars /\ UNCHANGED visible
      /\ \A i \in 1 .. Len(slots) : slots[i] < visible
  BY DEF process_die, AtGrave, Between, objectVars
<1>2. /\ Running /\ TypeOK /\ RuntimeInv /\ Defined /\ TablesNested
      /\ \A s \in Slot : s < visible => s \in owned
      /\ InExecute => \A s \in Slot : visible <= s /\ s < Innermost.len => s \in owned
  BY <1>1, BetweenOwned
<1>3. TypeOK'
  BY <1>2, TypeNext DEF Next, Grave
<1>4. /\ Len(code') = Len(slots)
      /\ \A i \in 1 .. Len(code') : /\ code'[i].op = "kill"
                                    /\ Uses(code'[i]) \subseteq owned
  BY <1>1, <1>2, DieCode, KillFields
<1>5. owned' = owned
  BY <1>1 DEF objectVars
<1>6. /\ UsesOwned' /\ SplitsNoUniverse' /\ StoresLast'
      /\ \A s \in Slot : ~ Releases(s)'
  BY <1>4, <1>5 DEF UsesOwned, SplitsNoUniverse, StoresLast, Releases
<1>7. NamesBound'
  BY <1>1, <1>2, <1>5, <1>6 DEF NamesBound
<1>8. TablesNested' /\ InExecute' = InExecute
      /\ (InExecute => Innermost'.len = Innermost.len)
  <2>1. visible \in Int
    BY <1>2 DEF TypeOK
  <2> QED BY <1>1, <1>2, <2>1, BlocksStay
<1>9. LocalsOwned'
  BY <1>1, <1>2, <1>5, <1>6, <1>8 DEF LocalsOwned
<1> QED BY <1>1, <1>2, <1>3, <1>6, <1>7, <1>8, <1>9, SameObjects DEF GravesInv, CodeInv

\* A loop that is skipped keeps it, when its EXECUTE declares no name.
LEMMA SkipKeeps ==
  ASSUME GravesInv, Shapes \cap UnsafeShapes = {},
         NEW v \in Slot, NEW k \in 0 .. 2, Skip(v, k)
  PROVE  GravesInv'
<1>1. /\ GraveBegun /\ Ready /\ code = <<>> /\ code' = code
      /\ UNCHANGED objectVars /\ k = 0 /\ visible' = visible + k
  BY DEF Skip, AtGrave, Between, objectVars, UnsafeShapes
<1>2. /\ Running /\ TypeOK /\ RuntimeInv /\ Defined /\ TablesNested
      /\ \A s \in Slot : s < visible => s \in owned
      /\ InExecute => \A s \in Slot : visible <= s /\ s < Innermost.len => s \in owned
  BY <1>1, BetweenOwned
<1>3. TypeOK'
  BY <1>2, TypeNext DEF Next, Grave
<1>4. visible \in Int /\ visible' = visible
  BY <1>1, <1>2 DEF TypeOK
<1>5. owned' = owned /\ Len(code') = 0
  BY <1>1 DEF objectVars
<1>6. CodeInv' /\ \A s \in Slot : ~ Releases(s)'
  BY <1>2, <1>4, <1>5
     DEF CodeInv, UsesOwned, SplitsNoUniverse, StoresLast, NamesBound, Releases
<1>7. TablesNested' /\ InExecute' = InExecute
      /\ (InExecute => Innermost'.len = Innermost.len)
  BY <1>1, <1>2, <1>4, BlocksStay
<1>8. LocalsOwned'
  BY <1>2, <1>4, <1>5, <1>6, <1>7 DEF LocalsOwned
<1> QED BY <1>1, <1>2, <1>3, <1>6, <1>7, <1>8, SameObjects DEF GravesInv

\* A loop that is entered keeps it, when it is not an EXECUTE over locals.
LEMMA EnterKeeps ==
  ASSUME GravesInv, Shapes \cap UnsafeShapes = {}, NEW v \in Slot, Enter(v)
  PROVE  GravesInv'
<1>1. /\ Ready /\ code = <<>> /\ v < visible
      /\ UNCHANGED objectVars /\ UNCHANGED code /\ UNCHANGED visible
      /\ InExecute => ~ (visible < Innermost.len)
  BY DEF Enter, AtGrave, Between, objectVars, UnsafeShapes
<1>2. /\ Running /\ TypeOK /\ RuntimeInv /\ Defined /\ TablesNested
      /\ CodeInv /\ CodeInv'
  <2>1. /\ Running /\ TypeOK /\ RuntimeInv /\ Defined /\ TablesNested /\ CodeInv
    BY <1>1, BetweenOwned DEF GravesInv
  <2>2. CodeInv'
    BY <1>1, <2>1 DEF CodeInv, UsesOwned, SplitsNoUniverse, StoresLast, NamesBound,
       Releases, IsUniverse, objectVars
  <2> QED BY <2>1, <2>2
<1>3. TypeOK'
  BY <1>2, TypeNext DEF Next, Grave
<1> DEFINE block == [kind |-> "body", len |-> visible, var |-> v, done |-> FALSE]
<1>4. /\ Len(scopes) \in Nat
      /\ Len(scopes') = Len(scopes) + 1 /\ scopes' # <<>>
      /\ \A i \in 1 .. Len(scopes) : /\ scopes'[i].kind = scopes[i].kind
                                     /\ scopes'[i].len = scopes[i].len
                                     /\ scopes'[i].var = scopes[i].var
      /\ scopes'[Len(scopes) + 1] = block
  <2>1. /\ Begun \in Seq(Scope) /\ Len(Begun) = Len(scopes) /\ Len(scopes) \in Nat
        /\ \A i \in 1 .. Len(scopes) : /\ Begun[i].kind = scopes[i].kind
                                       /\ Begun[i].len = scopes[i].len
                                       /\ Begun[i].var = scopes[i].var
    BY <1>2, BegunProperties DEF TypeOK
  <2>2. block \in Scope /\ scopes' = Append(Begun, block)
    BY <1>2 DEF Scope, Enter, TypeOK
  <2> HIDE DEF block
  <2> QED BY <2>1, <2>2, AppendProperties
<1>5. \A i \in 1 .. Len(scopes) : scopes[i].len \in Int /\ scopes[i].kind \in {"body", "execute"}
  <2>1. \A i \in 1 .. Len(scopes) : scopes[i] \in Scope
    BY <1>2, ElementOfSeq DEF TypeOK
  <2>2. \A i \in 1 .. Len(scopes) : scopes[i].len \in 0 .. NumVars /\ scopes[i].kind \in {"body", "execute"}
    BY <2>1 DEF Scope
  <2> QED BY <2>2, ObjectsAssumption DEF ObjectsAssumption
<1>6. \A i \in 1 .. Len(scopes) : scopes[i].len <= visible
  <2>1. ASSUME NEW i \in 1 .. Len(scopes), i = Len(scopes), scopes[i].kind = "execute"
        PROVE  scopes[i].len <= visible
    <3>1. scopes # <<>>
      BY <2>1
    <3>2. InExecute /\ Innermost.len = scopes[i].len
      BY <2>1, <3>1 DEF InExecute, Innermost
    <3> QED BY <1>1, <1>2, <1>5, <3>2 DEF TypeOK
  <2> QED BY <1>2, <1>4, <1>5, <2>1 DEF TablesNested
<1>7. block.kind = "body" /\ block.len = visible /\ block.var = v
  OBVIOUS
<1>8. TablesNested'
  <2> HIDE DEF block
  <2> DEFINE m == Len(scopes)
  <2>1. \A i \in 1 .. m + 1 : i \in 1 .. m \/ i = m + 1
    BY <1>4
  <2>2. visible \in Int /\ visible' = visible
    BY <1>1, <1>2 DEF TypeOK
  <2>3. \A i \in 1 .. m + 1 : scopes'[i].len <= visible
    BY <1>4, <1>6, <1>7, <2>1, <2>2
  <2>4. ASSUME NEW i \in 1 .. m + 1, scopes'[i].kind = "body"
        PROVE  scopes'[i].var < scopes'[i].len
    BY <1>1, <1>2, <1>4, <1>7, <2>1, <2>4 DEF TablesNested
  <2>5. ASSUME NEW i \in 1 .. m + 1, NEW j \in 1 .. m + 1, i < j, scopes'[j].kind = "body"
        PROVE  scopes'[i].len <= scopes'[j].len
    <3>1. CASE j = m + 1
      BY <1>4, <1>7, <2>3, <3>1
    <3>2. CASE j \in 1 .. m
      <4>1. i \in 1 .. m
        BY <1>4, <2>5, <3>2
      <4> QED BY <1>2, <1>4, <2>5, <3>2, <4>1 DEF TablesNested
    <3> QED BY <2>1, <3>1, <3>2
  <2> QED BY <1>4, <2>2, <2>3, <2>4, <2>5 DEF TablesNested
<1>9. LocalsOwned'
  BY <1>4, <1>7 DEF LocalsOwned, InExecute, Innermost
<1> QED BY <1>1, <1>2, <1>3, <1>8, <1>9, SameObjects DEF GravesInv

\* The fields of an open block.
LEMMA ScopeFields ==
  ASSUME TypeOK, NEW i \in 1 .. Len(scopes)
  PROVE  /\ scopes[i].len \in Int
         /\ scopes[i].kind \in {"body", "execute"}
         /\ scopes[i].var \in Slot
<1>1. scopes[i] \in Scope
  BY ElementOfSeq DEF TypeOK
<1>2. scopes[i].len \in 0 .. NumVars /\ scopes[i].kind \in {"body", "execute"}
      /\ scopes[i].var \in Slot
  BY <1>1 DEF Scope
<1> QED BY <1>2, ObjectsAssumption DEF ObjectsAssumption

\* In a body, the tables of all the blocks are within that of the innermost.
LEMMA BodyFacts ==
  ASSUME TypeOK, TablesNested, InBody
  PROVE  /\ Len(scopes) \in Nat \ {0} /\ Len(scopes) \in 1 .. Len(scopes)
         /\ Innermost = scopes[Len(scopes)]
         /\ Innermost.len \in Int /\ Innermost.len <= visible
         /\ Innermost.var \in Slot /\ Innermost.var < Innermost.len
         /\ \A i \in 1 .. Len(scopes) : scopes[i].len <= Innermost.len
<1>1. /\ Len(scopes) \in Nat \ {0} /\ Len(scopes) \in 1 .. Len(scopes)
      /\ Innermost = scopes[Len(scopes)] /\ Innermost.kind = "body"
  BY InnermostType DEF InBody, Innermost
<1>2. Innermost.len \in Int /\ Innermost.var \in Slot
  BY <1>1, ScopeFields
<1>3. Innermost.len <= visible /\ Innermost.var < Innermost.len
  BY <1>1 DEF TablesNested
<1>4. \A i \in 1 .. Len(scopes) : scopes[i].len <= Innermost.len
  <2>1. \A i \in 1 .. Len(scopes) : i < Len(scopes) \/ i = Len(scopes)
    BY <1>1
  <2> QED BY <1>1, <1>2, <2>1 DEF TablesNested
<1> QED BY <1>1, <1>2, <1>3, <1>4

\* The jump back to the start of a body (process_jmp) keeps the invariant.
LEMMA RepeatKeeps ==
  ASSUME GravesInv, Repeat
  PROVE  GravesInv'
<1>1. /\ Ready /\ code = <<>> /\ InBody /\ visible' = Innermost.len
      /\ UNCHANGED objectVars /\ UNCHANGED code /\ UNCHANGED scopes
  BY DEF Repeat, Between, objectVars
<1>2. /\ Running /\ TypeOK /\ RuntimeInv /\ Defined /\ TablesNested
      /\ \A s \in Slot : s < visible => s \in owned
  BY <1>1, BetweenOwned
<1>3. TypeOK'
  BY <1>2, TypeNext DEF Next, Grave
<1>4. /\ Innermost.len \in Int /\ Innermost.len <= visible
      /\ \A i \in 1 .. Len(scopes) : scopes[i].len <= Innermost.len
  BY <1>1, <1>2, BodyFacts
<1>5. visible' \in Int /\ visible' <= visible /\ visible \in Int
  BY <1>1, <1>2, <1>4 DEF TypeOK
<1>6. CodeInv'
  <2>1. Len(code') = 0 /\ owned' = owned
    BY <1>1 DEF objectVars
  <2>2. \A s \in Slot : s < visible' => s \in owned
    BY <1>2, <1>5, SlotType
  <2> QED BY <2>1, <2>2
          DEF CodeInv, UsesOwned, SplitsNoUniverse, StoresLast, NamesBound, Releases
<1>7. TablesNested'
  BY <1>1, <1>2, <1>4 DEF TablesNested
<1>8. LocalsOwned'
  BY <1>1 DEF LocalsOwned, InExecute, InBody, Innermost
<1> QED BY <1>1, <1>2, <1>3, <1>6, <1>7, <1>8, SameObjects DEF GravesInv

\* The end of a body, where the EXECUTE begins, keeps it.
LEMMA EndBodyKeeps ==
  ASSUME GravesInv, EndBody
  PROVE  GravesInv'
<1>1. /\ Ready /\ code = <<>> /\ InBody /\ visible' = Innermost.len
      /\ UNCHANGED objectVars /\ UNCHANGED code
  BY DEF EndBody, Between, objectVars
<1>2. /\ Running /\ TypeOK /\ RuntimeInv /\ Defined /\ TablesNested
      /\ \A s \in Slot : s < visible => s \in owned
  BY <1>1, BetweenOwned
<1>3. TypeOK'
  BY <1>2, TypeNext DEF Next, Grave
<1>4. /\ Len(scopes) \in Nat \ {0}
      /\ Innermost.len \in Int /\ Innermost.len <= visible
      /\ \A i \in 1 .. Len(scopes) : scopes[i].len <= Innermost.len
  BY <1>1, <1>2, BodyFacts
<1>5. visible' \in Int /\ visible' <= visible /\ visible \in Int
  BY <1>1, <1>2, <1>4 DEF TypeOK
<1>6. Len(code') = 0 /\ owned' = owned
  BY <1>1 DEF objectVars
<1>7. CodeInv'
  <2>2. \A s \in Slot : s < visible' => s \in owned
    BY <1>2, <1>5, SlotType
  <2> QED BY <1>6, <2>2
          DEF CodeInv, UsesOwned, SplitsNoUniverse, StoresLast, NamesBound, Releases
<1> DEFINE block == [kind |-> "execute", len |-> visible, var |-> Innermost.var,
                     done |-> FALSE]
<1>8. block.kind = "execute" /\ block.len = visible
  OBVIOUS
<1>9. /\ Len(scopes') = Len(scopes)
      /\ \A i \in 1 .. Len(scopes) - 1 : scopes'[i] = scopes[i]
      /\ scopes'[Len(scopes)] = block
  <2>1. /\ Outer \in Seq(Scope) /\ Len(Outer) = Len(scopes) - 1
        /\ \A i \in 1 .. Len(scopes) - 1 : Outer[i] = scopes[i]
        /\ block \in Scope
    BY <1>1, <1>2, InnermostType DEF InBody, Scope, TypeOK
  <2>2. scopes' = Append(Outer, block)
    BY DEF EndBody
  <2> HIDE DEF block
  <2> QED BY <1>4, <2>1, <2>2, AppendProperties
<1> HIDE DEF block
<1>10. TablesNested'
  <2> DEFINE m == Len(scopes)
  <2>1. \A i \in 1 .. m : i \in 1 .. m - 1 \/ i = m
    BY <1>4
  <2>2. \A i \in 1 .. m - 1 : scopes'[i].len <= visible'
    BY <1>1, <1>4, <1>9
  <2>3. \A i \in 1 .. m : scopes'[i].kind = "body" => i \in 1 .. m - 1
    BY <1>8, <1>9, <2>1
  <2>4. ASSUME NEW i \in 1 .. m - 1, scopes'[i].kind = "body"
        PROVE  /\ scopes'[i].var < scopes'[i].len
               /\ \A j \in 1 .. m : j < i => scopes'[j].len <= scopes'[i].len
    BY <1>2, <1>4, <1>9, <2>4 DEF TablesNested
  <2>5. \A i \in 1 .. m : i < m \/ scopes'[i].kind = "body" => scopes'[i].len <= visible'
    BY <1>4, <2>2, <2>3
  <2>6. \A i \in 1 .. m : scopes'[i].kind = "body" => scopes'[i].var < scopes'[i].len
    BY <2>3, <2>4
  <2>7. \A i, j \in 1 .. m :
          i < j /\ scopes'[j].kind = "body" => scopes'[i].len <= scopes'[j].len
    BY <2>3, <2>4
  <2> HIDE DEF m
  <2>8. Len(scopes') = m
    BY <1>9 DEF m
  <2> QED BY <2>5, <2>6, <2>7, <2>8 DEF TablesNested
<1>11. LocalsOwned'
  <2>1. Innermost'.len = visible
    BY <1>8, <1>9 DEF Innermost
  <2>2. \A s \in Slot : ~ Releases(s)'
    BY <1>6 DEF Releases
  <2> QED BY <1>2, <1>6, <2>1, <2>2 DEF LocalsOwned
<1> QED BY <1>1, <1>2, <1>3, <1>7, <1>10, <1>11, SameObjects DEF GravesInv

\* The end of a block, which releases the locals, keeps it.
LEMMA EndBlockKeeps ==
  ASSUME GravesInv, EndBlock
  PROVE  GravesInv'
<1>1. /\ Ready /\ code = <<>> /\ InExecute /\ scopes' = Outer
      /\ UNCHANGED objectVars /\ UNCHANGED visible
  BY DEF EndBlock, Between, objectVars
<1>2. /\ Running /\ TypeOK /\ RuntimeInv /\ Defined /\ TablesNested
      /\ \A s \in Slot : s < visible => s \in owned
      /\ \A s \in Slot : visible <= s /\ s < Innermost.len => s \in owned
  BY <1>1, BetweenOwned
<1>3. TypeOK'
  BY <1>2, TypeNext DEF Next, Grave
<1>4. owned' = owned /\ visible \in Int
  BY <1>1, <1>2 DEF objectVars, TypeOK
<1>5. \A i \in 1 .. Len(code') : /\ code'[i].op = "free_object"
                                 /\ code'[i].slot = visible + i - 1
                                 /\ Uses(code'[i]) = {visible + i - 1}
                                 /\ visible + i - 1 \in owned
                                 /\ visible <= visible + i - 1
  <2>1. \A i \in 1 .. Len(code') : /\ code'[i] = Free(visible + i - 1)
                                   /\ visible + i - 1 \in Slot
                                   /\ visible + i - 1 < Innermost.len
    BY <1>2, EndCode
  <2>2. \A i \in 1 .. Len(code') : visible <= visible + i - 1
    BY <1>4
  <2> QED BY <1>2, <2>1, <2>2, FreeFields
<1>6. UsesOwned' /\ SplitsNoUniverse' /\ StoresLast'
  <2>1. UsesOwned'
    <3>1. ASSUME NEW i \in 1 .. Len(code'), NEW j \in 1 .. Len(code'), i < j
          PROVE  code'[i].slot \notin Uses(code'[j])
      <4>1. code'[i].slot = visible + i - 1 /\ Uses(code'[j]) = {visible + j - 1}
        BY <1>5
      <4>2. visible + i - 1 # visible + j - 1
        BY <1>4, <3>1
      <4> QED BY <4>1, <4>2
    <3> QED BY <1>4, <1>5, <3>1 DEF UsesOwned
  <2>2. SplitsNoUniverse' /\ StoresLast'
    BY <1>5 DEF SplitsNoUniverse, StoresLast
  <2> QED BY <2>1, <2>2
<1>7. NamesBound'
  <2>1. ASSUME NEW s \in Slot, s < visible PROVE ~ Releases(s)'
    <3> SUFFICES ASSUME NEW i \in 1 .. Len(code') PROVE code'[i].slot # s
      BY DEF Releases
    <3>1. code'[i].slot = visible + i - 1 /\ i >= 1 /\ i \in Int
      BY <1>5
    <3> QED BY <1>4, <2>1, <3>1, SlotType
  <2> QED BY <1>1, <1>2, <1>4, <2>1 DEF NamesBound
<1> DEFINE m == Len(scopes)
<1>8. /\ m \in Nat \ {0} /\ Len(scopes') = m - 1
      /\ \A i \in 1 .. m - 1 : scopes'[i] = scopes[i]
  BY <1>1, <1>2, InnermostType DEF InExecute
<1>9. \A i \in 1 .. m - 1 : scopes'[i].len <= visible /\ scopes'[i].len \in Int
  BY <1>2, <1>8, ScopeFields DEF TablesNested
<1>10. TablesNested'
  BY <1>1, <1>2, <1>8, <1>9 DEF TablesNested
<1>11. LocalsOwned'
  <2> SUFFICES ASSUME InExecute', NEW s \in Slot, visible' <= s, s < Innermost'.len
               PROVE  FALSE
    BY DEF LocalsOwned
  <2>1. Len(scopes') \in 1 .. m - 1
    BY <1>3, <1>8, EmptySeq DEF InExecute, TypeOK
  <2>2. Innermost'.len <= visible /\ Innermost'.len \in Int
    BY <1>9, <2>1 DEF Innermost
  <2> QED BY <1>1, <1>4, <2>2, SlotType
<1> QED BY <1>1, <1>2, <1>3, <1>6, <1>7, <1>10, <1>11, SameObjects DEF GravesInv, CodeInv


\* There is no null and no freed object to test: the names in the table are bound.
LEMMA NoTestFaults ==
  ASSUME GravesInv, Ready, code = <<>>, NEW v \in Slot, v < visible
  PROVE  /\ progvars[v] \in DOMAIN heap \cup {universal_dead}
         /\ ~ Fault(progvars[v])
<1>1. TypeOK /\ RuntimeInv /\ v \in owned
  BY BetweenOwned
<1>2. progvars[v] = universal_dead \/ (progvars[v] \in DOMAIN heap /\ progvars[v] \in Addr)
  BY <1>1, OwnedIsCounted DEF TypeOK
<1> QED BY <1>2, ObjectsAssumption DEF Fault, Dangling, ObjectsAssumption

\* So no test of process_if works on a null or a freed pointer.
LEMMA TestsNeverFault ==
  ASSUME GravesInv
  PROVE  ~ TestFaults
<1>1. SUFFICES ASSUME TestFaults PROVE FALSE
  OBVIOUS
<1>2. Ready /\ code = <<>>
  BY <1>1 DEF TestFaults, AtGrave, Between
<1>3. TypeOK /\ TablesNested /\ visible \in 0 .. NumVars
  BY <1>2, BetweenOwned DEF TypeOK
<1>4. CASE \E v \in 0 .. visible - 1 : Fault(progvars[v])
  <2>1. PICK v \in 0 .. visible - 1 : Fault(progvars[v])
    BY <1>4
  <2>2. v \in Slot /\ v < visible
    BY <1>3, SlotType, ObjectsAssumption DEF ObjectsAssumption
  <2> QED BY <1>2, <2>1, <2>2, NoTestFaults
<1>5. CASE InBody /\ Fault(progvars[Innermost.var])
  <2>1. Innermost.var \in Slot /\ Innermost.var < visible
    <3>1. /\ Innermost.var \in Slot /\ Innermost.var < Innermost.len
          /\ Innermost.len <= visible /\ Innermost.len \in Int /\ visible \in Int
      BY <1>3, <1>5, BodyFacts
    <3> QED BY <3>1, SlotType
  <2> QED BY <1>2, <1>5, <2>1, NoTestFaults
<1> QED BY <1>1, <1>4, <1>5 DEF TestFaults

\* A process that ends keeps the invariant of the runtime.
LEMMA StopKeeps ==
  ASSUME RuntimeInv, NEW how, Stop(how)
  PROVE  RuntimeInv'
<1>1. RefsCounted'
  BY ZenonT(60) DEF Stop, RuntimeInv, RefsCounted, References, Count, Detached
<1>2. FreesUnique' /\ KillsHeld' /\ OwnedStored'
  BY DEF Stop, RuntimeInv, FreesUnique, KillsHeld, OwnedStored
<1> QED BY <1>1, <1>2 DEF RuntimeInv

\* Every choice of a grave keeps the invariant.
LEMMA GraveKeeps ==
  ASSUME GravesInv, Shapes \cap UnsafeShapes = {}, Grave
  PROVE  GravesInv'
<1>1. CASE process_this_die
  <2>1. TypeOK /\ RuntimeInv /\ Stop("exited")
    BY <1>1 DEF GravesInv, process_this_die
  <2>2. TypeOK'
    BY <2>1, TypeNext DEF Next
  <2> QED BY <2>1, <2>2, StopKeeps DEF GravesInv, Defined, Running, Stop
<1> QED BY <1>1, ImportKeeps, BifKeeps, DieKeeps, EnterKeeps, SkipKeeps, RepeatKeeps,
           EndBodyKeeps, EndBlockKeeps, TestsNeverFault DEF Grave

(***************************************************************************)
(* The execution of the instructions.                                      *)
(***************************************************************************)
NewUniverse == \E p \in DOMAIN heap' :
                 heap'[p].type = "universe" /\ ~ IsUniverse(p)

\* What is true of an instruction stays true while those before it are executed.
LEMMA CodeAdvances ==
  ASSUME TypeOK, CodeInv, LocalsOwned, NEW op \in {"free_object", "kill"}, Fetch(op),
         progvars' = progvars, ~ NewUniverse,
         owned' = IF op = "free_object" THEN owned \ {Instr.slot} ELSE owned
  PROVE  CodeInv' /\ LocalsOwned'
<1>1. /\ Instr.op = op /\ Instr = code[1] /\ Len(code) \in Nat \ {0}
      /\ Len(code') = Len(code) - 1
      /\ \A i \in 1 .. Len(code') : code'[i] = code[i + 1]
      /\ visible' = visible /\ scopes' = scopes
  BY FetchType
<1>2. \A i \in 1 .. Len(code') : i + 1 \in 1 .. Len(code) /\ 1 < i + 1
  BY <1>1
<1>3. 1 \in 1 .. Len(code)
  BY <1>1
<1>4. UsesOwned'
  <2>1. \A i \in 1 .. Len(code') : Uses(code[i + 1]) \subseteq owned'
    BY <1>1, <1>2, <1>3 DEF CodeInv, UsesOwned
  <2>2. \A i, j \in 1 .. Len(code') : i < j /\ code[i + 1].op = "free_object"
                                        => code[i + 1].slot \notin Uses(code[j + 1])
    BY <1>1, <1>2 DEF CodeInv, UsesOwned
  <2> QED BY <1>1, <2>1, <2>2 DEF UsesOwned
<1>5. SplitsNoUniverse'
  BY <1>1, <1>2 DEF CodeInv, SplitsNoUniverse, NewUniverse, IsUniverse
<1>6. StoresLast'
  <2>1. \A i, j \in 1 .. Len(code') : i < j => code[i + 1].op \in {"free_object", "kill"}
    BY <1>1, <1>2 DEF CodeInv, StoresLast
  <2> QED BY <1>1, <2>1 DEF StoresLast
<1>7. ASSUME NEW s \in owned, ~ Releases(s) PROVE s \in owned' /\ ~ Releases(s)'
  <2>1. s \in owned'
    BY <1>1, <1>3, <1>7 DEF Releases
  <2>2. ~ Releases(s)'
    BY <1>1, <1>2, <1>7 DEF Releases
  <2> QED BY <2>1, <2>2
<1>8. NamesBound'
  <2> SUFFICES ASSUME NEW s \in Slot, s < visible'
               PROVE  (s \in owned' /\ ~ Releases(s)')
                        \/ \E i \in 1 .. Len(code') : s \in Stores(code'[i])
    BY DEF NamesBound
  <2>1. CASE s \in owned /\ ~ Releases(s)
    BY <1>7, <2>1
  <2>2. CASE \E i \in 1 .. Len(code) : s \in Stores(code[i])
    <3>1. PICK i \in 1 .. Len(code) : s \in Stores(code[i])
      BY <2>2
    <3>2. i # 1
      BY <1>1, <3>1 DEF Stores
    <3>3. i - 1 \in 1 .. Len(code') /\ i = (i - 1) + 1
      BY <1>1, <3>1, <3>2
    <3>4. code'[i - 1] = code[i]
      BY <1>1, <3>3
    <3> QED BY <3>1, <3>3, <3>4
  <2> QED BY <1>1, <2>1, <2>2 DEF CodeInv, NamesBound
<1>9. LocalsOwned'
  BY <1>1, <1>7 DEF LocalsOwned, InExecute, Innermost
<1> QED BY <1>4, <1>5, <1>6, <1>8, <1>9 DEF CodeInv

\* After the instruction that stores, nothing is left of the grave.
LEMMA GraveStored ==
  ASSUME TypeOK, CodeInv, LocalsOwned, NEW op \in {"create_object", "bifurcate"},
         Fetch(op), owned' = owned \cup Stores(Instr)
  PROVE  CodeInv' /\ LocalsOwned'
<1>1. /\ Instr.op = op /\ Instr = code[1] /\ Len(code) \in Nat \ {0}
      /\ Len(code') = Len(code) - 1 /\ visible' = visible /\ scopes' = scopes
  BY FetchType
<1>2. Len(code) = 1
  <2>1. ASSUME Len(code) # 1 PROVE FALSE
    <3>1. 1 \in 1 .. Len(code) /\ 2 \in 1 .. Len(code) /\ 1 < 2
      BY <1>1, <2>1
    <3>2. code[1].op \in {"free_object", "kill"}
      BY <3>1 DEF CodeInv, StoresLast
    <3> QED BY <1>1, <3>2
  <2> QED BY <2>1
<1>3. Len(code') = 0
  BY <1>1, <1>2
<1>4. \A s \in Slot : s < visible => s \in owned'
  BY <1>1, <1>2 DEF CodeInv, NamesBound
<1>5. CodeInv'
  BY <1>1, <1>3, <1>4
     DEF CodeInv, UsesOwned, SplitsNoUniverse, StoresLast, NamesBound, Releases
<1>6. LocalsOwned'
  <2>1. \A s \in Slot : ~ Releases(s)'
    BY <1>3 DEF Releases
  <2>2. InExecute' = InExecute /\ Innermost' = Innermost
    BY <1>1 DEF InExecute, Innermost
  <2> QED BY <1>1, <2>1, <2>2 DEF LocalsOwned
<1> QED BY <1>5, <1>6

\* The nesting of the tables depends on the table and the blocks only.
LEMMA BlocksSame ==
  ASSUME TablesNested, UNCHANGED <<visible, scopes>>
  PROVE  TablesNested'
BY DEF TablesNested

\* While the process runs, every part of the invariant holds.
LEMMA ReadyInv ==
  ASSUME GravesInv, Running
  PROVE  /\ TypeOK /\ ObjectsTypeOK /\ RuntimeInv /\ Defined
         /\ CodeInv /\ TablesNested /\ LocalsOwned
BY DEF GravesInv, TypeOK

\* The slot that an instruction about to be executed works on is owned.
LEMMA UsedIsOwned ==
  ASSUME TypeOK, CodeInv, NEW op \in {"free_object", "kill", "bifurcate"}, Fetch(op)
  PROVE  Instr.slot \in owned
<1>1. Instr = code[1] /\ Instr.op = op /\ Len(code) \in Nat \ {0}
  BY FetchType
<1>2. 1 \in 1 .. Len(code) /\ Uses(code[1]) = {code[1].slot}
  BY <1>1 DEF Uses
<1> QED BY <1>1, <1>2 DEF CodeInv, UsesOwned

\* The call of free_object that declare_var or the end of a block emits keeps it.
LEMMA ExecFreeKeeps ==
  ASSUME GravesInv, ExecFree
  PROVE  GravesInv'
<1>1. Fetch("free_object") /\ free_slot(Instr.slot) /\ Running
  BY DEF ExecFree, Fetch, Ready
<1>2. /\ TypeOK /\ ObjectsTypeOK /\ RuntimeInv /\ Defined
      /\ CodeInv /\ TablesNested /\ LocalsOwned
  BY <1>1, ReadyInv
<1>3. TypeOK'
  BY <1>2, TypeNext DEF Next
<1>4. RuntimeInv' /\ status' = status
  BY <1>1, <1>2, UsedIsOwned, FreeSlotKeeps
<1>5. progvars' = progvars /\ heap' = heap /\ owned' = owned \ {Instr.slot}
  BY <1>1 DEF free_slot
<1>6. CodeInv' /\ LocalsOwned'
  BY <1>1, <1>2, <1>5, CodeAdvances DEF NewUniverse, IsUniverse
<1>7. TablesNested'
  BY <1>1, <1>2, BlocksSame DEF Fetch
<1> QED BY <1>2, <1>3, <1>4, <1>6, <1>7 DEF GravesInv, Defined

\* The call of kill keeps it.
LEMMA ExecKillKeeps ==
  ASSUME GravesInv, ExecKill
  PROVE  GravesInv'
<1>1. Fetch("kill") /\ kill(Instr.slot) /\ Running
  BY DEF ExecKill, Fetch, Ready
<1>2. /\ TypeOK /\ ObjectsTypeOK /\ RuntimeInv /\ Defined
      /\ CodeInv /\ TablesNested /\ LocalsOwned
  BY <1>1, ReadyInv
<1>3. TypeOK'
  BY <1>2, TypeNext DEF Next
<1>4. RuntimeInv' /\ status' = status /\ progvars' = progvars /\ owned' = owned
  BY <1>1, <1>2, UsedIsOwned, KillKeeps
<1>5. ~ NewUniverse
  <2>1. \A p \in DOMAIN heap : heap[p] \in Object
    BY <1>2, HeapType
  <2>2. \A q \in DOMAIN heap' : q \in DOMAIN heap /\ heap'[q].type = heap[q].type
    <3>1. PICK p : p = progvars[Instr.slot]
      OBVIOUS
    <3>2. CASE p \in DOMAIN heap /\ heap' = [heap EXCEPT ![p].state = "dead"]
      <4>1. DOMAIN heap' = DOMAIN heap
        BY <3>2
      <4>2. heap'[p] = [heap[p] EXCEPT !.state = "dead"]
        BY <3>2
      <4>3. heap'[p].type = heap[p].type
        BY <2>1, <3>2, <4>2 DEF Object
      <4>4. \A q \in DOMAIN heap : q # p => heap'[q] = heap[q]
        BY <3>2
      <4> QED BY <4>1, <4>3, <4>4
    <3>3. CASE heap' = heap
      BY <3>3
    <3>4. heap' = heap \/ (p \in DOMAIN heap /\ heap' = [heap EXCEPT ![p].state = "dead"])
      BY <1>1, <3>1 DEF kill, objectVars, Fault, Stop
    <3> QED BY <3>2, <3>3, <3>4
  <2> QED BY <2>2 DEF NewUniverse, IsUniverse
<1>6. CodeInv' /\ LocalsOwned'
  BY <1>1, <1>2, <1>4, <1>5, CodeAdvances
<1>7. TablesNested'
  BY <1>1, <1>2, BlocksSame DEF Fetch
<1> QED BY <1>2, <1>3, <1>4, <1>6, <1>7 DEF GravesInv, Defined

\* The call of create_object keeps it.
LEMMA ExecCreateKeeps ==
  ASSUME GravesInv, ExecCreate
  PROVE  GravesInv'
<1>1. Fetch("create_object") /\ create_object(Instr.slot, Instr.type) /\ Running
  BY DEF ExecCreate, Fetch, Ready
<1>2. /\ TypeOK /\ ObjectsTypeOK /\ RuntimeInv /\ Defined
      /\ CodeInv /\ TablesNested /\ LocalsOwned
  BY <1>1, ReadyInv
<1>3. TypeOK'
  BY <1>2, TypeNext DEF Next
<1>4. Instr.slot \in Slot /\ Instr.type \in Type /\ Stores(Instr) = {Instr.slot}
  BY <1>1, <1>2, FetchType DEF Stores
<1>5. /\ RuntimeInv'
      /\ \/ status' = status /\ owned' = owned \cup {Instr.slot}
         \/ Stop("failed")
  BY <1>1, <1>2, <1>4, CreateKeeps
<1>6. TablesNested'
  BY <1>1, <1>2, BlocksSame DEF Fetch
<1>7. CASE status' = status /\ owned' = owned \cup {Instr.slot}
  <2>1. CodeInv' /\ LocalsOwned'
    BY <1>1, <1>2, <1>4, <1>7, GraveStored
  <2> QED BY <1>2, <1>3, <1>5, <1>6, <1>7, <2>1 DEF GravesInv, Defined
<1>8. CASE Stop("failed")
  BY <1>3, <1>5, <1>8 DEF GravesInv, Defined, Running, Stop
<1> QED BY <1>5, <1>7, <1>8

\* The call of bifurcate and the stores of the halves keep it.
LEMMA ExecSplitKeeps ==
  ASSUME GravesInv, ExecSplit
  PROVE  GravesInv'
<1>1. Fetch("bifurcate") /\ bifurcate(Instr.slot, Instr.left, Instr.right) /\ Running
  BY DEF ExecSplit, Fetch, Ready
<1>2. /\ TypeOK /\ ObjectsTypeOK /\ RuntimeInv /\ Defined
      /\ CodeInv /\ TablesNested /\ LocalsOwned
  BY <1>1, ReadyInv
<1>3. TypeOK'
  BY <1>2, TypeNext DEF Next
<1>4. /\ Instr.left \in Slot /\ Instr.right \in Slot /\ Instr.op = "bifurcate"
      /\ Instr = code[1] /\ 1 \in 1 .. Len(code) /\ Instr.slot \in owned
      /\ Stores(Instr) = {Instr.left, Instr.right}
  BY <1>1, <1>2, FetchType, UsedIsOwned DEF Stores
<1>5. ~ IsUniverse(progvars[Instr.slot])
  BY <1>2, <1>4 DEF CodeInv, SplitsNoUniverse
<1>6. /\ RuntimeInv'
      /\ \/ status' = status /\ owned' = owned \cup {Instr.left, Instr.right}
         \/ Stop("failed")
  BY <1>1, <1>2, <1>4, <1>5, BifurcateKeeps DEF IsUniverse
<1>7. TablesNested'
  BY <1>1, <1>2, BlocksSame DEF Fetch
<1>8. CASE status' = status /\ owned' = owned \cup {Instr.left, Instr.right}
  <2>1. CodeInv' /\ LocalsOwned'
    BY <1>1, <1>2, <1>4, <1>8, GraveStored
  <2> QED BY <1>2, <1>3, <1>6, <1>7, <1>8, <2>1 DEF GravesInv, Defined
<1>9. CASE Stop("failed")
  BY <1>3, <1>6, <1>9 DEF GravesInv, Defined, Running, Stop
<1> QED BY <1>6, <1>8, <1>9

\* Every step of a call inside the runtime keeps it.
LEMMA RunRuntimeKeeps ==
  ASSUME GravesInv, RunRuntime
  PROVE  GravesInv'
<1>1. RuntimeStep /\ Running /\ UNCHANGED <<code, visible, scopes>>
  BY DEF RunRuntime, RuntimeStep, free_object, unlink, free, InRuntime
<1>2. /\ TypeOK /\ ObjectsTypeOK /\ RuntimeInv /\ Defined
      /\ CodeInv /\ TablesNested /\ LocalsOwned
  BY <1>1, ReadyInv
<1>3. TypeOK'
  BY <1>2, TypeNext DEF Next
<1>4. RuntimeInv' /\ status' = status
  BY <1>1, <1>2, RuntimeKeeps
<1>5. progvars' = progvars /\ owned' = owned
  BY <1>1 DEF RuntimeStep, free_object, unlink, free, Stop
<1>6. \A q \in DOMAIN heap' : q \in DOMAIN heap /\ heap'[q].type = heap[q].type
  <2>1. \A p \in DOMAIN heap : heap[p] \in Object
    BY <1>2, HeapType
  <2>2. CASE free_object
    <3>1. PICK p : p = Top.obj
      OBVIOUS
    <3>2. CASE p \in DOMAIN heap /\ heap' = [heap EXCEPT ![p].refcount = @ - 1]
      <4>1. DOMAIN heap' = DOMAIN heap
        BY <3>2
      <4>2. heap'[p] = [heap[p] EXCEPT !.refcount = @ - 1]
        BY <3>2
      <4>3. heap'[p].type = heap[p].type
        BY <2>1, <3>2, <4>2 DEF Object
      <4>4. \A q \in DOMAIN heap : q # p => heap'[q] = heap[q]
        BY <3>2
      <4> QED BY <4>1, <4>3, <4>4
    <3>3. CASE heap' = heap
      BY <3>3
    <3>4. heap' = heap \/ (p \in DOMAIN heap /\ heap' = [heap EXCEPT ![p].refcount = @ - 1])
      BY <2>2, <3>1 DEF free_object, Stop
    <3> QED BY <3>2, <3>3, <3>4
  <2>3. CASE unlink
    BY <2>1, <2>3 DEF unlink, Stop, Object
  <2>4. CASE free
    BY <2>1, <2>4 DEF free, Stop
  <2> QED BY <1>1, <2>2, <2>3, <2>4 DEF RuntimeStep
<1>7. CodeInv'
  BY <1>1, <1>2, <1>5, <1>6 DEF CodeInv, UsesOwned, SplitsNoUniverse, StoresLast,
     NamesBound, Releases, IsUniverse
<1>8. TablesNested' /\ LocalsOwned'
  BY <1>1, <1>2, <1>5 DEF TablesNested, LocalsOwned, Releases, InExecute, Innermost
<1> QED BY <1>2, <1>3, <1>4, <1>7, <1>8 DEF GravesInv, Defined

\* So does a step that changes nothing.
LEMMA StutterKeeps ==
  ASSUME GravesInv, UNCHANGED vars
  PROVE  GravesInv'
<1>1. UNCHANGED objectVars /\ UNCHANGED <<status, heap, progvars, owned, code, visible, scopes>>
  BY DEF vars, objectVars
<1>2. TypeOK' /\ RuntimeInv' /\ Defined'
  BY <1>1, TypeNext, SameObjects DEF GravesInv
<1>3. Running /\ CodeInv => CodeInv'
  BY <1>1 DEF CodeInv, UsesOwned, SplitsNoUniverse, StoresLast,
     NamesBound, Releases, IsUniverse
<1>4. (TablesNested => TablesNested') /\ (LocalsOwned => LocalsOwned') /\ Running' = Running
  BY <1>1 DEF TablesNested, LocalsOwned, Releases, InExecute, Innermost, Running
<1> QED BY <1>2, <1>3, <1>4 DEF GravesInv

(***************************************************************************)
(* The theorems.                                                           *)
(***************************************************************************)
\* The invariant holds at the start of the program.
LEMMA InvInit ==
  ASSUME Init
  PROVE  GravesInv
<1>1. TypeOK
  BY TypeInit, ObjectsAssumption DEF Init, TypeOK, ObjectsAssumption
<1>2. heap = [a \in {} |-> Null] /\ owned = {} /\ calls = <<>> /\ Defined /\ DOMAIN heap = {}
  BY DEF Init, ObjectsInit, Defined
<1>3. Len(code) = 0 /\ Len(scopes) = 0 /\ visible = 0 /\ Len(calls) = 0 /\ scopes = <<>>
  BY <1>2 DEF Init
<1>4. RuntimeInv
  <2>1. ASSUME NEW a \in Addr PROVE Cardinality(References(a)) <= Count(a)
    <3>1. References(a) = {}
      BY <1>2, <1>3 DEF References
    <3>2. Cardinality({}) = 0 /\ Count(a) = 0
      BY <1>2, FS_EmptySet DEF Count
    <3> QED BY <3>1, <3>2
  <2> QED BY <1>2, <1>3, <2>1 DEF RuntimeInv, RefsCounted, FreesUnique, KillsHeld, OwnedStored
<1>5. CodeInv
  <2>1. \A s \in Slot : ~ (s < visible)
    BY <1>3, SlotType
  <2> QED BY <1>3, <2>1 DEF CodeInv, UsesOwned, SplitsNoUniverse, StoresLast, NamesBound
<1>6. TablesNested /\ LocalsOwned
  BY <1>3 DEF TablesNested, LocalsOwned, InExecute
<1> QED BY <1>1, <1>2, <1>4, <1>5, <1>6 DEF GravesInv

\* Every step of a program without the UnsafeShapes keeps the invariant.
LEMMA InvNext ==
  ASSUME GravesInv, Shapes \cap UnsafeShapes = {}, [Next]_vars
  PROVE  GravesInv'
BY GraveKeeps, ExecFreeKeeps, ExecKillKeeps, ExecCreateKeeps, ExecSplitKeeps,
   RunRuntimeKeeps, StutterKeeps DEF Next, Terminated

\* A program without the UnsafeShapes keeps the rules of its graves and blocks.
THEOREM GravesInvariant ==
  ASSUME Shapes \cap UnsafeShapes = {}
  PROVE  Spec => []GravesInv
<1>1. Init => GravesInv
  BY InvInit
<1>2. GravesInv /\ [Next]_vars => GravesInv'
  BY InvNext
<1> QED BY <1>1, <1>2, PTL DEF Spec

\* It never works on an object that has been freed, nor through a null pointer:
\* not with any number of variables, memory, nesting of blocks or input.
THEOREM NeverUndefined ==
  ASSUME Shapes \cap UnsafeShapes = {}
  PROVE  Spec => []Defined
<1>1. GravesInv => Defined
  BY DEF GravesInv
<1> QED BY <1>1, GravesInvariant, PTL

\* At every step, also within the cascade of frees that a release starts, each
\* object counts at least the references there are to it.
THEOREM CountsCoverReferences ==
  ASSUME Shapes \cap UnsafeShapes = {}
  PROVE  Spec => []RefsCounted
<1>1. GravesInv => RefsCounted
  BY DEF GravesInv, RuntimeInv
<1> QED BY <1>1, GravesInvariant, PTL

\* Between two graves every variable in scope refers to an object or is dead.
THEOREM NamesAreBound ==
  ASSUME Shapes \cap UnsafeShapes = {}
  PROVE  Spec => []VariablesBound
<1>1. GravesInv => VariablesBound
  <2> SUFFICES ASSUME GravesInv, Between, NEW s \in Slot, s < visible
               PROVE  progvars[s] \in DOMAIN heap \cup {universal_dead}
    BY DEF VariablesBound
  <2> QED BY NoTestFaults DEF Between
<1> QED BY <1>1, GravesInvariant, PTL

=============================================================================
