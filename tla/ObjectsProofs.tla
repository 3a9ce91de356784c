--------------------------- MODULE ObjectsProofs ---------------------------
(***************************************************************************)
(* What one call into the runtime, and one step of a call under way, does  *)
(* to the types of the state and to the count of references, for every     *)
(* memory, every number of variables and every input.                      *)
(*                                                                         *)
(* No step of the runtime makes an address referred to more often than the *)
(* object there counts. A reference is a token that says who holds it; a   *)
(* step moves tokens, adds one where a count is incremented, or drops one  *)
(* where a count is decremented.                                           *)
(***************************************************************************)
EXTENDS Objects, FiniteSetTheorems, SequenceTheorems, TLAPS

(***************************************************************************)
(* The call stack.                                                         *)
(***************************************************************************)
\* A call of one of the three functions of the runtime is a frame of the stack.
LEMMA CallType ==
  ASSUME NEW f \in {"free_object", "free", "unlink"}, NEW p \in Pointer
  PROVE  /\ Call(f, p) \in Frame
         /\ Call(f, p).fn = f
         /\ Call(f, p).obj = p
BY DEF Call, Frame

\* Below the innermost call the stack is what it is when that call returns.
LEMMA StackProperties ==
  ASSUME calls \in Seq(Frame), calls # <<>>
  PROVE  /\ Len(calls) \in Nat \ {0}
         /\ Top \in Frame
         /\ Top.fn \in {"free_object", "free", "unlink"}
         /\ Top.obj \in Pointer
         /\ Return \in Seq(Frame)
         /\ Len(Return) = Len(calls) - 1
         /\ \A i \in 1 .. Len(calls) - 1 : Return[i] = calls[i]
<1>1. Len(calls) \in Nat \ {0}
  BY EmptySeq
<1>2. \A i \in 1 .. Len(calls) : calls[i] \in Frame
  BY ElementOfSeq
<1>3. \A i \in 1 .. Len(calls) - 1 : calls[i] \in Frame
  BY <1>1, <1>2
<1>4. /\ Return \in Seq(Frame)
      /\ Len(Return) = Len(calls) - 1
      /\ \A i \in 1 .. Len(calls) - 1 : Return[i] = calls[i]
  <2> DEFINE n == Len(calls) - 1
  <2>1. n \in Nat /\ \A i \in 1 .. n : calls[i] \in Frame
    BY <1>1, <1>3
  <2> HIDE DEF n
  <2>2. /\ SubSeq(calls, 1, n) \in Seq(Frame)
        /\ Len(SubSeq(calls, 1, n)) = IF 1 <= n THEN n - 1 + 1 ELSE 0
        /\ \A i \in 1 .. n - 1 + 1 : SubSeq(calls, 1, n)[i] = calls[1 + i - 1]
    BY <2>1, SubSeqProperties
  <2>3. Len(SubSeq(calls, 1, n)) = n
    BY <2>1, <2>2
  <2>4. \A i \in 1 .. n : SubSeq(calls, 1, n)[i] = calls[i]
    BY <2>1, <2>2
  <2> QED BY <2>2, <2>3, <2>4 DEF Return, n
<1>5. Top \in Frame
  BY <1>1, <1>2 DEF Top
<1> QED BY <1>1, <1>4, <1>5 DEF Frame

\* A frame is replaced by the three frames of a cascade: what is left to do of the
\* function that begins it, and the releases of the right and of the left half.
LEMMA CascadeProperties ==
  ASSUME NEW r \in Seq(Frame), NEW f \in Frame, NEW g \in Frame, NEW h \in Frame
  PROVE  /\ r \o <<f, g, h>> \in Seq(Frame)
         /\ Len(r \o <<f, g, h>>) = Len(r) + 3
         /\ \A i \in 1 .. Len(r) : (r \o <<f, g, h>>)[i] = r[i]
         /\ (r \o <<f, g, h>>)[Len(r) + 1] = f
         /\ (r \o <<f, g, h>>)[Len(r) + 2] = g
         /\ (r \o <<f, g, h>>)[Len(r) + 3] = h
<1>1. <<f, g, h>> \in Seq(Frame) /\ Len(<<f, g, h>>) = 3
  OBVIOUS
<1>2. Len(r) \in Nat
  BY LenProperties
<1> QED BY <1>1, <1>2, ConcatProperties

(***************************************************************************)
(* Types.                                                                  *)
(***************************************************************************)
\* What create_object and bifurcate make is an object.
LEMMA NewObjectType ==
  ASSUME NEW type \in Type, NEW state \in {"alive", "dead"}, NEW n \in Int,
         NEW text \in Seq({0, 1})
  PROVE  NewObject(type, state, n, text) \in Object
BY DEF NewObject, Object, Pointer

\* A process that ends, however it does, leaves the state well typed.
LEMMA StopType ==
  ASSUME ObjectsTypeOK, NEW how \in {"exited", "failed", "segv", "undefined"}, Stop(how)
  PROVE  ObjectsTypeOK'
BY DEF ObjectsTypeOK, Stop

\* The fields of an allocated object.
LEMMA HeapType ==
  ASSUME ObjectsTypeOK, NEW p \in DOMAIN heap
  PROVE  /\ p \in Addr
         /\ heap[p] \in Object
         /\ heap[p].type \in Type
         /\ heap[p].left \in Pointer
         /\ heap[p].right \in Pointer
         /\ heap[p].refcount \in Int
         /\ heap[p].input_text \in Seq({0, 1})
BY DEF ObjectsTypeOK, Object

\* The counts that bifurcate adds leave every object an object.
LEMMA RetainedType ==
  ASSUME ObjectsTypeOK, NEW left, NEW right, NEW x \in DOMAIN heap
  PROVE  Retained(left, right)[x] \in Object
<1> DEFINE k == (IF x = left THEN 1 ELSE 0)
           m == (IF x = right THEN 1 ELSE 0)
<1>1. Retained(left, right)[x] = [heap[x] EXCEPT !.refcount = @ + k + m]
  BY DEF Retained
<1>2. k \in Int /\ m \in Int
  OBVIOUS
<1> HIDE DEF k, m
<1>3. heap[x] \in Object /\ heap[x].refcount + k + m \in Int
  BY <1>2, HeapType
<1> QED BY <1>1, <1>3 DEF Object

\* One object is replaced by another one.
LEMMA ReplaceType ==
  ASSUME ObjectsTypeOK, NEW p \in DOMAIN heap, NEW o \in Object
  PROVE  [heap EXCEPT ![p] = o] \in [DOMAIN heap -> Object]
BY DEF ObjectsTypeOK

\* An object that loses a reference is an object.
LEMMA CountedType ==
  ASSUME ObjectsTypeOK, NEW p \in DOMAIN heap
  PROVE  [heap[p] EXCEPT !.refcount = @ - 1] \in Object
<1>1. heap[p] \in Object /\ heap[p].refcount - 1 \in Int
  BY HeapType
<1> QED BY <1>1 DEF Object

\* The state is well typed at the start (allocate_progvars).
LEMMA TypeInit == ObjectsInit => ObjectsTypeOK
BY DEF ObjectsInit, ObjectsTypeOK, Slot, Pointer

\* create_object keeps the state well typed.
LEMMA TypeCreate ==
  ASSUME ObjectsTypeOK, NEW s \in Slot, NEW t \in Type, create_object(s, t)
  PROVE  ObjectsTypeOK'
<1>1. ASSUME NEW a \in Unused, NEW text \in InputText(t),
             heap' = [x \in DOMAIN heap \cup {a} |->
                        IF x = a THEN NewObject(t, "alive", 1, text) ELSE heap[x]],
             progvars' = [progvars EXCEPT ![s] = a],
             owned' = owned \cup {s},
             UNCHANGED <<calls, status>>
      PROVE  ObjectsTypeOK'
  <2>1. text \in Seq({0, 1})
    BY ObjectsAssumption, EmptySeq DEF InputText, ObjectsAssumption
  <2>2. NewObject(t, "alive", 1, text) \in Object
    BY <2>1, NewObjectType
  <2> QED BY <1>1, <2>2 DEF ObjectsTypeOK, Unused, Pointer
<1>2. CASE Stop("failed")
  BY <1>2, StopType
<1> QED BY <1>1, <1>2 DEF create_object

\* The stores of the halves after a bifurcation are well typed.
LEMMA TypeStore ==
  ASSUME ObjectsTypeOK, NEW s \in Slot, NEW l \in Slot, NEW r \in Slot,
         NEW left \in Pointer, NEW right \in Pointer, StoreHalves(s, l, r, left, right)
  PROVE  /\ progvars' \in [Slot -> Pointer]
         /\ owned' \subseteq Slot
         /\ calls' \in Seq(Frame)
         /\ status' = status
<1>1. Call("free_object", progvars[s]) \in Frame
  BY CallType DEF ObjectsTypeOK
<1>2. calls' \in Seq(Frame)
  BY <1>1, EmptySeq DEF StoreHalves
<1> QED BY <1>2 DEF StoreHalves, ObjectsTypeOK

\* bifurcate keeps the state well typed.
LEMMA TypeBifurcate ==
  ASSUME ObjectsTypeOK, NEW s \in Slot, NEW l \in Slot, NEW r \in Slot,
         bifurcate(s, l, r)
  PROVE  ObjectsTypeOK'
<1> DEFINE p == progvars[s]
<1>1. CASE BifurcateDead(s, l, r)
  <2>1. universal_dead \in Pointer
    BY DEF Pointer
  <2> QED BY <1>1, <2>1, TypeStore DEF BifurcateDead, ObjectsTypeOK
<1>2. CASE BifurcateAgain(s, l, r)
  <2>1. heap[p].left \in Pointer /\ heap[p].right \in Pointer
    BY <1>2, HeapType DEF BifurcateAgain
  <2>2. StoreHalves(s, l, r, heap[p].left, heap[p].right)
    BY <1>2 DEF BifurcateAgain
  <2>3. DOMAIN heap' = DOMAIN heap /\ heap' \in [DOMAIN heap' -> Object]
    <3>1. heap' = Retained(heap[p].left, heap[p].right)
      BY <1>2 DEF BifurcateAgain
    <3>2. \A x \in DOMAIN heap : Retained(heap[p].left, heap[p].right)[x] \in Object
      BY HeapType, RetainedType
    <3>3. DOMAIN Retained(heap[p].left, heap[p].right) = DOMAIN heap
      BY DEF Retained
    <3>4. Retained(heap[p].left, heap[p].right)
            = [x \in DOMAIN heap |-> Retained(heap[p].left, heap[p].right)[x]]
      BY DEF Retained
    <3> QED BY <3>1, <3>2, <3>3, <3>4
  <2> QED BY <2>1, <2>2, <2>3, TypeStore DEF ObjectsTypeOK
<1>3. CASE BifurcateFirst(s, l, r)
  <2>1. PICK a \in Unused, b \in Unused :
          /\ a # b
          /\ heap' = [x \in DOMAIN heap \cup {a, b} |->
                        CASE x = a -> LeftHalf(p)
                          [] x = b -> RightHalf(p)
                          [] x = p -> [heap[p] EXCEPT !.left = a, !.right = b]
                          [] OTHER -> heap[x]]
          /\ StoreHalves(s, l, r, a, b)
    BY <1>3 DEF BifurcateFirst
  <2>2. p \in DOMAIN heap /\ ~ EmptyInput(p)
    BY <1>3 DEF BifurcateFirst
  <2>3. a \in Pointer /\ b \in Pointer /\ a \in Addr /\ b \in Addr
    BY DEF Unused, Pointer
  <2>0. <<>> \in Seq({0, 1})
    BY EmptySeq
  <2>4. LeftHalf(p) \in Object
    <3> DEFINE state == IF heap[p].type = "input" /\ Head(heap[p].input_text) = 0
                          THEN "dead" ELSE "alive"
    <3>1. state \in {"alive", "dead"}
      OBVIOUS
    <3>2. LeftHalf(p) = NewObject("abstract", state, 2, <<>>)
      BY DEF LeftHalf
    <3> HIDE DEF state
    <3>3. "abstract" \in Type /\ 2 \in Int
      BY DEF Type
    <3>4. NewObject("abstract", state, 2, <<>>) \in Object
      BY <2>0, <3>1, <3>3, NewObjectType
    <3> QED BY <3>2, <3>4
  <2>5. RightHalf(p) \in Object
    <3>1. heap[p].input_text \in Seq({0, 1})
      BY <2>2, HeapType
    <3>2. CASE heap[p].type = "input"
      <4>1. Tail(heap[p].input_text) \in Seq({0, 1})
        BY <2>2, <3>1, <3>2, HeadTailProperties DEF EmptyInput
      <4> DEFINE rest == Tail(heap[p].input_text)
                 state == IF rest = <<>> THEN "dead" ELSE "alive"
      <4>2. RightHalf(p) = NewObject("input", state, 2, rest)
        BY <3>2 DEF RightHalf
      <4>3. state \in {"alive", "dead"}
        OBVIOUS
      <4> HIDE DEF rest, state
      <4>4. rest \in Seq({0, 1})
        BY <4>1 DEF rest
      <4> QED BY <4>2, <4>3, <4>4, NewObjectType DEF Type
    <3>3. CASE heap[p].type # "input"
      <4>1. RightHalf(p) = NewObject("abstract", "alive", 2, <<>>)
        BY <3>3 DEF RightHalf
      <4>2. "abstract" \in Type /\ 2 \in Int /\ "alive" \in {"alive", "dead"}
        BY DEF Type
      <4>3. NewObject("abstract", "alive", 2, <<>>) \in Object
        BY <2>0, <4>2, NewObjectType
      <4> QED BY <4>1, <4>3
    <3> QED BY <3>2, <3>3
  <2>6. [heap[p] EXCEPT !.left = a, !.right = b] \in Object
    BY <2>2, <2>3, HeapType DEF Object
  <2>7. DOMAIN heap' \subseteq Addr /\ heap' \in [DOMAIN heap' -> Object]
    BY <2>1, <2>2, <2>3, <2>4, <2>5, <2>6 DEF ObjectsTypeOK
  <2> QED BY <2>1, <2>3, <2>7, TypeStore DEF ObjectsTypeOK
<1>4. CASE BifurcateFails(s)
  BY <1>4, StopType DEF BifurcateFails
<1>5. CASE BifurcateFault(s)
  BY <1>5, StopType DEF BifurcateFault
<1> QED BY <1>1, <1>2, <1>3, <1>4, <1>5 DEF bifurcate

\* So does a load or a store through an invalid pointer, which ends the process.
LEMMA FaultType ==
  ASSUME ObjectsTypeOK, NEW p, Fault(p)
  PROVE  ObjectsTypeOK'
BY StopType DEF Fault

\* kill keeps the state well typed.
LEMMA TypeKill ==
  ASSUME ObjectsTypeOK, NEW s \in Slot, kill(s)
  PROVE  ObjectsTypeOK'
<1> DEFINE p == progvars[s]
<1>1. ASSUME p \in DOMAIN heap,
             heap' = [heap EXCEPT ![p].state = "dead"],
             calls' = <<Call("unlink", p), Call("free_object", heap[p].right),
                        Call("free_object", heap[p].left)>>,
             UNCHANGED <<progvars, owned, status>>
      PROVE  ObjectsTypeOK'
  <2>1. heap' \in [DOMAIN heap -> Object]
    BY <1>1, HeapType DEF Object, ObjectsTypeOK
  <2>2. calls' \in Seq(Frame)
    <3>1. p \in Pointer /\ heap[p].right \in Pointer /\ heap[p].left \in Pointer
      BY <1>1, HeapType DEF Pointer
    <3>2. /\ Call("unlink", p) \in Frame
          /\ Call("free_object", heap[p].right) \in Frame
          /\ Call("free_object", heap[p].left) \in Frame
      BY <3>1, CallType
    <3> HIDE DEF p
    <3> QED BY <1>1, <3>2
  <2> QED BY <1>1, <2>1, <2>2 DEF ObjectsTypeOK
<1>2. CASE UNCHANGED objectVars
  BY <1>2 DEF objectVars, ObjectsTypeOK
<1>3. CASE Fault(p)
  BY <1>3, FaultType
<1> QED BY <1>1, <1>2, <1>3 DEF kill

\* The release of a variable keeps the state well typed.
LEMMA TypeFreeSlot ==
  ASSUME ObjectsTypeOK, NEW s \in Slot, free_slot(s)
  PROVE  ObjectsTypeOK'
<1>1. Call("free_object", progvars[s]) \in Frame
  BY CallType DEF ObjectsTypeOK
<1> QED BY <1>1 DEF free_slot, ObjectsTypeOK

\* Every step of a call inside the runtime keeps the state well typed.
LEMMA TypeRuntime ==
  ASSUME ObjectsTypeOK, RuntimeStep
  PROVE  ObjectsTypeOK'
<1> DEFINE p == Top.obj
<1>1. calls # <<>> /\ calls \in Seq(Frame)
  BY DEF RuntimeStep, free_object, unlink, free, InRuntime, ObjectsTypeOK
<1>2. Return \in Seq(Frame) /\ p \in Pointer
  BY <1>1, StackProperties
<1>3. CASE free_object
  <2>1. CASE calls' = Return /\ UNCHANGED <<heap, progvars, owned, status>>
    BY <1>2, <2>1 DEF ObjectsTypeOK
  <2>2. ASSUME p \in DOMAIN heap,
               heap' = [heap EXCEPT ![p].refcount = @ - 1],
               calls' = IF heap[p].refcount - 1 > 0
                          THEN Return
                          ELSE Return \o <<Call("free", p),
                                           Call("free_object", heap[p].right),
                                           Call("free_object", heap[p].left)>>,
               UNCHANGED <<progvars, owned, status>>
        PROVE  ObjectsTypeOK'
    <3>1. heap' \in [DOMAIN heap -> Object]
      <4>1. heap' = [heap EXCEPT ![p] = [heap[p] EXCEPT !.refcount = @ - 1]]
        BY <2>2
      <4>2. [heap[p] EXCEPT !.refcount = @ - 1] \in Object
        BY <2>2, CountedType
      <4> QED BY <2>2, <4>1, <4>2, ReplaceType
    <3>2. calls' \in Seq(Frame)
      <4>1. /\ Call("free", p) \in Frame
            /\ Call("free_object", heap[p].right) \in Frame
            /\ Call("free_object", heap[p].left) \in Frame
        BY <1>2, <2>2, HeapType, CallType
      <4> QED BY <1>2, <2>2, <4>1, CascadeProperties
    <3> QED BY <2>2, <3>1, <3>2 DEF ObjectsTypeOK
  <2>3. CASE Stop("undefined")
    BY <2>3, StopType
  <2> QED BY <1>3, <2>1, <2>2, <2>3 DEF free_object
<1>4. CASE unlink
  <2>1. ASSUME p \in DOMAIN heap,
               heap' = [heap EXCEPT ![p].left = universal_dead,
                                    ![p].right = universal_dead],
               calls' = Return,
               UNCHANGED <<progvars, owned, status>>
        PROVE  ObjectsTypeOK'
    <3>1. heap' \in [DOMAIN heap -> Object]
      <4>1. heap' = [heap EXCEPT ![p] = [heap[p] EXCEPT !.left = universal_dead,
                                                        !.right = universal_dead]]
        BY <2>1 DEF ObjectsTypeOK
      <4>2. [heap[p] EXCEPT !.left = universal_dead, !.right = universal_dead] \in Object
        BY <2>1, HeapType DEF Object, Pointer
      <4> QED BY <2>1, <4>1, <4>2, ReplaceType
    <3> QED BY <1>2, <2>1, <3>1 DEF ObjectsTypeOK
  <2>2. CASE Stop("undefined")
    BY <2>2, StopType
  <2> QED BY <1>4, <2>1, <2>2 DEF unlink
<1>5. CASE free
  <2>1. CASE /\ heap' = [x \in DOMAIN heap \ {p} |-> heap[x]]
             /\ calls' = Return
             /\ UNCHANGED <<progvars, owned, status>>
    BY <1>2, <2>1 DEF ObjectsTypeOK
  <2>2. CASE Stop("undefined")
    BY <2>2, StopType
  <2> QED BY <1>5, <2>1, <2>2 DEF free
<1> QED BY <1>3, <1>4, <1>5 DEF RuntimeStep

(***************************************************************************)
(* Cardinalities.                                                          *)
(***************************************************************************)
\* A subset of a finite set has no more elements.
LEMMA CardSubset ==
  ASSUME NEW S, IsFiniteSet(S), NEW T, T \subseteq S
  PROVE  IsFiniteSet(T) /\ Cardinality(T) <= Cardinality(S)
         /\ Cardinality(T) \in Nat /\ Cardinality(S) \in Nat
BY FS_Subset, FS_CardinalityType

\* One more token is at most one more reference.
LEMMA CardAdd ==
  ASSUME NEW S, IsFiniteSet(S), NEW x
  PROVE  /\ IsFiniteSet(S \cup {x})
         /\ Cardinality(S \cup {x}) \in Nat
         /\ Cardinality(S) \in Nat
         /\ Cardinality(S \cup {x}) <= Cardinality(S) + 1
<1>1. /\ IsFiniteSet(S \cup {x})
      /\ Cardinality(S \cup {x}) = IF x \in S THEN Cardinality(S) ELSE Cardinality(S) + 1
  BY FS_AddElement
<1>2. Cardinality(S \cup {x}) \in Nat /\ Cardinality(S) \in Nat
  BY <1>1, FS_CardinalityType
<1> QED BY <1>1, <1>2

\* One token less is one reference less.
LEMMA CardRemove ==
  ASSUME NEW S, IsFiniteSet(S), NEW x \in S
  PROVE  /\ IsFiniteSet(S \ {x})
         /\ Cardinality(S \ {x}) \in Nat
         /\ Cardinality(S) \in Nat
         /\ Cardinality(S \ {x}) = Cardinality(S) - 1
BY FS_RemoveElement, FS_CardinalityType

\* A token is exchanged for another one.
LEMMA CardMove ==
  ASSUME NEW S, IsFiniteSet(S), NEW x \in S, NEW y
  PROVE  /\ IsFiniteSet((S \ {x}) \cup {y})
         /\ Cardinality((S \ {x}) \cup {y}) \in Nat
         /\ Cardinality(S) \in Nat
         /\ Cardinality((S \ {x}) \cup {y}) <= Cardinality(S)
<1>1. /\ IsFiniteSet(S \ {x})
      /\ Cardinality(S) \in Nat
      /\ Cardinality(S \ {x}) = Cardinality(S) - 1
  BY CardRemove
<1>2. /\ IsFiniteSet((S \ {x}) \cup {y})
      /\ Cardinality((S \ {x}) \cup {y}) \in Nat
      /\ Cardinality((S \ {x}) \cup {y}) <= Cardinality(S \ {x}) + 1
  BY <1>1, CardAdd
<1> QED BY <1>1, <1>2

(***************************************************************************)
(* The references to a, as a function of what holds them: the heap H, the  *)
(* variables V of which O are owned, the detached objects D, the calls C.  *)
(***************************************************************************)
RefsIn(H, V, O, D, C, a) ==
       {<<"variable", s>> : s \in {t \in O : V[t] = a}}
  \cup {<<"left", p>>  : p \in {q \in DOMAIN H \ D : H[q].left = a}}
  \cup {<<"right", p>> : p \in {q \in DOMAIN H \ D : H[q].right = a}}
  \cup {<<"call", i>>  : i \in {j \in 1 .. Len(C) : C[j] = Call("free_object", a)}}

\* The references to a, now and after a step, as functions of the state.
LEMMA RefsAre ==
  ASSUME NEW a
  PROVE  /\ References(a) = RefsIn(heap, progvars, owned, Detached, calls, a)
         /\ References(a)' = RefsIn(heap', progvars', owned', Detached', calls', a)
BY DEF References, RefsIn

\* When each kind of token is a reference to a.
LEMMA RefMembers ==
  ASSUME NEW H, NEW V, NEW O, NEW D, NEW C, NEW a
  PROVE  /\ \A s : <<"variable", s>> \in RefsIn(H, V, O, D, C, a)
                     <=> s \in O /\ V[s] = a
         /\ \A p : <<"left", p>> \in RefsIn(H, V, O, D, C, a)
                     <=> p \in DOMAIN H /\ p \notin D /\ H[p].left = a
         /\ \A p : <<"right", p>> \in RefsIn(H, V, O, D, C, a)
                     <=> p \in DOMAIN H /\ p \notin D /\ H[p].right = a
         /\ \A i : <<"call", i>> \in RefsIn(H, V, O, D, C, a)
                     <=> i \in 1 .. Len(C) /\ C[i] = Call("free_object", a)
<1> DEFINE R == RefsIn(H, V, O, D, C, a)
<1>1. ASSUME NEW s PROVE <<"variable", s>> \in R <=> s \in O /\ V[s] = a
  BY DEF RefsIn
<1>2. ASSUME NEW p PROVE <<"left", p>> \in R <=> p \in DOMAIN H /\ p \notin D /\ H[p].left = a
  BY DEF RefsIn
<1>3. ASSUME NEW p PROVE <<"right", p>> \in R <=> p \in DOMAIN H /\ p \notin D /\ H[p].right = a
  BY DEF RefsIn
<1>4. ASSUME NEW i PROVE <<"call", i>> \in R
                           <=> i \in 1 .. Len(C) /\ C[i] = Call("free_object", a)
  BY DEF RefsIn
<1> QED BY <1>1, <1>2, <1>3, <1>4

\* There are four kinds of references: variables, left and right halves, and calls.
LEMMA RefKinds ==
  ASSUME NEW H, NEW V, NEW O, NEW D, NEW C, NEW a, NEW t \in RefsIn(H, V, O, D, C, a)
  PROVE  \/ \E s \in O : t = <<"variable", s>>
         \/ \E p \in DOMAIN H : t = <<"left", p>>
         \/ \E p \in DOMAIN H : t = <<"right", p>>
         \/ \E i \in 1 .. Len(C) : t = <<"call", i>>
BY DEF RefsIn

\* The references to an address are finite in number.
LEMMA RefsInFinite ==
  ASSUME NEW H, NEW V, NEW O, NEW D, NEW C, NEW a,
         IsFiniteSet(DOMAIN H), IsFiniteSet(O), Len(C) \in Nat
  PROVE  IsFiniteSet(RefsIn(H, V, O, D, C, a))
<1> DEFINE E == {"variable"} \X O
           F == {"left"} \X DOMAIN H
           G == {"right"} \X DOMAIN H
           I == {"call"} \X (1 .. Len(C))
<1>1. IsFiniteSet(1 .. Len(C))
  BY FS_Interval
<1>2. /\ IsFiniteSet({"variable"}) /\ IsFiniteSet({"left"}) /\ IsFiniteSet({"right"})
      /\ IsFiniteSet({"call"})
  BY FS_Singleton
<1>3. IsFiniteSet(E)
  BY <1>2, FS_Product
<1>4. IsFiniteSet(F)
  BY <1>2, FS_Product
<1>5. IsFiniteSet(G)
  BY <1>2, FS_Product
<1>6. IsFiniteSet(I)
  BY <1>1, <1>2, FS_Product
<1>7. RefsIn(H, V, O, D, C, a) \subseteq ((E \cup F) \cup (G \cup I))
  BY DEF RefsIn
<1> HIDE DEF E, F, G, I
<1>8. IsFiniteSet(E \cup F) /\ IsFiniteSet(G \cup I)
  BY <1>3, <1>4, <1>5, <1>6, FS_Union
<1>9. IsFiniteSet((E \cup F) \cup (G \cup I))
  BY <1>8, FS_Union
<1> QED BY <1>7, <1>9, CardSubset

\* So they are in every well typed state.
LEMMA RefsFinite ==
  ASSUME ObjectsTypeOK, NEW a
  PROVE  /\ IsFiniteSet(References(a))
         /\ Cardinality(References(a)) \in Nat
<1>1. IsFiniteSet(owned)
  <2>1. 0 \in Int /\ NumVars - 1 \in Int
    BY ObjectsAssumption DEF ObjectsAssumption
  <2>2. IsFiniteSet(Slot)
    BY <2>1, FS_Interval DEF Slot
  <2> QED BY <2>2, FS_Subset DEF ObjectsTypeOK
<1>2. IsFiniteSet(DOMAIN heap)
  BY ObjectsAssumption, FS_Subset DEF ObjectsTypeOK, ObjectsAssumption
<1>3. Len(calls) \in Nat
  BY LenProperties DEF ObjectsTypeOK
<1>4. IsFiniteSet(RefsIn(heap, progvars, owned, Detached, calls, a))
  BY <1>1, <1>2, <1>3, RefsInFinite
<1> QED BY <1>4, RefsAre, FS_CardinalityType

\* What is referred to is allocated, and counts at least one reference.
LEMMA ReferredIsCounted ==
  ASSUME ObjectsTypeOK, RefsCounted, NEW a \in Addr, References(a) # {}
  PROVE  a \in DOMAIN heap /\ heap[a].refcount >= 1
<1>1. IsFiniteSet(References(a)) /\ Cardinality(References(a)) \in Nat
  BY RefsFinite
<1>2. Cardinality(References(a)) # 0
  BY <1>1, FS_EmptySet
<1>3. Cardinality(References(a)) <= Count(a)
  BY DEF RefsCounted
<1>4. CASE a \notin DOMAIN heap
  BY <1>1, <1>2, <1>3, <1>4 DEF Count
<1>5. CASE a \in DOMAIN heap
  <2>1. heap[a].refcount \in Int
    BY <1>5, HeapType
  <2> QED BY <1>1, <1>2, <1>3, <1>5, <2>1 DEF Count
<1> QED BY <1>4, <1>5

\* An address with no count has no references.
LEMMA NoCountNoReference ==
  ASSUME ObjectsTypeOK, RefsCounted, NEW a \in Addr,
         a \notin DOMAIN heap \/ heap[a].refcount <= 0
  PROVE  References(a) = {}
<1> SUFFICES ASSUME References(a) # {} PROVE FALSE
  OBVIOUS
<1>1. a \in DOMAIN heap /\ heap[a].refcount >= 1
  BY ReferredIsCounted
<1>2. heap[a].refcount \in Int
  BY <1>1, HeapType
<1> QED BY <1>1, <1>2

(***************************************************************************)
(* Steps that only drop references.                                        *)
(***************************************************************************)

\* The variables stay, the stack shrinks or stays, no half is attached or aimed at
\* an address it was not aimed at.
LEMMA RefsDropped ==
  ASSUME NEW a, NEW n \in Nat,
         progvars' = progvars, owned' = owned,
         Len(calls)' = n, Len(calls) \in Nat, n <= Len(calls),
         \A i \in 1 .. n : calls'[i] = calls[i],
         DOMAIN heap' \subseteq DOMAIN heap,
         \A p \in DOMAIN heap' : p \notin Detached' /\ heap'[p].left = a
                                   => p \notin Detached /\ heap[p].left = a,
         \A p \in DOMAIN heap' : p \notin Detached' /\ heap'[p].right = a
                                   => p \notin Detached /\ heap[p].right = a
  PROVE  References(a)' \subseteq References(a)
<1> DEFINE R == RefsIn(heap, progvars, owned, Detached, calls, a)
           S == RefsIn(heap', progvars', owned', Detached', calls', a)
<1>1. ASSUME NEW t \in S PROVE t \in R
  <2>1. CASE \E s \in owned' : t = <<"variable", s>>
    BY <2>1, RefMembers
  <2>2. CASE \E p \in DOMAIN heap' : t = <<"left", p>>
    BY <2>2, RefMembers
  <2>3. CASE \E p \in DOMAIN heap' : t = <<"right", p>>
    BY <2>3, RefMembers
  <2>4. CASE \E i \in 1 .. Len(calls') : t = <<"call", i>>
    BY <2>4, RefMembers
  <2> HIDE DEF R
  <2> QED BY <2>1, <2>2, <2>3, <2>4, RefKinds
<1> QED BY <1>1, RefsAre

\* Fewer references and no lower a count, or no references.
LEMMA FewerCounted ==
  ASSUME ObjectsTypeOK, RefsCounted, NEW a \in Addr, NEW T, T \subseteq References(a),
         NEW c \in Int, c >= Count(a) \/ (T = {} /\ c >= 0)
  PROVE  Cardinality(T) <= c
<1>1. IsFiniteSet(References(a)) /\ Cardinality(References(a)) \in Nat
  BY RefsFinite
<1>2. Cardinality(T) <= Cardinality(References(a)) /\ Cardinality(T) \in Nat
  BY <1>1, CardSubset
<1>3. Cardinality(References(a)) <= Count(a)
  BY DEF RefsCounted
<1>4. Count(a) \in Int
  BY HeapType DEF Count
<1>5. CASE T = {} /\ c >= 0
  BY <1>5, FS_EmptySet
<1> QED BY <1>1, <1>2, <1>3, <1>4, <1>5

(***************************************************************************)
(* Steps that move the halves of an object to the stack.                   *)
(***************************************************************************)

\* Above the n-th frame the stack gets the frames of a cascade on p. A reference
\* that the call in frame n + 1 held is gone.
LEMMA RefsMoved ==
  ASSUME ObjectsTypeOK, NEW a, NEW n \in Nat, NEW p \in DOMAIN heap, p \notin Detached,
         progvars' = progvars, owned' = owned,
         Len(calls) \in Nat, n <= Len(calls), Len(calls') = n + 3,
         \A i \in 1 .. n : calls'[i] = calls[i],
         calls'[n + 1].fn # "free_object",
         calls'[n + 2] = Call("free_object", heap[p].right),
         calls'[n + 3] = Call("free_object", heap[p].left),
         DOMAIN heap' = DOMAIN heap,
         \A q \in DOMAIN heap : heap'[q].left = heap[q].left
                                /\ heap'[q].right = heap[q].right,
         Detached' = Detached \cup {p}
  PROVE  /\ IsFiniteSet(References(a)')
         /\ Cardinality(References(a)') \in Nat
         /\ Cardinality(References(a)') <= Cardinality(References(a))
         /\ <<"call", n + 1>> \in References(a)
              => Cardinality(References(a)') <= Cardinality(References(a)) - 1
<1> DEFINE S == References(a)
           T == References(a)'
           R == RefsIn(heap, progvars, owned, Detached, calls, a)
           U == RefsIn(heap', progvars', owned', Detached', calls', a)
           lp == <<"left", p>>
           rp == <<"right", p>>
           cl == <<"call", n + 3>>
           cr == <<"call", n + 2>>
           c1 == <<"call", n + 1>>
           S1 == IF heap[p].left = a THEN (S \ {lp}) \cup {cl} ELSE S
           S2 == IF heap[p].right = a THEN (S1 \ {rp}) \cup {cr} ELSE S1
<1>1. S = R /\ T = U
  BY RefsAre
<1>2. IsFiniteSet(S) /\ Cardinality(S) \in Nat
  BY RefsFinite
<1>3. heap[p].left = a => lp \in S
  BY <1>1, RefMembers
<1>4. heap[p].right = a => rp \in S
  BY <1>1, RefMembers
<1>5. rp # lp /\ rp # cl /\ c1 # cl /\ c1 # cr /\ c1 # lp /\ c1 # rp
  OBVIOUS
<1>6. IsFiniteSet(S1) /\ Cardinality(S1) \in Nat /\ Cardinality(S1) <= Cardinality(S)
  <2>1. CASE heap[p].left = a
    <3> HIDE DEF S, lp, cl
    <3> QED BY <1>2, <1>3, <2>1, CardMove
  <2>2. CASE heap[p].left # a
    BY <1>2, <2>2
  <2> QED BY <2>1, <2>2
<1>7. heap[p].right = a => rp \in S1
  <2> HIDE DEF S, lp, cl, rp
  <2> QED BY <1>4, <1>5
<1>8. IsFiniteSet(S2) /\ Cardinality(S2) \in Nat /\ Cardinality(S2) <= Cardinality(S1)
  <2> HIDE DEF S1, rp, cr
  <2>1. CASE heap[p].right = a
    BY <1>6, <1>7, <2>1, CardMove
  <2>2. CASE heap[p].right # a
    BY <1>6, <2>2
  <2> QED BY <2>1, <2>2
<1>9. c1 \in S => c1 \in S2
  <2> HIDE DEF S, lp, cl, rp, cr, c1
  <2> QED BY <1>5
<1>10. ASSUME NEW t \in T PROVE t \in S2 /\ t # c1
  <2>0. t \in U
    BY <1>1
  <2>1. CASE \E s \in owned' : t = <<"variable", s>>
    <3>1. PICK s : t = <<"variable", s>>
      BY <2>1
    <3>2. t \in R
      BY <2>0, <3>1, RefMembers
    <3>3. t # lp /\ t # rp /\ t # c1
      BY <3>1
    <3> HIDE DEF lp, rp, cl, cr, R, c1
    <3> QED BY <1>1, <3>2, <3>3
  <2>2. CASE \E q \in DOMAIN heap' : t = <<"left", q>>
    <3>1. PICK q : t = <<"left", q>>
      BY <2>2
    <3>2. t \in R /\ q # p
      BY <2>0, <3>1, RefMembers
    <3>3. t # lp /\ t # rp /\ t # c1
      BY <3>1, <3>2
    <3> HIDE DEF lp, rp, cl, cr, R, c1
    <3> QED BY <1>1, <3>2, <3>3
  <2>3. CASE \E q \in DOMAIN heap' : t = <<"right", q>>
    <3>1. PICK q : t = <<"right", q>>
      BY <2>3
    <3>2. t \in R /\ q # p
      BY <2>0, <3>1, RefMembers
    <3>3. t # lp /\ t # rp /\ t # c1
      BY <3>1, <3>2
    <3> HIDE DEF lp, rp, cl, cr, R, c1
    <3> QED BY <1>1, <3>2, <3>3
  <2>4. CASE \E i \in 1 .. Len(calls') : t = <<"call", i>>
    <3>1. PICK i \in 1 .. n + 3 : t = <<"call", i>>
      BY <2>4
    <3>2. calls'[i] = Call("free_object", a)
      BY <2>0, <3>1, RefMembers
    <3>3. i # n + 1
      BY <3>2 DEF Call
    <3>4. CASE i \in 1 .. n
      <4>1. t \in R
        BY <3>1, <3>2, <3>4, RefMembers
      <4>2. t # lp /\ t # rp /\ t # c1
        BY <3>1, <3>4
      <4> HIDE DEF lp, rp, cl, cr, R, c1
      <4> QED BY <1>1, <4>1, <4>2
    <3>5. CASE i = n + 2
      <4>1. heap[p].right = a
        BY <3>2, <3>5 DEF Call
      <4> QED BY <3>1, <3>5, <4>1
    <3>6. CASE i = n + 3
      <4>1. heap[p].left = a
        BY <3>2, <3>6 DEF Call
      <4>2. t = cl /\ t # rp /\ t # c1
        BY <3>1, <3>6
      <4> HIDE DEF cl, rp, c1, cr
      <4> QED BY <4>1, <4>2
    <3> QED BY <3>1, <3>3, <3>4, <3>5, <3>6
  <2> HIDE DEF U, S2, c1
  <2> QED BY <2>0, <2>1, <2>2, <2>3, <2>4, RefKinds DEF U
<1>11. IsFiniteSet(T) /\ Cardinality(T) \in Nat /\ Cardinality(T) <= Cardinality(S2)
  <2> HIDE DEF S2, T, c1
  <2> QED BY <1>8, <1>10, CardSubset
<1>12. ASSUME c1 \in S PROVE Cardinality(T) <= Cardinality(S2) - 1
  <2> HIDE DEF S, S2, T, c1
  <2>1. c1 \in S2
    BY <1>9, <1>12
  <2>2. /\ IsFiniteSet(S2 \ {c1})
        /\ Cardinality(S2 \ {c1}) \in Nat
        /\ Cardinality(S2 \ {c1}) = Cardinality(S2) - 1
    BY <1>8, <2>1, CardRemove
  <2>3. T \subseteq S2 \ {c1}
    BY <1>10
  <2>4. Cardinality(T) <= Cardinality(S2 \ {c1})
    BY <2>2, <2>3, CardSubset
  <2> QED BY <2>2, <2>4
<1> HIDE DEF S, S1, S2, T, c1
<1>13. Cardinality(T) <= Cardinality(S)
  BY <1>2, <1>6, <1>8, <1>11
<1>14. c1 \in S => Cardinality(T) <= Cardinality(S) - 1
  BY <1>2, <1>6, <1>8, <1>11, <1>12
<1> QED BY <1>11, <1>13, <1>14 DEF S, T, c1

(***************************************************************************)
(* The runtime keeps its invariant, and meets no freed object.             *)
(***************************************************************************)

\* A pointer that a call is about to release points to a counted object.
LEMMA ReleasedIsCounted ==
  ASSUME ObjectsTypeOK, RuntimeInv, InRuntime, Top.fn = "free_object", Top.obj \in Addr
  PROVE  /\ <<"call", Len(calls)>> \in References(Top.obj)
         /\ Top.obj \in DOMAIN heap
         /\ heap[Top.obj].refcount >= 1
<1>1. calls # <<>> /\ calls \in Seq(Frame)
  BY DEF InRuntime, ObjectsTypeOK
<1>2. Len(calls) \in Nat \ {0} /\ Top \in Frame
  BY <1>1, StackProperties
<1>3. Top = Call("free_object", Top.obj)
  BY <1>2 DEF Frame, Call
<1>4. <<"call", Len(calls)>> \in References(Top.obj)
  BY <1>2, <1>3, RefsAre, RefMembers DEF Top
<1> QED BY <1>4, ReferredIsCounted DEF RuntimeInv

\* An object being killed is allocated and counted.
LEMMA KilledIsCounted ==
  ASSUME ObjectsTypeOK, RuntimeInv, NEW i \in 1 .. Len(calls), calls[i].fn = "unlink"
  PROVE  /\ calls[i].obj \in DOMAIN heap
         /\ heap[calls[i].obj].refcount >= 1
<1>1. PICK s \in owned : progvars[s] = calls[i].obj
  BY DEF RuntimeInv, KillsHeld
<1>2. <<"variable", s>> \in References(calls[i].obj)
  BY <1>1, RefsAre, RefMembers
<1>3. calls[i].obj \in Addr
  BY DEF RuntimeInv, KillsHeld
<1> QED BY <1>2, <1>3, ReferredIsCounted DEF RuntimeInv

\* When the stack shrinks, what was detached by frames still there stays detached.
LEMMA DetachedBelow ==
  ASSUME calls \in Seq(Frame), calls # <<>>, calls' = Return
  PROVE  /\ Detached' \subseteq Detached
         /\ Top.fn = "free_object" => Detached' = Detached
         /\ Detached \subseteq Detached' \cup {Top.obj}
<1>1. /\ Len(calls) \in Nat \ {0}
      /\ Len(Return) = Len(calls) - 1
      /\ \A i \in 1 .. Len(calls) - 1 : Return[i] = calls[i]
  BY StackProperties
<1>2. ASSUME NEW p \in Detached' PROVE p \in Detached
  <2>1. PICK i \in 1 .. Len(calls) - 1 : calls'[i].fn # "free_object" /\ calls'[i].obj = p
    BY <1>1, <1>2 DEF Detached
  <2> QED BY <1>1, <2>1 DEF Detached
<1>3. ASSUME NEW p \in Detached PROVE p \in Detached' \/ (p = Top.obj /\ Top.fn # "free_object")
  <2>1. PICK i \in 1 .. Len(calls) : calls[i].fn # "free_object" /\ calls[i].obj = p
    BY <1>3 DEF Detached
  <2>2. CASE i = Len(calls)
    BY <2>1, <2>2 DEF Top
  <2>3. CASE i \in 1 .. Len(calls) - 1
    BY <1>1, <2>1, <2>3 DEF Detached
  <2> QED BY <1>1, <2>2, <2>3
<1> QED BY <1>2, <1>3

\* The parts of the invariant about frames, when the stack shrinks and no object a
\* frame below waits to free is lost or retained.
LEMMA FramesBelow ==
  ASSUME calls \in Seq(Frame), calls # <<>>, calls' = Return, RuntimeInv,
         progvars' = progvars, owned' = owned,
         \A i \in 1 .. Len(calls) - 1 : calls[i].fn = "free" =>
           /\ calls[i].obj \in DOMAIN heap'
           /\ heap'[calls[i].obj].refcount <= 0
  PROVE  FreesUnique' /\ KillsHeld' /\ OwnedStored'
<1>1. /\ Len(calls) \in Nat \ {0}
      /\ Len(Return) = Len(calls) - 1
      /\ \A i \in 1 .. Len(calls) - 1 : Return[i] = calls[i]
  BY StackProperties
<1>2. FreesUnique'
  BY <1>1 DEF FreesUnique, RuntimeInv
<1>3. KillsHeld'
  BY <1>1 DEF KillsHeld, RuntimeInv
<1>4. OwnedStored'
  BY DEF OwnedStored, RuntimeInv
<1> QED BY <1>2, <1>3, <1>4

\* The release that takes the last count of an object holds the only reference to it.
LEMMA LastReference ==
  ASSUME ObjectsTypeOK, RuntimeInv, InRuntime, Top.fn = "free_object",
         Top.obj \in DOMAIN heap, ~ (heap[Top.obj].refcount - 1 > 0)
  PROVE  /\ References(Top.obj) = {<<"call", Len(calls)>>}
         /\ \A i \in 1 .. Len(calls) : calls[i].fn = "free" => calls[i].obj # Top.obj
         /\ Top.obj \notin Detached
<1>0. PICK p \in Addr : p = Top.obj /\ p \in DOMAIN heap /\ heap[p].refcount \in Int
  BY HeapType
<1> DEFINE c == <<"call", Len(calls)>>
<1>1. c \in References(p) /\ heap[p].refcount = 1 /\ Count(p) = 1
  <2>1. c \in References(p) /\ heap[p].refcount >= 1
    BY <1>0, ReleasedIsCounted
  <2> QED BY <1>0, <2>1 DEF Count
<1>2. \A t \in References(p) : t = c
  <2> SUFFICES ASSUME NEW t \in References(p), t # c PROVE FALSE
    OBVIOUS
  <2>1. IsFiniteSet(References(p)) /\ Cardinality(References(p)) \in Nat
    BY RefsFinite
  <2>2. Cardinality(References(p)) <= 1
    BY <1>1 DEF RuntimeInv, RefsCounted
  <2> HIDE DEF c
  <2>3. /\ IsFiniteSet(References(p) \ {c})
        /\ Cardinality(References(p) \ {c}) = Cardinality(References(p)) - 1
        /\ Cardinality(References(p) \ {c}) \in Nat
    BY <1>1, <2>1, CardRemove
  <2>4. References(p) \ {c} = {}
    BY <2>1, <2>2, <2>3, FS_EmptySet
  <2> QED BY <2>4
<1>3. \A i \in 1 .. Len(calls) : calls[i].fn = "free" => calls[i].obj # p
  BY <1>0, <1>1 DEF RuntimeInv, FreesUnique
\* An object being killed is held by a variable as well.
<1>4. \A i \in 1 .. Len(calls) : calls[i].fn = "unlink" => calls[i].obj # p
  <2> SUFFICES ASSUME NEW i \in 1 .. Len(calls), calls[i].fn = "unlink", calls[i].obj = p
               PROVE  FALSE
    OBVIOUS
  <2>1. PICK s \in owned : progvars[s] = p
    BY DEF RuntimeInv, KillsHeld
  <2>2. <<"variable", s>> \in References(p)
    BY <2>1, RefsAre, RefMembers
  <2> QED BY <1>2, <2>2
<1>5. p \notin Detached
  <2> SUFFICES ASSUME NEW i \in 1 .. Len(calls), calls[i].fn # "free_object",
                      calls[i].obj = p
               PROVE  FALSE
    BY DEF Detached
  <2>1. calls[i] \in Frame
    BY ElementOfSeq DEF ObjectsTypeOK
  <2> QED BY <1>3, <1>4, <2>1 DEF Frame
<1> QED BY <1>0, <1>1, <1>2, <1>3, <1>5

\* A cascade on p detaches p and no other object.
LEMMA CascadeDetaches ==
  ASSUME NEW n \in Nat, Len(calls) = n + 1, Top.fn = "free_object", NEW p,
         Len(calls') = n + 3, \A i \in 1 .. n : calls'[i] = calls[i],
         calls'[n + 1].fn = "free", calls'[n + 1].obj = p,
         calls'[n + 2].fn = "free_object", calls'[n + 3].fn = "free_object"
  PROVE  Detached' = Detached \cup {p}
<1>1. Detached' = {calls'[i].obj : i \in {j \in 1 .. Len(calls') :
                                            calls'[j].fn # "free_object"}}
  BY DEF Detached
<1>2. ASSUME NEW q \in Detached' PROVE q \in Detached \cup {p}
  <2>1. PICK i \in 1 .. Len(calls') : calls'[i].fn # "free_object" /\ calls'[i].obj = q
    BY <1>1, <1>2
  <2>2. i \in 1 .. n \/ i = n + 1
    BY <2>1
  <2> QED BY <2>1, <2>2 DEF Detached
<1>3. ASSUME NEW q \in Detached PROVE q \in Detached'
  <2>1. PICK i \in 1 .. Len(calls) : calls[i].fn # "free_object" /\ calls[i].obj = q
    BY <1>3 DEF Detached
  <2>2. i \in 1 .. n
    BY <2>1 DEF Top
  <2> QED BY <1>1, <2>1, <2>2
<1>4. p \in Detached'
  <2>1. n + 1 \in 1 .. Len(calls')
    OBVIOUS
  <2> QED BY <1>1, <2>1
<1> QED BY <1>2, <1>3, <1>4

\* free_object, which gives a reference up and begins to free what has none left,
\* keeps the invariant of the runtime.
LEMMA FreeObjectKeeps ==
  ASSUME ObjectsTypeOK, RuntimeInv, free_object
  PROVE  RuntimeInv' /\ status' = status
<1>0. /\ InRuntime /\ Top.fn = "free_object"
      /\ calls # <<>> /\ calls \in Seq(Frame)
  BY DEF free_object, InRuntime, ObjectsTypeOK
<1>a. /\ Len(calls) \in Nat \ {0} /\ Top.obj \in Pointer
  BY <1>0, StackProperties
<1>b. PICK p \in Pointer : p = Top.obj
  BY <1>a
<1>c. PICK n \in Nat : n = Len(calls) - 1
  BY <1>a
<1>1. /\ Len(calls) \in Nat \ {0}
      /\ Return \in Seq(Frame)
      /\ Len(Return) = n
      /\ \A i \in 1 .. n : Return[i] = calls[i]
      /\ n <= Len(calls) /\ n + 1 = Len(calls)
  BY <1>0, <1>c, StackProperties
<1>2. ~ Dangling(p)
  BY <1>0, <1>b, ReleasedIsCounted DEF Dangling
\* Nothing to release: the call returns.
<1>3. ASSUME p \in {Null, universal_dead}, calls' = Return,
             UNCHANGED <<heap, progvars, owned, status>>
      PROVE  RuntimeInv'
  <2>1. Detached' = Detached
    BY <1>0, <1>3, DetachedBelow
  <2>2. \A a \in Addr : References(a)' \subseteq References(a)
    BY <1>1, <1>3, <2>1, RefsDropped
  <2>3. RefsCounted'
    <3> SUFFICES ASSUME NEW a \in Addr PROVE Cardinality(References(a)') <= Count(a)'
      BY DEF RefsCounted
    <3>1. Count(a)' \in Int /\ Count(a)' >= Count(a)
      BY <1>3, HeapType DEF Count
    <3> QED BY <2>2, <3>1, FewerCounted DEF RuntimeInv
  <2>4. \A i \in 1 .. Len(calls) - 1 : calls[i].fn = "free" =>
          calls[i].obj \in DOMAIN heap' /\ heap'[calls[i].obj].refcount <= 0
    BY <1>1, <1>3 DEF RuntimeInv, FreesUnique
  <2>5. FreesUnique' /\ KillsHeld' /\ OwnedStored'
    BY <1>0, <1>3, <2>4, FramesBelow
  <2> QED BY <2>3, <2>5 DEF RuntimeInv
\* One reference less: the call returns, or goes on with the halves.
<1>4. ASSUME p \in DOMAIN heap, heap' = [heap EXCEPT ![p].refcount = @ - 1],
             UNCHANGED <<progvars, owned, status>>
      PROVE  /\ \A a \in Addr \ {p} : Count(a)' = Count(a)
             /\ Count(p)' = Count(p) - 1
             /\ Count(p) = heap[p].refcount
             /\ DOMAIN heap' = DOMAIN heap
             /\ \A q \in DOMAIN heap : /\ heap'[q].left = heap[q].left
                                       /\ heap'[q].right = heap[q].right
                                       /\ q # p => heap'[q].refcount = heap[q].refcount
             /\ heap'[p].refcount = heap[p].refcount - 1
             /\ heap[p].refcount \in Int
             /\ heap[p].refcount >= 1
             /\ p \in Addr
             /\ <<"call", n + 1>> \in References(p)
             /\ \A i \in 1 .. Len(calls) : calls[i].fn = "free" =>
                  /\ calls[i].obj # p
                  /\ calls[i].obj \in DOMAIN heap'
                  /\ heap'[calls[i].obj].refcount <= 0
  <2>1. p \in Addr /\ heap[p] \in Object /\ heap[p].refcount \in Int
    BY <1>4, HeapType
  <2>2. <<"call", n + 1>> \in References(p) /\ heap[p].refcount >= 1
    BY <1>0, <1>1, <1>b, <2>1, ReleasedIsCounted
  <2>3. \A q \in DOMAIN heap : heap[q] \in Object
    BY HeapType
  <2>4. /\ DOMAIN heap' = DOMAIN heap
        /\ heap'[p] = [heap[p] EXCEPT !.refcount = @ - 1]
        /\ \A q \in DOMAIN heap : q # p => heap'[q] = heap[q]
    BY <1>4
  <2>5. /\ heap'[p].refcount = heap[p].refcount - 1
        /\ heap'[p].left = heap[p].left
        /\ heap'[p].right = heap[p].right
    BY <2>1, <2>4 DEF Object
  <2>6. \A i \in 1 .. Len(calls) : calls[i].fn = "free" =>
          calls[i].obj \in DOMAIN heap /\ heap[calls[i].obj].refcount <= 0
    BY DEF RuntimeInv, FreesUnique
  <2>7. \A i \in 1 .. Len(calls) : calls[i].fn = "free" => calls[i].obj # p
    BY <2>1, <2>2, <2>6
  <2>8. Count(p) = heap[p].refcount /\ Count(p)' = heap[p].refcount - 1
    BY <1>4, <2>4, <2>5 DEF Count
  <2>9. \A a \in Addr \ {p} : Count(a)' = Count(a)
    BY <2>4 DEF Count
  <2> QED BY <2>1, <2>2, <2>4, <2>5, <2>6, <2>7, <2>8, <2>9
<1>5. ASSUME p \in DOMAIN heap, heap' = [heap EXCEPT ![p].refcount = @ - 1],
             UNCHANGED <<progvars, owned, status>>,
             heap[p].refcount - 1 > 0, calls' = Return
      PROVE  RuntimeInv'
  <2>1. Detached' = Detached
    BY <1>0, <1>5, DetachedBelow
  <2>2. \A a \in Addr : References(a)' \subseteq References(a)
    BY <1>1, <1>4, <1>5, <2>1, RefsDropped
  <2>3. RefsCounted'
    <3> SUFFICES ASSUME NEW a \in Addr PROVE Cardinality(References(a)') <= Count(a)'
      BY DEF RefsCounted
    <3>1. CASE a # p
      <4>1. Count(a)' = Count(a) /\ Count(a) \in Int
        BY <1>4, <1>5, <3>1, HeapType DEF Count
      <4>2. Count(a)' \in Int /\ Count(a)' >= Count(a)
        BY <4>1
      <4> QED BY <2>2, <4>2, FewerCounted DEF RuntimeInv
    <3>2. CASE a = p
      <4> DEFINE c == <<"call", n + 1>>
      <4>1. c \in References(a)
        BY <1>4, <1>5, <3>2
      <4>2. c \notin References(a)'
        BY <1>1, <1>5, RefsAre, RefMembers
      <4>3. IsFiniteSet(References(a)) /\ Cardinality(References(a)) \in Nat
        BY RefsFinite
      <4> HIDE DEF c
      <4>4. /\ IsFiniteSet(References(a) \ {c})
            /\ Cardinality(References(a) \ {c}) \in Nat
            /\ Cardinality(References(a) \ {c}) = Cardinality(References(a)) - 1
        BY <4>1, <4>3, CardRemove
      <4>5. References(a)' \subseteq References(a) \ {c}
        BY <2>2, <4>2
      <4>6. /\ Cardinality(References(a)') <= Cardinality(References(a) \ {c})
            /\ Cardinality(References(a)') \in Nat
        BY <4>4, <4>5, CardSubset
      <4>7. Cardinality(References(a)) <= Count(a)
        BY DEF RuntimeInv, RefsCounted
      <4>8. Count(a) \in Int /\ Count(a)' = Count(a) - 1
        BY <1>4, <1>5, <3>2
      <4> QED BY <4>3, <4>4, <4>6, <4>7, <4>8
    <3> QED BY <3>1, <3>2
  <2>4. \A i \in 1 .. Len(calls) - 1 : calls[i].fn = "free" =>
          calls[i].obj \in DOMAIN heap' /\ heap'[calls[i].obj].refcount <= 0
    BY <1>1, <1>4, <1>5
  <2>5. FreesUnique' /\ KillsHeld' /\ OwnedStored'
    BY <1>0, <1>5, <2>4, FramesBelow
  <2> QED BY <2>3, <2>5 DEF RuntimeInv
<1>6. ASSUME p \in DOMAIN heap, heap' = [heap EXCEPT ![p].refcount = @ - 1],
             UNCHANGED <<progvars, owned, status>>,
             ~ (heap[p].refcount - 1 > 0),
             calls' = Return \o <<Call("free", p), Call("free_object", heap[p].right),
                                  Call("free_object", heap[p].left)>>
      PROVE  RuntimeInv'
  <2>1. /\ Len(calls') = n + 3
        /\ \A i \in 1 .. n : calls'[i] = calls[i]
        /\ calls'[n + 1] = Call("free", p)
        /\ calls'[n + 2] = Call("free_object", heap[p].right)
        /\ calls'[n + 3] = Call("free_object", heap[p].left)
    <3>1. /\ Call("free", p) \in Frame
          /\ Call("free_object", heap[p].right) \in Frame
          /\ Call("free_object", heap[p].left) \in Frame
      BY <1>1, <1>6, HeapType, CallType
    <3> QED BY <1>1, <1>6, <3>1, CascadeProperties
  <2>2. /\ calls'[n + 1].fn = "free" /\ calls'[n + 1].obj = p
        /\ calls'[n + 2].fn = "free_object" /\ calls'[n + 3].fn = "free_object"
    BY <2>1 DEF Call
  <2>3. \A i \in 1 .. Len(calls') : i \in 1 .. n \/ i = n + 1 \/ i = n + 2 \/ i = n + 3
    BY <1>1, <2>1
  <2>4. Detached' = Detached \cup {p}
    BY <1>0, <1>1, <2>1, <2>2, CascadeDetaches
  <2>5. p \notin Detached
    BY <1>0, <1>6, <1>b, LastReference
  <2>6. ASSUME NEW a \in Addr
        PROVE  Cardinality(References(a)') <= Count(a)'
    <3>1. /\ IsFiniteSet(References(a)')
          /\ Cardinality(References(a)') \in Nat
          /\ Cardinality(References(a)') <= Cardinality(References(a))
          /\ <<"call", n + 1>> \in References(a)
               => Cardinality(References(a)') <= Cardinality(References(a)) - 1
      <4>1. /\ DOMAIN heap' = DOMAIN heap
            /\ \A q \in DOMAIN heap : heap'[q].left = heap[q].left
                                      /\ heap'[q].right = heap[q].right
        BY <1>4, <1>6
      <4>2. progvars' = progvars /\ owned' = owned /\ p \in DOMAIN heap
        BY <1>6
      <4>3. n \in Nat /\ n <= Len(calls) /\ Len(calls) \in Nat
        BY <1>1
      <4>4. calls'[n + 1].fn # "free_object"
        BY <2>2
      <4> QED BY <2>1, <2>4, <2>5, <4>1, <4>2, <4>3, <4>4, RefsMoved
    <3>2. Cardinality(References(a)) <= Count(a) /\ Cardinality(References(a)) \in Nat
      BY RefsFinite DEF RuntimeInv, RefsCounted
    <3>3. CASE a = p
      <4>1. <<"call", n + 1>> \in References(a) /\ Count(a)' = Count(a) - 1
            /\ Count(a) \in Int
        BY <1>4, <1>6, <3>3
      <4> QED BY <3>1, <3>2, <4>1
    <3>4. CASE a # p
      <4>1. Count(a)' = Count(a) /\ Count(a) \in Int
        BY <1>4, <1>6, <3>4, HeapType DEF Count
      <4> QED BY <3>1, <3>2, <4>1
    <3> QED BY <3>3, <3>4
  <2>7. RefsCounted'
    BY <2>6 DEF RefsCounted
  <2>8. FreesUnique'
    <3> SUFFICES ASSUME NEW i \in 1 .. Len(calls'), calls'[i].fn = "free"
                 PROVE  /\ calls'[i].obj \in DOMAIN heap'
                        /\ heap'[calls'[i].obj].refcount <= 0
                        /\ \A j \in 1 .. Len(calls') : j # i /\ calls'[j].fn = "free"
                                                  => calls'[j].obj # calls'[i].obj
      BY DEF FreesUnique
    <3>1. \A j \in 1 .. Len(calls') : calls'[j].fn = "free" => j \in 1 .. n \/ j = n + 1
      BY <2>2, <2>3
    <3>2. \A j \in 1 .. n : calls'[j].fn = "free" =>
            /\ calls'[j].obj # p
            /\ calls'[j].obj \in DOMAIN heap'
            /\ heap'[calls'[j].obj].refcount <= 0
      <4>1. \A j \in 1 .. n : j \in 1 .. Len(calls) /\ calls'[j] = calls[j]
        BY <1>1, <2>1
      <4>2. \A j \in 1 .. Len(calls) : calls[j].fn = "free" =>
              /\ calls[j].obj # p
              /\ calls[j].obj \in DOMAIN heap'
              /\ heap'[calls[j].obj].refcount <= 0
        BY <1>4, <1>6
      <4> QED BY <4>1, <4>2
    <3>3. p \in DOMAIN heap' /\ heap'[p].refcount <= 0
      BY <1>4, <1>6
    <3>4. \A j, k \in 1 .. n : /\ j # k
                               /\ calls'[j].fn = "free" /\ calls'[k].fn = "free"
                               => calls'[j].obj # calls'[k].obj
      BY <1>1, <2>1 DEF RuntimeInv, FreesUnique
    <3> QED BY <2>2, <3>1, <3>2, <3>3, <3>4
  <2>9. KillsHeld'
    <3> SUFFICES ASSUME NEW i \in 1 .. Len(calls'), calls'[i].fn = "unlink"
                 PROVE  /\ calls'[i].obj \in Addr
                        /\ \E s \in owned' : progvars'[s] = calls'[i].obj
      BY DEF KillsHeld
    <3>1. i \in 1 .. n
      BY <2>2, <2>3
    <3> QED BY <1>1, <1>6, <2>1, <3>1 DEF RuntimeInv, KillsHeld
  <2>10. OwnedStored'
    BY <1>6 DEF RuntimeInv, OwnedStored
  <2> QED BY <2>7, <2>8, <2>9, <2>10 DEF RuntimeInv
<1>7. status' = status
  BY <1>2, <1>b DEF free_object
<1> QED BY <1>2, <1>b, <1>3, <1>5, <1>6, <1>7 DEF free_object

\* The part of kill after the releases, which makes the halves dead, keeps it.
LEMMA UnlinkKeeps ==
  ASSUME ObjectsTypeOK, RuntimeInv, unlink
  PROVE  RuntimeInv' /\ status' = status
<1>0. /\ InRuntime /\ Top.fn = "unlink"
      /\ calls # <<>> /\ calls \in Seq(Frame)
  BY DEF unlink, InRuntime, ObjectsTypeOK
<1>a. Len(calls) \in Nat \ {0} /\ Top.obj \in Pointer
  BY <1>0, StackProperties
<1>b. PICK p \in Pointer : p = Top.obj
  BY <1>a
<1>c. PICK n \in Nat : n = Len(calls) - 1
  BY <1>a
<1>1. /\ Len(Return) = n
      /\ \A i \in 1 .. n : Return[i] = calls[i]
      /\ n <= Len(calls) /\ n + 1 = Len(calls)
  BY <1>0, <1>c, StackProperties
<1>2. p \in DOMAIN heap /\ ~ Dangling(p)
  BY <1>0, <1>1, <1>b, KilledIsCounted DEF Top, Dangling
<1>3. /\ heap' = [heap EXCEPT ![p].left = universal_dead, ![p].right = universal_dead]
      /\ calls' = Return
      /\ UNCHANGED <<progvars, owned, status>>
  BY <1>2, <1>b DEF unlink
<1>4. /\ DOMAIN heap' = DOMAIN heap
      /\ \A q \in DOMAIN heap : q # p => heap'[q] = heap[q]
      /\ heap'[p].left = universal_dead
      /\ heap'[p].right = universal_dead
      /\ \A q \in DOMAIN heap : heap'[q].refcount = heap[q].refcount
  <2>1. /\ DOMAIN heap' = DOMAIN heap
        /\ \A q \in DOMAIN heap : q # p => heap'[q] = heap[q]
        /\ heap'[p] = [heap[p] EXCEPT !.left = universal_dead, !.right = universal_dead]
    BY <1>2, <1>3 DEF ObjectsTypeOK
  <2>2. heap[p] \in Object
    BY <1>2, HeapType
  <2>3. /\ heap'[p].left = universal_dead
        /\ heap'[p].right = universal_dead
        /\ heap'[p].refcount = heap[p].refcount
    BY <2>1, <2>2 DEF Object
  <2> QED BY <2>1, <2>3
<1>5. Detached \subseteq Detached' \cup {p}
  BY <1>0, <1>3, <1>b, DetachedBelow
<1>6. RefsCounted'
  <2> SUFFICES ASSUME NEW a \in Addr PROVE Cardinality(References(a)') <= Count(a)'
    BY DEF RefsCounted
  <2>1. a # universal_dead
    BY ObjectsAssumption DEF ObjectsAssumption
  <2>2. References(a)' \subseteq References(a)
    BY <1>1, <1>3, <1>4, <1>5, <2>1, RefsDropped
  <2>3. Count(a)' \in Int /\ Count(a)' >= Count(a)
    BY <1>4, HeapType DEF Count
  <2> QED BY <2>2, <2>3, FewerCounted DEF RuntimeInv
<1>7. \A i \in 1 .. Len(calls) - 1 : calls[i].fn = "free" =>
        calls[i].obj \in DOMAIN heap' /\ heap'[calls[i].obj].refcount <= 0
  BY <1>1, <1>4 DEF RuntimeInv, FreesUnique
<1>8. FreesUnique' /\ KillsHeld' /\ OwnedStored'
  BY <1>0, <1>3, <1>7, FramesBelow
<1> QED BY <1>3, <1>6, <1>8 DEF RuntimeInv

\* The call of free at the end of free_object keeps it.
LEMMA FreeKeeps ==
  ASSUME ObjectsTypeOK, RuntimeInv, free
  PROVE  RuntimeInv' /\ status' = status
<1>0. /\ InRuntime /\ Top.fn = "free"
      /\ calls # <<>> /\ calls \in Seq(Frame)
  BY DEF free, InRuntime, ObjectsTypeOK
<1>a. Len(calls) \in Nat \ {0} /\ Top.obj \in Pointer
  BY <1>0, StackProperties
<1>b. PICK p \in Pointer : p = Top.obj
  BY <1>a
<1>c. PICK n \in Nat : n = Len(calls) - 1
  BY <1>a
<1>1. /\ Len(Return) = n
      /\ \A i \in 1 .. n : Return[i] = calls[i]
      /\ n <= Len(calls) /\ n + 1 = Len(calls)
  BY <1>0, <1>c, StackProperties
<1>2. /\ p \in DOMAIN heap /\ heap[p].refcount <= 0
      /\ \A i \in 1 .. n : calls[i].fn = "free" => calls[i].obj # p
  BY <1>0, <1>1, <1>b DEF Top, RuntimeInv, FreesUnique
<1>3. /\ heap' = [x \in DOMAIN heap \ {p} |-> heap[x]]
      /\ calls' = Return
      /\ UNCHANGED <<progvars, owned, status>>
  BY <1>2, <1>b DEF free, Dangling
<1>4. Detached \subseteq Detached' \cup {p}
  BY <1>0, <1>3, <1>b, DetachedBelow
<1>5. RefsCounted'
  <2> SUFFICES ASSUME NEW a \in Addr PROVE Cardinality(References(a)') <= Count(a)'
    BY DEF RefsCounted
  <2>1. References(a)' \subseteq References(a)
    BY <1>1, <1>3, <1>4, RefsDropped
  <2>2. CASE a = p
    <3>1. References(a) = {}
      BY <1>2, <2>2, NoCountNoReference DEF RuntimeInv
    <3>2. Count(a)' = 0
      BY <1>3, <2>2 DEF Count
    <3> QED BY <2>1, <3>1, <3>2, FewerCounted DEF RuntimeInv
  <2>3. CASE a # p
    <3>1. Count(a)' \in Int /\ Count(a)' >= Count(a)
      BY <1>3, <2>3, HeapType DEF Count
    <3> QED BY <2>1, <3>1, FewerCounted DEF RuntimeInv
  <2> QED BY <2>2, <2>3
<1>6. \A i \in 1 .. Len(calls) - 1 : calls[i].fn = "free" =>
        calls[i].obj \in DOMAIN heap' /\ heap'[calls[i].obj].refcount <= 0
  BY <1>1, <1>2, <1>3, <1>c DEF RuntimeInv, FreesUnique
<1>7. FreesUnique' /\ KillsHeld' /\ OwnedStored'
  BY <1>0, <1>3, <1>6, FramesBelow
<1> QED BY <1>3, <1>5, <1>7 DEF RuntimeInv

\* Every step of the runtime keeps the invariant and ends in no fault.
LEMMA RuntimeKeeps ==
  ASSUME ObjectsTypeOK, RuntimeInv, RuntimeStep
  PROVE  RuntimeInv' /\ status' = status
BY FreeObjectKeeps, UnlinkKeeps, FreeKeeps DEF RuntimeStep

(***************************************************************************)
(* The calls that generated code makes.                                    *)
(***************************************************************************)

\* A variable that has been stored to points to a counted object or is dead for good.
LEMMA OwnedIsCounted ==
  ASSUME ObjectsTypeOK, RuntimeInv, NEW s \in owned
  PROVE  /\ s \in Slot
         /\ <<"variable", s>> \in References(progvars[s])
         /\ \/ progvars[s] = universal_dead
            \/ /\ progvars[s] \in DOMAIN heap
               /\ progvars[s] \in Addr
               /\ heap[progvars[s]].refcount >= 1
<1>1. s \in Slot /\ progvars[s] \in Pointer
  BY DEF ObjectsTypeOK
<1>2. progvars[s] # Null
  BY DEF RuntimeInv, OwnedStored
<1>3. <<"variable", s>> \in References(progvars[s])
  BY RefsAre, RefMembers
<1>4. progvars[s] \in Addr => progvars[s] \in DOMAIN heap /\ heap[progvars[s]].refcount >= 1
  BY <1>3, ReferredIsCounted DEF RuntimeInv
<1> QED BY <1>1, <1>2, <1>3, <1>4 DEF Pointer

\* The stack has no frame, or only one that releases an object.
LEMMA FramesAtStart ==
  ASSUME calls' = <<>> \/ \E p : calls' = <<Call("free_object", p)>>
  PROVE  FreesUnique' /\ KillsHeld' /\ Detached' = {}
<1>1. CASE calls' = <<>>
  BY <1>1 DEF FreesUnique, KillsHeld, Detached
<1>2. ASSUME NEW p, calls' = <<Call("free_object", p)>>
      PROVE  FreesUnique' /\ KillsHeld' /\ Detached' = {}
  <2>1. /\ Len(calls') = 1 /\ calls'[1] = Call("free_object", p)
        /\ calls'[1].fn = "free_object"
    BY <1>2 DEF Call
  <2>2. \A i \in 1 .. Len(calls') : calls'[i].fn = "free_object"
    BY <2>1
  <2>3. FreesUnique'
    BY <2>2 DEF FreesUnique
  <2>4. KillsHeld'
    BY <2>2 DEF KillsHeld
  <2>5. Detached' = {}
    BY <2>2 DEF Detached
  <2> QED BY <2>3, <2>4, <2>5
<1> QED BY <1>1, <1>2

\* kill of an owned variable keeps it.
LEMMA KillKeeps ==
  ASSUME ObjectsTypeOK, RuntimeInv, NEW s \in owned, kill(s)
  PROVE  RuntimeInv' /\ status' = status /\ progvars' = progvars /\ owned' = owned
<1>0. PICK p \in Pointer : p = progvars[s]
  BY DEF ObjectsTypeOK
<1>1. /\ calls = <<>> /\ Len(calls) = 0 /\ Detached = {}
      /\ p # Null /\ ~ Dangling(p)
      /\ <<"variable", s>> \in References(p)
      /\ universal_dead \notin Addr
  <2>1. calls = <<>>
    BY DEF kill, Ready
  <2>2. Len(calls) = 0 /\ Detached = {}
    BY <2>1 DEF Detached
  <2> QED BY <1>0, <2>1, <2>2, OwnedIsCounted, ObjectsAssumption
          DEF Dangling, ObjectsAssumption
<1>2. CASE UNCHANGED objectVars
  <2>1. RefsCounted'
    BY <1>2, ZenonT(60) DEF objectVars, RuntimeInv, RefsCounted, References, Count, Detached
  <2>2. FreesUnique' /\ KillsHeld' /\ OwnedStored'
    BY <1>2 DEF objectVars, RuntimeInv, FreesUnique, KillsHeld, OwnedStored
  <2> QED BY <1>2, <2>1, <2>2 DEF objectVars, RuntimeInv
<1>3. ASSUME p \in DOMAIN heap,
             heap' = [heap EXCEPT ![p].state = "dead"],
             calls' = <<Call("unlink", p), Call("free_object", heap[p].right),
                        Call("free_object", heap[p].left)>>,
             UNCHANGED <<progvars, owned, status>>
      PROVE  RuntimeInv'
  <2>1. /\ Len(calls') = 3
        /\ calls'[1].fn = "unlink" /\ calls'[1].obj = p
        /\ calls'[2] = Call("free_object", heap[p].right)
        /\ calls'[3] = Call("free_object", heap[p].left)
        /\ calls'[2].fn = "free_object" /\ calls'[3].fn = "free_object"
    BY <1>3 DEF Call
  <2>2. \A i \in 1 .. Len(calls') : i = 1 \/ i = 2 \/ i = 3
    BY <2>1
  <2>3. Detached' = {p}
    BY <2>1, <2>2 DEF Detached
  <2>4. /\ DOMAIN heap' = DOMAIN heap
        /\ \A q \in DOMAIN heap : /\ heap'[q].left = heap[q].left
                                  /\ heap'[q].right = heap[q].right
                                  /\ heap'[q].refcount = heap[q].refcount
    <3>1. /\ DOMAIN heap' = DOMAIN heap
          /\ \A q \in DOMAIN heap : q # p => heap'[q] = heap[q]
          /\ heap'[p] = [heap[p] EXCEPT !.state = "dead"]
      BY <1>3
    <3>2. heap[p] \in Object
      BY <1>3, HeapType
    <3> QED BY <1>3, <3>1, <3>2 DEF Object
  <2>5. RefsCounted'
    <3> SUFFICES ASSUME NEW a \in Addr PROVE Cardinality(References(a)') <= Count(a)'
      BY DEF RefsCounted
    <3>1. /\ Cardinality(References(a)') \in Nat
          /\ Cardinality(References(a)') <= Cardinality(References(a))
      <4>1. PICK n \in Nat : n = 0
        OBVIOUS
      <4>2. /\ p \notin Detached /\ Len(calls) \in Nat /\ n <= Len(calls)
            /\ Len(calls') = n + 3
            /\ \A i \in 1 .. n : calls'[i] = calls[i]
            /\ calls'[n + 1].fn # "free_object"
            /\ calls'[n + 2] = Call("free_object", heap[p].right)
            /\ calls'[n + 3] = Call("free_object", heap[p].left)
            /\ Detached' = Detached \cup {p}
        BY <1>1, <2>1, <2>3, <4>1
      <4> QED BY <1>3, <2>4, <4>2, RefsMoved
    <3>2. Cardinality(References(a)) <= Count(a) /\ Cardinality(References(a)) \in Nat
      BY RefsFinite DEF RuntimeInv, RefsCounted
    <3>3. Count(a)' = Count(a) /\ Count(a) \in Int
      BY <2>4, HeapType DEF Count
    <3> QED BY <3>1, <3>2, <3>3
  <2>6. FreesUnique'
    BY <2>1, <2>2 DEF FreesUnique
  <2>7. KillsHeld'
    <3>1. p \in Addr
      BY <1>3, HeapType
    <3>2. s \in owned' /\ progvars'[s] = p
      BY <1>0, <1>3
    <3> QED BY <2>1, <2>2, <3>1, <3>2 DEF KillsHeld
  <2>8. OwnedStored'
    BY <1>3 DEF RuntimeInv, OwnedStored
  <2> QED BY <2>5, <2>6, <2>7, <2>8 DEF RuntimeInv
<1>4. ~ Fault(p)
  BY <1>1 DEF Fault
<1> QED BY <1>0, <1>2, <1>3, <1>4 DEF kill, objectVars

\* The release of an owned variable keeps it.
LEMMA FreeSlotKeeps ==
  ASSUME ObjectsTypeOK, RuntimeInv, NEW s \in owned, free_slot(s)
  PROVE  RuntimeInv' /\ status' = status
<1>0. PICK p \in Pointer : p = progvars[s]
  BY DEF ObjectsTypeOK
<1>1. /\ calls' = <<Call("free_object", p)>>
      /\ owned' = owned \ {s}
      /\ UNCHANGED <<heap, progvars, status>>
      /\ calls = <<>> /\ Len(calls) = 0 /\ Len(calls') = 1
      /\ calls'[1] = Call("free_object", p) /\ Call("free_object", p).obj = p
  BY <1>0 DEF free_slot, Ready, Call
<1>2. FreesUnique' /\ KillsHeld' /\ Detached' = {}
  BY <1>1, FramesAtStart
<1>3. Detached = {}
  BY <1>1 DEF Detached
<1> DEFINE v == <<"variable", s>>
           c == <<"call", 1>>
<1>4. RefsCounted'
  <2> SUFFICES ASSUME NEW a \in Addr PROVE Cardinality(References(a)') <= Count(a)'
    BY DEF RefsCounted
  <2> DEFINE R == RefsIn(heap, progvars, owned, Detached, calls, a)
             S == RefsIn(heap', progvars', owned', Detached', calls', a)
  <2>1. References(a) = R /\ References(a)' = S
    BY RefsAre
  <2>2. ASSUME NEW t \in S PROVE (t \in R /\ t # v) \/ (t = c /\ a = p)
    <3>1. CASE \E q \in owned' : t = <<"variable", q>>
      BY <1>1, <3>1, RefMembers
    <3>2. CASE \E q \in DOMAIN heap' : t = <<"left", q>>
      BY <1>1, <1>2, <1>3, <3>2, RefMembers
    <3>3. CASE \E q \in DOMAIN heap' : t = <<"right", q>>
      BY <1>1, <1>2, <1>3, <3>3, RefMembers
    <3>4. CASE \E i \in 1 .. Len(calls') : t = <<"call", i>>
      <4>1. t = c
        BY <1>1, <3>4
      <4>2. Call("free_object", p) = Call("free_object", a)
        BY <1>1, <4>1, RefMembers
      <4> QED BY <4>1, <4>2 DEF Call
    <3> HIDE DEF R, v, c
    <3> QED BY <3>1, <3>2, <3>3, <3>4, RefKinds
  <2>3. Count(a)' = Count(a) /\ Count(a) \in Int
    BY <1>1, HeapType DEF Count
  <2>4. IsFiniteSet(R) /\ Cardinality(R) <= Count(a)
    BY <2>1, RefsFinite DEF RuntimeInv, RefsCounted
  <2>5. v \in R <=> a = p
    BY <1>0, RefMembers
  <2> HIDE DEF R, S, v, c
  <2>6. CASE a = p
    <3>1. /\ IsFiniteSet((R \ {v}) \cup {c})
          /\ Cardinality((R \ {v}) \cup {c}) \in Nat
          /\ Cardinality(R) \in Nat
          /\ Cardinality((R \ {v}) \cup {c}) <= Cardinality(R)
      BY <2>4, <2>5, <2>6, CardMove
    <3>2. S \subseteq (R \ {v}) \cup {c}
      BY <2>2
    <3>3. Cardinality(S) <= Cardinality((R \ {v}) \cup {c}) /\ Cardinality(S) \in Nat
      BY <3>1, <3>2, CardSubset
    <3> QED BY <2>1, <2>3, <2>4, <3>1, <3>3
  <2>7. CASE a # p
    <3>1. S \subseteq R
      BY <2>2, <2>7
    <3>2. /\ Cardinality(S) <= Cardinality(R)
          /\ Cardinality(S) \in Nat /\ Cardinality(R) \in Nat
      BY <2>4, <3>1, CardSubset
    <3> QED BY <2>1, <2>3, <2>4, <3>2
  <2> QED BY <2>6, <2>7
<1>5. OwnedStored'
  BY <1>1 DEF RuntimeInv, OwnedStored
<1> QED BY <1>1, <1>2, <1>4, <1>5 DEF RuntimeInv

\* create_object keeps it, and the variable is owned afterwards, or memory ran out.
LEMMA CreateKeeps ==
  ASSUME ObjectsTypeOK, RuntimeInv, NEW s \in Slot, NEW type \in Type,
         create_object(s, type)
  PROVE  /\ RuntimeInv'
         /\ \/ /\ status' = status /\ owned' = owned \cup {s} /\ calls' = calls
               /\ \A q \in Slot \ {s} : progvars'[q] = progvars[q]
               /\ \A x \in DOMAIN heap : x \in DOMAIN heap' /\ heap'[x] = heap[x]
            \/ Stop("failed")
<1>1. calls = <<>> /\ Len(calls) = 0 /\ Detached = {}
  BY DEF create_object, Ready, Detached
<1>2. CASE Stop("failed")
  <2>1. RefsCounted'
    BY <1>2, ZenonT(60) DEF Stop, RuntimeInv, RefsCounted, References, Count, Detached
  <2>2. FreesUnique' /\ KillsHeld' /\ OwnedStored'
    BY <1>2 DEF Stop, RuntimeInv, FreesUnique, KillsHeld, OwnedStored
  <2> QED BY <1>2, <2>1, <2>2 DEF RuntimeInv
<1>3. ASSUME NEW b \in Unused, NEW text \in InputText(type),
             heap' = [x \in DOMAIN heap \cup {b} |->
                        IF x = b THEN NewObject(type, "alive", 1, text) ELSE heap[x]],
             progvars' = [progvars EXCEPT ![s] = b],
             owned' = owned \cup {s},
             UNCHANGED <<calls, status>>
      PROVE  /\ RuntimeInv'
             /\ \A q \in Slot \ {s} : progvars'[q] = progvars[q]
             /\ \A q \in DOMAIN heap : q \in DOMAIN heap' /\ heap'[q] = heap[q]
  <2>1. /\ b \in Addr /\ b \notin DOMAIN heap /\ b # Null
        /\ Null \notin Addr
    BY ObjectsAssumption DEF Unused, ObjectsAssumption
  <2>2. /\ DOMAIN heap' = DOMAIN heap \cup {b}
        /\ heap'[b].left = Null /\ heap'[b].right = Null /\ heap'[b].refcount = 1
        /\ \A q \in DOMAIN heap : heap'[q] = heap[q]
    BY <1>3, <2>1 DEF NewObject
  <2>3. /\ \A q \in owned' : q = s \/ (q \in owned /\ q # s)
        /\ progvars'[s] = b
        /\ \A q \in Slot \ {s} : progvars'[q] = progvars[q]
        /\ owned \subseteq Slot
    BY <1>3 DEF ObjectsTypeOK
  <2>4. FreesUnique' /\ KillsHeld' /\ Detached' = {}
    BY <1>1, <1>3, FramesAtStart
  <2>5. OwnedStored'
    BY <2>1, <2>3 DEF RuntimeInv, OwnedStored
  <2>6. RefsCounted'
    <3> SUFFICES ASSUME NEW a \in Addr PROVE Cardinality(References(a)') <= Count(a)'
      BY DEF RefsCounted
    <3> DEFINE R == RefsIn(heap, progvars, owned, Detached, calls, a)
               S == RefsIn(heap', progvars', owned', Detached', calls', a)
               v == <<"variable", s>>
    <3>1. References(a) = R /\ References(a)' = S
      BY RefsAre
    <3>2. ASSUME NEW t \in S PROVE t \in R \/ (t = v /\ a = b)
      <4>1. CASE \E q \in owned' : t = <<"variable", q>>
        <5>1. PICK q \in owned' : t = <<"variable", q>>
          BY <4>1
        <5>2. progvars'[q] = a
          BY <5>1, RefMembers
        <5>3. CASE q = s
          BY <2>3, <5>1, <5>2, <5>3
        <5>4. CASE q # s
          <6>1. q \in owned /\ progvars[q] = a
            BY <2>3, <5>2, <5>4
          <6> QED BY <5>1, <6>1, RefMembers
        <5> QED BY <5>3, <5>4
      <4>2. CASE \E q \in DOMAIN heap' : t = <<"left", q>>
        BY <1>1, <2>1, <2>2, <2>4, <4>2, RefMembers
      <4>3. CASE \E q \in DOMAIN heap' : t = <<"right", q>>
        BY <1>1, <2>1, <2>2, <2>4, <4>3, RefMembers
      <4>4. CASE \E i \in 1 .. Len(calls') : t = <<"call", i>>
        BY <1>1, <1>3, <4>4
      <4> HIDE DEF R, v
      <4> QED BY <4>1, <4>2, <4>3, <4>4, RefKinds
    <3> HIDE DEF R, S, v
    <3>3. CASE a = b
      <4>1. R = {}
        BY <2>1, <3>1, <3>3, NoCountNoReference DEF RuntimeInv
      <4>2. S \subseteq {v}
        BY <3>2, <4>1
      <4>3. IsFiniteSet({v}) /\ Cardinality({v}) = 1
        BY FS_Singleton
      <4>4. Cardinality(S) <= 1
        BY <4>2, <4>3, CardSubset
      <4>5. Count(a)' = 1
        BY <2>2, <3>3 DEF Count
      <4> QED BY <3>1, <4>4, <4>5
    <3>4. CASE a # b
      <4>1. Count(a)' \in Int /\ Count(a)' >= Count(a)
        BY <2>2, <3>4, HeapType DEF Count
      <4> QED BY <3>1, <3>2, <3>4, <4>1, FewerCounted DEF RuntimeInv
    <3> QED BY <3>3, <3>4
  <2> QED BY <2>2, <2>3, <2>4, <2>5, <2>6 DEF RuntimeInv
<1> QED BY <1>2, <1>3 DEF create_object

\* After the stores of a bifurcation an address has at most one reference more for
\* each half it is, unless a half of some object has begun to point to it.
LEMMA StoredRefs ==
  ASSUME ObjectsTypeOK, NEW s \in owned, NEW l \in Slot, NEW r \in Slot,
         NEW left, NEW right, StoreHalves(s, l, r, left, right), calls = <<>>,
         NEW a,
         \A p \in DOMAIN heap' : heap'[p].left = a => p \in DOMAIN heap /\ heap[p].left = a,
         \A p \in DOMAIN heap' : heap'[p].right = a => p \in DOMAIN heap /\ heap[p].right = a
  PROVE  /\ Cardinality(References(a)') \in Nat
         /\ Cardinality(References(a)) \in Nat
         /\ Cardinality(References(a)') <=
              Cardinality(References(a)) + (IF a = left THEN 1 ELSE 0)
                                         + (IF a = right THEN 1 ELSE 0)
<1> DEFINE R == RefsIn(heap, progvars, owned, Detached, calls, a)
           S == RefsIn(heap', progvars', owned', Detached', calls', a)
           v == <<"variable", s>>
           c == <<"call", 1>>
           vl == <<"variable", l>>
           vr == <<"variable", r>>
           moved == s \in {l, r} /\ progvars[s] = a
           R1 == IF moved THEN (R \ {v}) \cup {c} ELSE R
           R2 == IF a = left THEN R1 \cup {vl} ELSE R1
           R3 == IF a = right THEN R2 \cup {vr} ELSE R2
<1>1. References(a) = R /\ References(a)' = S
  BY RefsAre
<1>2. Detached = {} /\ Detached' = {} /\ owned \subseteq Slot
  <2>1. Detached = {}
    BY DEF Detached
  <2>2. calls' = <<>> \/ calls' = <<Call("free_object", progvars[s])>>
    BY DEF StoreHalves
  <2>3. Detached' = {}
    BY <2>2, FramesAtStart
  <2> QED BY <2>1, <2>3 DEF ObjectsTypeOK
<1>3. IsFiniteSet(R) /\ Cardinality(R) \in Nat
  BY <1>1, RefsFinite
<1>4. moved => v \in R
  BY RefMembers
<1>5. IsFiniteSet(R1) /\ Cardinality(R1) \in Nat /\ Cardinality(R1) <= Cardinality(R)
  <2> HIDE DEF R, v, c, moved
  <2>1. CASE moved
    BY <1>3, <1>4, <2>1, CardMove
  <2>2. CASE ~ moved
    BY <1>3, <2>2
  <2> QED BY <2>1, <2>2
<1>6. /\ IsFiniteSet(R2) /\ Cardinality(R2) \in Nat
      /\ Cardinality(R2) <= Cardinality(R1) + (IF a = left THEN 1 ELSE 0)
  <2> HIDE DEF R1, vl
  <2>1. CASE a = left
    <3>1. /\ IsFiniteSet(R1 \cup {vl})
          /\ Cardinality(R1 \cup {vl}) \in Nat
          /\ Cardinality(R1 \cup {vl}) <= Cardinality(R1) + 1
      BY <1>5, CardAdd
    <3> QED BY <2>1, <3>1
  <2>2. CASE a # left
    BY <1>5, <2>2
  <2> QED BY <2>1, <2>2
<1>7. /\ IsFiniteSet(R3) /\ Cardinality(R3) \in Nat
      /\ Cardinality(R3) <= Cardinality(R2) + (IF a = right THEN 1 ELSE 0)
  <2> HIDE DEF R2, vr
  <2>1. CASE a = right
    <3>1. /\ IsFiniteSet(R2 \cup {vr})
          /\ Cardinality(R2 \cup {vr}) \in Nat
          /\ Cardinality(R2 \cup {vr}) <= Cardinality(R2) + 1
      BY <1>6, CardAdd
    <3> QED BY <2>1, <3>1
  <2>2. CASE a # right
    BY <1>6, <2>2
  <2> QED BY <2>1, <2>2
<1>8. ASSUME NEW t \in S PROVE t \in R3
  <2>1. CASE \E q \in owned' : t = <<"variable", q>>
    <3>1. PICK q \in owned' : t = <<"variable", q>>
      BY <2>1
    <3>2. progvars'[q] = a
      BY <3>1, RefMembers
    <3>3. q \in owned \cup {l, r}
      BY DEF StoreHalves
    <3>4. CASE q = r
      <4>1. a = right
        BY <3>2, <3>4 DEF StoreHalves, ObjectsTypeOK
      <4> QED BY <3>1, <3>4, <4>1
    <3>5. CASE q = l /\ q # r
      <4>1. a = left
        BY <3>2, <3>5 DEF StoreHalves, ObjectsTypeOK
      <4>2. t = vl
        BY <3>1, <3>5
      <4> HIDE DEF R1, vl, vr
      <4> QED BY <4>1, <4>2
    <3>6. CASE q # l /\ q # r
      <4>1. q \in owned /\ progvars[q] = a
        BY <1>2, <3>2, <3>3, <3>6 DEF StoreHalves, ObjectsTypeOK
      <4>2. t \in R
        BY <3>1, <4>1, RefMembers
      <4>3. moved => t # v
        BY <3>1, <3>6
      <4> HIDE DEF R, v, c, vl, vr, moved
      <4> QED BY <4>2, <4>3
    <3> QED BY <3>4, <3>5, <3>6
  <2>2. CASE \E q \in DOMAIN heap' : t = <<"left", q>>
    <3>1. t \in R
      BY <1>2, <2>2, RefMembers
    <3>2. t # v
      BY <2>2
    <3> HIDE DEF R, v, c, vl, vr, moved
    <3> QED BY <3>1, <3>2
  <2>3. CASE \E q \in DOMAIN heap' : t = <<"right", q>>
    <3>1. t \in R
      BY <1>2, <2>3, RefMembers
    <3>2. t # v
      BY <2>3
    <3> HIDE DEF R, v, c, vl, vr, moved
    <3> QED BY <3>1, <3>2
  <2>4. CASE \E i \in 1 .. Len(calls') : t = <<"call", i>>
    <3>1. PICK i \in 1 .. Len(calls') : t = <<"call", i>>
      BY <2>4
    <3>2. calls' # <<>>
      BY <3>1
    <3>3. s \in {l, r} /\ calls' = <<Call("free_object", progvars[s])>>
      BY <3>2 DEF StoreHalves
    <3>4. Len(calls') = 1 /\ calls'[1] = Call("free_object", progvars[s])
      BY <3>3
    <3>5. i = 1
      BY <3>1, <3>4
    <3>6. calls'[1] = Call("free_object", a)
      BY <3>1, <3>5, RefMembers
    <3>7. progvars[s] = a
      BY <3>4, <3>6 DEF Call
    <3>8. moved /\ t = c
      BY <3>1, <3>3, <3>5, <3>7
    <3> HIDE DEF R, v, c, vl, vr, moved
    <3> QED BY <3>8
  <2> HIDE DEF R3
  <2> QED BY <2>1, <2>2, <2>3, <2>4, RefKinds
<1>9. Cardinality(S) <= Cardinality(R3) /\ Cardinality(S) \in Nat
  <2> HIDE DEF R3, S
  <2> QED BY <1>7, <1>8, CardSubset
<1> HIDE DEF R, R1, R2, R3, S
<1> QED BY <1>1, <1>3, <1>5, <1>6, <1>7, <1>9

\* The parts of the invariant that the stores of a bifurcation keep by themselves.
LEMMA StoreKeepsFrames ==
  ASSUME ObjectsTypeOK, RuntimeInv, NEW s \in owned, NEW l \in Slot, NEW r \in Slot,
         NEW left, NEW right, left # Null, right # Null,
         StoreHalves(s, l, r, left, right)
  PROVE  /\ FreesUnique' /\ KillsHeld' /\ OwnedStored'
         /\ status' = status
         /\ owned' = owned \cup {l, r}
         /\ \A q \in Slot \ {l, r} : progvars'[q] = progvars[q]
<1>1. calls' = <<>> \/ calls' = <<Call("free_object", progvars[s])>>
  BY DEF StoreHalves
<1>2. FreesUnique' /\ KillsHeld'
  BY <1>1, FramesAtStart
<1>3. \A q \in owned' : q = r \/ (q = l /\ q # r) \/ (q \in owned /\ q # l /\ q # r)
  BY DEF StoreHalves
<1>4. /\ progvars'[r] = right
      /\ l # r => progvars'[l] = left
      /\ \A q \in Slot \ {l, r} : progvars'[q] = progvars[q]
  BY DEF StoreHalves, ObjectsTypeOK
<1>5. OwnedStored'
  BY <1>3, <1>4 DEF RuntimeInv, OwnedStored, ObjectsTypeOK
<1> QED BY <1>2, <1>4, <1>5 DEF StoreHalves

\* bifurcate of an owned variable that is no universe keeps it, and both halves are owned
\* afterwards, or the process ended.
LEMMA BifurcateKeeps ==
  ASSUME ObjectsTypeOK, RuntimeInv, NEW s \in owned, NEW l \in Slot, NEW r \in Slot,
         bifurcate(s, l, r),
         ~ (progvars[s] \in DOMAIN heap /\ heap[progvars[s]].type = "universe")
  PROVE  /\ RuntimeInv'
         /\ \/ /\ status' = status /\ owned' = owned \cup {l, r}
               /\ \A q \in Slot \ {l, r} : progvars'[q] = progvars[q]
            \/ Stop("failed")
<1>0. PICK p \in Pointer : p = progvars[s]
  BY DEF ObjectsTypeOK
<1>1. /\ calls = <<>> /\ Detached = {}
      /\ p = universal_dead \/ (p \in DOMAIN heap /\ p \in Addr /\ heap[p].type # "universe")
      /\ universal_dead \notin Addr /\ Null \notin Addr /\ universal_dead # Null
      /\ s \in Slot
  <2>1. calls = <<>>
    BY DEF bifurcate, Ready
  <2>2. Detached = {}
    BY <2>1 DEF Detached
  <2> QED BY <1>0, <2>1, <2>2, OwnedIsCounted, ObjectsAssumption DEF ObjectsAssumption
<1>2. CASE Stop("failed")
  <2>1. RefsCounted'
    BY <1>2, ZenonT(60) DEF Stop, RuntimeInv, RefsCounted, References, Count, Detached
  <2>2. FreesUnique' /\ KillsHeld' /\ OwnedStored'
    BY <1>2 DEF Stop, RuntimeInv, FreesUnique, KillsHeld, OwnedStored
  <2> QED BY <1>2, <2>1, <2>2 DEF RuntimeInv
\* The bound that every case below meets: counts grow by what is stored.
<1>3. ASSUME NEW left, NEW right, NEW a \in Addr,
             Cardinality(References(a)') \in Nat,
             Cardinality(References(a)) \in Nat,
             Cardinality(References(a)') <=
               Cardinality(References(a)) + (IF a = left THEN 1 ELSE 0)
                                          + (IF a = right THEN 1 ELSE 0),
             Count(a)' \in Int,
             Count(a)' = Count(a) + (IF a = left THEN 1 ELSE 0)
                                  + (IF a = right THEN 1 ELSE 0)
      PROVE  Cardinality(References(a)') <= Count(a)'
  <2>1. Cardinality(References(a)) <= Count(a)
    BY DEF RuntimeInv, RefsCounted
  <2>2. Count(a) \in Int
    BY HeapType DEF Count
  <2> QED BY <1>3, <2>1, <2>2
<1>4. CASE BifurcateDead(s, l, r)
  <2>1. StoreHalves(s, l, r, universal_dead, universal_dead) /\ heap' = heap
    BY <1>4 DEF BifurcateDead
  <2>2. RefsCounted'
    <3> SUFFICES ASSUME NEW a \in Addr PROVE Cardinality(References(a)') <= Count(a)'
      BY DEF RefsCounted
    <3>1. /\ Cardinality(References(a)') \in Nat
          /\ Cardinality(References(a)) \in Nat
          /\ Cardinality(References(a)') <=
               Cardinality(References(a)) + (IF a = universal_dead THEN 1 ELSE 0)
                                          + (IF a = universal_dead THEN 1 ELSE 0)
      BY <1>1, <2>1, StoredRefs
    <3>2. a # universal_dead
      BY <1>1
    <3>3. Count(a)' = Count(a) /\ Count(a) \in Int
      BY <2>1, HeapType DEF Count
    <3>4. Cardinality(References(a)) <= Count(a)
      BY DEF RuntimeInv, RefsCounted
    <3> QED BY <3>1, <3>2, <3>3, <3>4
  <2> QED BY <1>1, <2>1, <2>2, StoreKeepsFrames DEF RuntimeInv
<1>5. CASE BifurcateAgain(s, l, r)
  <2>1. PICK left \in Pointer, right \in Pointer :
          left = heap[p].left /\ right = heap[p].right
    BY <1>0, <1>5, HeapType DEF BifurcateAgain
  <2>2. /\ StoreHalves(s, l, r, left, right)
        /\ heap' = Retained(left, right)
        /\ left # Null /\ right # Null
        /\ ~ Dangling(left) /\ ~ Dangling(right)
    BY <1>0, <1>5, <2>1 DEF BifurcateAgain
  <2>3. /\ DOMAIN heap' = DOMAIN heap
        /\ \A q \in DOMAIN heap :
             /\ heap'[q].left = heap[q].left
             /\ heap'[q].right = heap[q].right
             /\ heap'[q].refcount = heap[q].refcount + (IF q = left THEN 1 ELSE 0)
                                                     + (IF q = right THEN 1 ELSE 0)
    <3>1. DOMAIN heap' = DOMAIN heap
      BY <2>2 DEF Retained
    <3>2. ASSUME NEW q \in DOMAIN heap
          PROVE  /\ heap'[q].left = heap[q].left
                 /\ heap'[q].right = heap[q].right
                 /\ heap'[q].refcount = heap[q].refcount + (IF q = left THEN 1 ELSE 0)
                                                         + (IF q = right THEN 1 ELSE 0)
      <4>1. heap'[q] = [heap[q] EXCEPT !.refcount = @ + (IF q = left THEN 1 ELSE 0)
                                                      + (IF q = right THEN 1 ELSE 0)]
        BY <2>2 DEF Retained
      <4>2. heap[q] \in Object
        BY HeapType
      <4> QED BY <4>1, <4>2 DEF Object
    <3> QED BY <3>1, <3>2
  <2>4. RefsCounted'
    <3> SUFFICES ASSUME NEW a \in Addr PROVE Cardinality(References(a)') <= Count(a)'
      BY DEF RefsCounted
    <3>1. /\ Cardinality(References(a)') \in Nat
          /\ Cardinality(References(a)) \in Nat
          /\ Cardinality(References(a)') <=
               Cardinality(References(a)) + (IF a = left THEN 1 ELSE 0)
                                          + (IF a = right THEN 1 ELSE 0)
      BY <1>1, <2>2, <2>3, StoredRefs
    <3>2. /\ Count(a)' \in Int
          /\ Count(a)' = Count(a) + (IF a = left THEN 1 ELSE 0)
                                  + (IF a = right THEN 1 ELSE 0)
      <4>1. CASE a \in DOMAIN heap
        BY <2>3, <4>1, HeapType DEF Count
      <4>2. CASE a \notin DOMAIN heap
        BY <2>2, <2>3, <4>2 DEF Count, Dangling
      <4> QED BY <4>1, <4>2
    <3> QED BY <1>3, <3>1, <3>2
  <2> QED BY <2>2, <2>4, StoreKeepsFrames DEF RuntimeInv
<1>6. CASE BifurcateFirst(s, l, r)
  <2>1. PICK left \in Unused, right \in Unused :
          /\ left # right
          /\ heap' = [x \in DOMAIN heap \cup {left, right} |->
                        CASE x = left -> LeftHalf(p)
                          [] x = right -> RightHalf(p)
                          [] x = p -> [heap[p] EXCEPT !.left = left, !.right = right]
                          [] OTHER -> heap[x]]
          /\ StoreHalves(s, l, r, left, right)
    <3> DEFINE Made(x) ==
                 \E a, b \in Unused :
                   /\ a # b
                   /\ heap' = [y \in DOMAIN heap \cup {a, b} |->
                                 CASE y = a -> LeftHalf(x)
                                   [] y = b -> RightHalf(x)
                                   [] y = x -> [heap[x] EXCEPT !.left = a, !.right = b]
                                   [] OTHER -> heap[y]]
                   /\ StoreHalves(s, l, r, a, b)
    <3>1. Made(progvars[s])
      BY <1>6, Zenon DEF BifurcateFirst
    <3> HIDE DEF Made
    <3>2. Made(p)
      BY <1>0, <3>1
    <3> USE DEF Made
    <3> QED BY <3>2, Zenon
  <2>2. /\ p \in DOMAIN heap /\ heap[p].left = Null /\ heap[p].right = Null
        /\ left \in Addr /\ right \in Addr /\ left \notin DOMAIN heap
        /\ right \notin DOMAIN heap /\ left # Null /\ right # Null
        /\ p # left /\ p # right
    BY <1>0, <1>1, <1>6 DEF BifurcateFirst, Unused
  <2>3. /\ DOMAIN heap' = DOMAIN heap \cup {left, right}
        /\ heap'[left] = LeftHalf(p)
        /\ heap'[right] = RightHalf(p)
        /\ heap'[p] = [heap[p] EXCEPT !.left = left, !.right = right]
        /\ \A q \in DOMAIN heap : q # p => heap'[q] = heap[q]
    BY <2>1, <2>2
  <2>4. /\ heap'[left].left = Null /\ heap'[left].right = Null
        /\ heap'[left].refcount = 2
        /\ heap'[right].left = Null /\ heap'[right].right = Null
        /\ heap'[right].refcount = 2
        /\ heap'[p].left = left /\ heap'[p].right = right
        /\ heap'[p].refcount = heap[p].refcount
    <3>1. heap[p] \in Object
      BY <2>2, HeapType
    <3>2. /\ heap'[p].left = left /\ heap'[p].right = right
          /\ heap'[p].refcount = heap[p].refcount
      BY <2>3, <3>1 DEF Object
    <3>3. /\ LeftHalf(p).left = Null /\ LeftHalf(p).right = Null
          /\ LeftHalf(p).refcount = 2
      BY DEF LeftHalf, NewObject
    <3>4. /\ RightHalf(p).left = Null /\ RightHalf(p).right = Null
          /\ RightHalf(p).refcount = 2
      BY DEF RightHalf, NewObject
    <3> QED BY <2>3, <3>2, <3>3, <3>4
  <2>5. ASSUME NEW a \in Addr, a # left, a # right
        PROVE  Cardinality(References(a)') <= Count(a)'
    <3>1. ASSUME NEW q \in DOMAIN heap'
          PROVE  /\ heap'[q].left = a => q \in DOMAIN heap /\ heap[q].left = a
                 /\ heap'[q].right = a => q \in DOMAIN heap /\ heap[q].right = a
      <4>1. a # Null
        BY <1>1
      <4>2. CASE q = left
        BY <2>4, <4>1, <4>2
      <4>3. CASE q = right
        BY <2>4, <4>1, <4>3
      <4>4. CASE q = p
        BY <2>4, <2>5, <4>4
      <4>5. CASE q \in DOMAIN heap /\ q # p
        BY <2>3, <4>5
      <4> QED BY <2>3, <4>2, <4>3, <4>4, <4>5
    <3>2. /\ Cardinality(References(a)') \in Nat
          /\ Cardinality(References(a)) \in Nat
          /\ Cardinality(References(a)') <=
               Cardinality(References(a)) + (IF a = left THEN 1 ELSE 0)
                                          + (IF a = right THEN 1 ELSE 0)
      BY <1>1, <2>1, <3>1, StoredRefs
    <3>3. Count(a)' = Count(a) /\ Count(a) \in Int
      <4>1. CASE a \in DOMAIN heap
        <5>1. heap'[a].refcount = heap[a].refcount /\ a \in DOMAIN heap'
          BY <2>3, <2>4, <4>1
        <5> QED BY <4>1, <5>1, HeapType DEF Count
      <4>2. CASE a \notin DOMAIN heap
        <5>1. a \notin DOMAIN heap'
          BY <2>3, <2>5, <4>2
        <5> QED BY <4>2, <5>1 DEF Count
      <4> QED BY <4>1, <4>2
    <3>4. Cardinality(References(a)) <= Count(a)
      BY DEF RuntimeInv, RefsCounted
    <3> QED BY <2>5, <3>2, <3>3, <3>4
  \* A half that was made now has the two references its count starts with.
  <2>6. ASSUME NEW a \in {left, right}
        PROVE  Cardinality(References(a)') <= Count(a)'
    <3> DEFINE R == RefsIn(heap, progvars, owned, Detached, calls, a)
               S == RefsIn(heap', progvars', owned', Detached', calls', a)
               v == <<"variable", IF a = left THEN l ELSE r>>
               h == IF a = left THEN <<"left", p>> ELSE <<"right", p>>
    <3>1. R = {} /\ References(a)' = S
      BY <2>2, <2>6, RefsAre, NoCountNoReference DEF RuntimeInv
    <3>8. /\ \A q \in owned : progvars[q] # a
          /\ \A q \in DOMAIN heap : heap[q].left # a /\ heap[q].right # a
      <4>1. /\ \A q : ~ (q \in owned /\ progvars[q] = a)
            /\ \A q : ~ (q \in DOMAIN heap /\ q \notin Detached /\ heap[q].left = a)
            /\ \A q : ~ (q \in DOMAIN heap /\ q \notin Detached /\ heap[q].right = a)
        <5>1. /\ \A q : <<"variable", q>> \in R <=> q \in owned /\ progvars[q] = a
              /\ \A q : <<"left", q>> \in R
                         <=> q \in DOMAIN heap /\ q \notin Detached /\ heap[q].left = a
              /\ \A q : <<"right", q>> \in R
                         <=> q \in DOMAIN heap /\ q \notin Detached /\ heap[q].right = a
          BY RefMembers
        <5> HIDE DEF R
        <5> QED BY <3>1, <5>1
      <4> QED BY <1>1, <4>1
    <3>2. ASSUME NEW t \in S PROVE t = v \/ t = h
      <4>1. CASE \E q \in owned' : t = <<"variable", q>>
        <5>1. PICK q \in owned' : t = <<"variable", q>> /\ progvars'[q] = a
          BY <4>1, RefMembers
        <5>2. q \in owned \/ q = l \/ q = r
          BY <2>1 DEF StoreHalves
        <5>3. /\ progvars'[r] = right /\ (l # r => progvars'[l] = left)
              /\ q \in owned /\ q # l /\ q # r => progvars'[q] = progvars[q]
          BY <2>1 DEF StoreHalves, ObjectsTypeOK
        <5>4. CASE q = r
          BY <2>1, <2>6, <5>1, <5>3, <5>4
        <5>5. CASE q = l /\ q # r
          BY <2>1, <2>6, <5>1, <5>3, <5>5
        <5>6. CASE q \in owned /\ q # l /\ q # r
          BY <3>8, <5>1, <5>3, <5>6
        <5> QED BY <5>2, <5>4, <5>5, <5>6
      <4>2. CASE \E q \in DOMAIN heap' : t = <<"left", q>>
        <5>1. PICK q \in DOMAIN heap' : t = <<"left", q>> /\ heap'[q].left = a
          BY <4>2, RefMembers
        <5>2. q # left /\ q # right
          BY <2>2, <2>4, <2>6, <5>1
        <5>3. q = p
          BY <2>3, <3>8, <5>1, <5>2
        <5> QED BY <2>1, <2>4, <2>6, <5>1, <5>3
      <4>3. CASE \E q \in DOMAIN heap' : t = <<"right", q>>
        <5>1. PICK q \in DOMAIN heap' : t = <<"right", q>> /\ heap'[q].right = a
          BY <4>3, RefMembers
        <5>2. q # left /\ q # right
          BY <2>2, <2>4, <2>6, <5>1
        <5>3. q = p
          BY <2>3, <3>8, <5>1, <5>2
        <5> QED BY <2>1, <2>4, <2>6, <5>1, <5>3
      <4>4. CASE \E i \in 1 .. Len(calls') : t = <<"call", i>>
        <5>1. PICK i \in 1 .. Len(calls') :
                t = <<"call", i>> /\ calls'[i] = Call("free_object", a)
          BY <4>4, RefMembers
        <5>2. calls' = <<Call("free_object", p)>>
          BY <1>0, <2>1, <5>1 DEF StoreHalves
        <5>3. Call("free_object", a) = Call("free_object", p)
          BY <5>1, <5>2
        <5> QED BY <2>2, <2>6, <5>3 DEF Call
      <4> HIDE DEF v, h, R
      <4> QED BY <4>1, <4>2, <4>3, <4>4, RefKinds
    <3> HIDE DEF S, v, h
    <3>3. IsFiniteSet({v}) /\ Cardinality({v}) = 1
      BY FS_Singleton
    <3>4. IsFiniteSet({v} \cup {h}) /\ Cardinality({v} \cup {h}) \in Nat
          /\ Cardinality({v} \cup {h}) <= 2
      <4> DEFINE A == {v}
      <4>1. IsFiniteSet(A) /\ Cardinality(A) = 1
        BY <3>3
      <4> HIDE DEF A
      <4>2. /\ IsFiniteSet(A \cup {h}) /\ Cardinality(A \cup {h}) \in Nat
            /\ Cardinality(A \cup {h}) <= Cardinality(A) + 1
        BY <4>1, CardAdd
      <4>3. /\ IsFiniteSet(A \cup {h}) /\ Cardinality(A \cup {h}) \in Nat
            /\ Cardinality(A \cup {h}) <= 2
        BY <4>1, <4>2
      <4> QED BY <4>3 DEF A
    <3>5. S \subseteq {v} \cup {h}
      BY <3>2
    <3>6. Cardinality(S) <= Cardinality({v} \cup {h}) /\ Cardinality(S) \in Nat
      BY <3>4, <3>5, CardSubset
    <3>7. Count(a)' = 2
      BY <2>3, <2>4, <2>6 DEF Count
    <3> QED BY <3>1, <3>4, <3>6, <3>7
  <2>7. RefsCounted'
    BY <2>5, <2>6 DEF RefsCounted
  <2> QED BY <2>1, <2>2, <2>7, StoreKeepsFrames DEF RuntimeInv
<1>7. CASE BifurcateFails(s)
  BY <1>2, <1>7 DEF BifurcateFails
\* The halves of an attached object are counted, so they are there.
<1>8. ~ BifurcateFault(s)
  <2>1. ~ Dangling(p)
    BY <1>1 DEF Dangling
  <2>2. ASSUME p \in DOMAIN heap
        PROVE  ~ Dangling(heap[p].left) /\ ~ Dangling(heap[p].right)
    <3>1. <<"left", p>> \in References(heap[p].left)
      BY <1>1, <2>2, RefsAre, RefMembers
    <3>2. <<"right", p>> \in References(heap[p].right)
      BY <1>1, <2>2, RefsAre, RefMembers
    <3> QED BY <3>1, <3>2, ReferredIsCounted DEF RuntimeInv, Dangling
  <2> QED BY <1>0, <1>1, <2>1, <2>2 DEF BifurcateFault
<1> QED BY <1>4, <1>5, <1>6, <1>7, <1>2, <1>8 DEF bifurcate, BifurcateFails

=============================================================================
