------------------------------ MODULE LeakProofs ------------------------------
(***************************************************************************)
(* A compiled program with none of the hazardous shapes leaks nothing:     *)
(* whenever no grave is at work, every object it has allocated can still   *)
(* be reached from a variable.                                             *)
(***************************************************************************)
EXTENDS HeapProofs

(***************************************************************************)
(* Numbers of references, from below.                                      *)
(***************************************************************************)

\* The references to an address are finite in number after a step, too.
LEMMA NextRefsFinite ==
  ASSUME ObjectsTypeOK', NEW a
  PROVE  /\ IsFiniteSet(References(a)')
         /\ Cardinality(References(a)') \in Nat
<1>1. IsFiniteSet(owned')
  <2>1. 0 \in Int /\ NumVars - 1 \in Int
    BY ObjectsAssumption DEF ObjectsAssumption
  <2>2. IsFiniteSet(Slot)
    BY <2>1, FS_Interval DEF Slot
  <2> QED BY <2>2, FS_Subset DEF ObjectsTypeOK
<1>2. IsFiniteSet(DOMAIN heap')
  BY ObjectsAssumption, FS_Subset DEF ObjectsTypeOK, ObjectsAssumption
<1>3. Len(calls') \in Nat
  BY LenProperties DEF ObjectsTypeOK
<1>4. IsFiniteSet(RefsIn(heap', progvars', owned', Detached', calls', a))
  BY <1>1, <1>2, <1>3, RefsInFinite
<1> QED BY <1>4, RefsAre, FS_CardinalityType

\* A token that is lost is made up for by one that is new.
LEMMA CardExchange ==
  ASSUME NEW S, IsFiniteSet(S), NEW T, IsFiniteSet(T), NEW x, NEW y,
         S \ {x} \subseteq T, x \in S => y \in T, y \notin S
  PROVE  Cardinality(S) <= Cardinality(T)
<1>1. CASE x \in S
  <2>1. /\ IsFiniteSet(S \ {x}) /\ Cardinality(S \ {x}) = Cardinality(S) - 1
        /\ Cardinality(S) \in Nat
    BY <1>1, CardRemove
  <2>2. Cardinality((S \ {x}) \cup {y}) = Cardinality(S \ {x}) + 1
    BY <2>1, FS_AddElement
  <2>3. (S \ {x}) \cup {y} \subseteq T
    BY <1>1
  <2>4. Cardinality((S \ {x}) \cup {y}) <= Cardinality(T)
    BY <2>3, CardSubset
  <2>5. Cardinality(T) \in Nat
    BY FS_CardinalityType
  <2> QED BY <2>1, <2>2, <2>4, <2>5
<1>2. CASE x \notin S
  <2>1. S \subseteq T
    BY <1>2
  <2> QED BY <2>1, CardSubset
<1> QED BY <1>1, <1>2

\* So are two.
LEMMA CardExchangeTwo ==
  ASSUME NEW S, IsFiniteSet(S), NEW T, IsFiniteSet(T),
         NEW x, NEW y, NEW u, NEW v, S \ {x, u} \subseteq T, y # v, u # y,
         x \in S => y \in T, u \in S => v \in T, y \notin S, v \notin S
  PROVE  Cardinality(S) <= Cardinality(T)
<1> DEFINE S1 == IF x \in S THEN (S \ {x}) \cup {y} ELSE S
<1>1. IsFiniteSet(S1) /\ Cardinality(S) <= Cardinality(S1)
  <2>1. CASE x \in S
    <3>1. IsFiniteSet((S \ {x}) \cup {y})
      BY <2>1, CardMove
    <3>2. Cardinality(S) <= Cardinality((S \ {x}) \cup {y})
      BY <2>1, <3>1, CardExchange
    <3> QED BY <2>1, <3>1, <3>2
  <2>2. CASE x \notin S
    BY <2>2, CardSubset
  <2> QED BY <2>1, <2>2
<1>2. S1 \ {u} \subseteq T /\ (u \in S1 => v \in T) /\ v \notin S1
  OBVIOUS
<1> HIDE DEF S1
<1>3. Cardinality(S1) <= Cardinality(T)
  BY <1>1, <1>2, CardExchange
<1> QED BY <1>1, <1>3, FS_CardinalityType

\* A new token is one more.
LEMMA CardGrow ==
  ASSUME NEW S, NEW T, IsFiniteSet(T), NEW y \in T, y \notin S, S \subseteq T
  PROVE  /\ IsFiniteSet(S) /\ Cardinality(S) \in Nat /\ Cardinality(T) \in Nat
         /\ Cardinality(S) + 1 <= Cardinality(T)
<1>1. IsFiniteSet(S) /\ Cardinality(S) \in Nat /\ Cardinality(T) \in Nat
  BY CardSubset
<1>2. Cardinality(S \cup {y}) = Cardinality(S) + 1
  BY <1>1, FS_AddElement
<1>3. Cardinality(S \cup {y}) <= Cardinality(T)
  <2>1. S \cup {y} \subseteq T
    OBVIOUS
  <2> QED BY <2>1, CardSubset
<1> QED BY <1>1, <1>2, <1>3

(***************************************************************************)
(* The parts of the invariant that many steps keep for one reason.         *)
(***************************************************************************)

\* Where no half is given and no object made, no cycle comes to be.
LEMMA AcyclicKept ==
  ASSUME HalvesAcyclic, DOMAIN heap' \subseteq DOMAIN heap,
         \A p, a \in DOMAIN heap' : a \in {heap'[p].left, heap'[p].right}
                                      => a \in {heap[p].left, heap[p].right}
  PROVE  HalvesAcyclic'
<1> SUFFICES ASSUME NEW S \in (SUBSET DOMAIN heap') \ {{}}
             PROVE  \E a \in S : \A p \in S : a \notin {heap'[p].left, heap'[p].right}
  BY DEF HalvesAcyclic
<1>1. PICK a \in S : \A p \in S : a \notin {heap[p].left, heap[p].right}
  BY DEF HalvesAcyclic
<1> QED BY <1>1

\* No address has more references than it had, and none less: what is counted is there.
LEMMA CountsKept ==
  ASSUME ObjectsTypeOK, ObjectsTypeOK', CountsReferred,
         DOMAIN heap' \subseteq DOMAIN heap,
         \A a \in DOMAIN heap' :
           /\ heap'[a].refcount <= heap[a].refcount
           /\ References(a) \subseteq References(a)'
  PROVE  CountsReferred'
<1> SUFFICES ASSUME NEW a \in DOMAIN heap'
             PROVE  heap'[a].refcount <= Cardinality(References(a)')
  BY DEF CountsReferred
<1>1. IsFiniteSet(References(a)') /\ References(a) \subseteq References(a)'
  BY NextRefsFinite
<1>2. /\ Cardinality(References(a)) <= Cardinality(References(a)')
      /\ Cardinality(References(a)) \in Nat /\ Cardinality(References(a)') \in Nat
  BY <1>1, CardSubset
<1>3. heap[a].refcount <= Cardinality(References(a)) /\ heap[a].refcount \in Int
  BY HeapType DEF CountsReferred
<1>4. heap'[a].refcount \in Int
  BY DEF ObjectsTypeOK, Object
<1> QED BY <1>2, <1>3, <1>4

\* The references that a step leaves alone, those outside T, are there after it.
LEMMA RefsSurvive ==
  ASSUME NEW a, NEW T,
         \A s \in owned : progvars[s] = a /\ <<"variable", s>> \notin T
           => s \in owned' /\ progvars'[s] = a,
         \A q \in DOMAIN heap : q \notin Detached /\ heap[q].left = a /\ <<"left", q>> \notin T
           => q \in DOMAIN heap' /\ q \notin Detached' /\ heap'[q].left = a,
         \A q \in DOMAIN heap : q \notin Detached /\ heap[q].right = a /\ <<"right", q>> \notin T
           => q \in DOMAIN heap' /\ q \notin Detached' /\ heap'[q].right = a,
         \A i \in 1 .. Len(calls) : calls[i] = Call("free_object", a) /\ <<"call", i>> \notin T
           => i \in 1 .. Len(calls') /\ calls'[i] = calls[i]
  PROVE  References(a) \ T \subseteq References(a)'
<1> SUFFICES ASSUME NEW t \in References(a), t \notin T PROVE t \in References(a)'
  OBVIOUS
<1> DEFINE R == RefsIn(heap, progvars, owned, Detached, calls, a)
           S == RefsIn(heap', progvars', owned', Detached', calls', a)
<1>1. References(a) = R /\ References(a)' = S
  BY RefsAre
<1>2. CASE \E s \in owned : t = <<"variable", s>>
  BY <1>1, <1>2, RefMembers
<1>3. CASE \E q \in DOMAIN heap : t = <<"left", q>>
  BY <1>1, <1>3, RefMembers
<1>4. CASE \E q \in DOMAIN heap : t = <<"right", q>>
  BY <1>1, <1>4, RefMembers
<1>5. CASE \E i \in 1 .. Len(calls) : t = <<"call", i>>
  <2>1. PICK i \in 1 .. Len(calls) : t = <<"call", i>>
    BY <1>5
  <2>2. calls[i] = Call("free_object", a)
    BY <1>1, <2>1, RefMembers
  <2>3. i \in 1 .. Len(calls') /\ calls'[i] = Call("free_object", a)
    BY <2>1, <2>2
  <2> QED BY <1>1, <2>1, <2>3, RefMembers
<1> HIDE DEF R, S
<1> QED BY <1>1, <1>2, <1>3, <1>4, <1>5, RefKinds DEF R

(***************************************************************************)
(* The steps inside the runtime.                                           *)
(***************************************************************************)

\* unlink takes no reference away: its object was detached.
LEMMA UnlinkExact ==
  ASSUME ObjectsTypeOK, ObjectsTypeOK', RuntimeInv, ExactInv, unlink
  PROVE  ExactInv'
<1>0. /\ InRuntime /\ Top.fn = "unlink"
      /\ calls # <<>> /\ calls \in Seq(Frame)
  BY DEF unlink, InRuntime, ObjectsTypeOK
<1>a. Len(calls) \in Nat \ {0} /\ Top.obj \in Pointer
  BY <1>0, StackProperties
<1>b. PICK p \in Pointer : p = Top.obj
  BY <1>a
<1>c. PICK n \in Nat : n = Len(calls) - 1
  BY <1>a
<1>1. /\ Len(Return) = n
      /\ \A i \in 1 .. n : Return[i] = calls[i]
      /\ n <= Len(calls) /\ n + 1 = Len(calls)
  BY <1>0, <1>c, StackProperties
<1>2. p \in DOMAIN heap
  BY <1>0, <1>1, <1>b, KilledIsCounted DEF Top
<1>3. /\ DOMAIN heap' = DOMAIN heap /\ calls' = Return
      /\ UNCHANGED <<progvars, owned, status>>
      /\ \A x \in DOMAIN heap : x # p => heap'[x] = heap[x]
      /\ heap'[p].left = universal_dead /\ heap'[p].right = universal_dead
  BY <1>2, <1>b, UnlinkHeap
<1>4. \A x \in DOMAIN heap : heap'[x].refcount = heap[x].refcount
  <2>1. /\ heap' = [heap EXCEPT ![p] = [heap[p] EXCEPT !.left = universal_dead,
                                                      !.right = universal_dead]]
        /\ heap[p] \in Object
    BY <1>2, <1>b, HeapType DEF unlink, Dangling
  <2>2. heap'[p].refcount = heap[p].refcount
    BY <1>2, <2>1 DEF Object
  <2> QED BY <1>3, <2>2
<1>5. universal_dead \notin DOMAIN heap /\ p \in Detached
  <2>1. universal_dead \notin Addr
    BY ObjectsAssumption DEF ObjectsAssumption
  <2>2. p \in Detached
    BY <1>0, <1>1, <1>b DEF Detached, Top
  <2> QED BY <2>1, <2>2 DEF ObjectsTypeOK
<1>6. HalvesAcyclic'
  BY <1>3, <1>5, AcyclicKept DEF ExactInv
<1>7. Detached' \subseteq Detached
  BY <1>0, <1>3, DetachedBelow
<1>8. ASSUME NEW a \in DOMAIN heap
      PROVE  References(a) \subseteq References(a)'
  <2>1. \A i \in 1 .. Len(calls) : calls[i] = Call("free_object", a)
          => i \in 1 .. Len(calls') /\ calls'[i] = calls[i]
    <3>1. calls[n + 1] # Call("free_object", a)
      BY <1>0, <1>1 DEF Top, Call
    <3> QED BY <1>1, <1>3, <3>1
  <2>2. \A q \in DOMAIN heap : q \notin Detached
          => q \in DOMAIN heap' /\ q \notin Detached' /\ heap'[q] = heap[q]
    BY <1>3, <1>5, <1>7
  <2>3. References(a) \ {} \subseteq References(a)'
    BY <1>3, <2>1, <2>2, RefsSurvive
  <2> QED BY <2>3
<1>9. CountsReferred'
  <2>1. \A a \in DOMAIN heap' : /\ heap'[a].refcount <= heap[a].refcount
                                /\ References(a) \subseteq References(a)'
    BY <1>3, <1>4, <1>8, HeapType
  <2> QED BY <1>3, <2>1, CountsKept DEF ExactInv
<1>10. CountlessFreed'
  <2> SUFFICES ASSUME NEW a \in DOMAIN heap', heap'[a].refcount <= 0
               PROVE  \E i \in 1 .. Len(calls') : calls'[i] = Call("free", a)
    BY DEF CountlessFreed
  <2>1. PICK i \in 1 .. Len(calls) : calls[i] = Call("free", a)
    BY <1>3, <1>4 DEF ExactInv, CountlessFreed
  <2>2. i # n + 1
    BY <1>0, <1>1, <2>1 DEF Top, Call
  <2> QED BY <1>1, <1>3, <2>1, <2>2
<1> QED BY <1>6, <1>9, <1>10 DEF ExactInv

\* free takes no reference away: its object was detached, and nothing refers to it.
LEMMA FreeExact ==
  ASSUME ObjectsTypeOK, ObjectsTypeOK', RuntimeInv, ExactInv, free
  PROVE  ExactInv'
<1>0. /\ InRuntime /\ Top.fn = "free"
      /\ calls # <<>> /\ calls \in Seq(Frame)
  BY DEF free, InRuntime, ObjectsTypeOK
<1>a. Len(calls) \in Nat \ {0} /\ Top.obj \in Pointer
  BY <1>0, StackProperties
<1>b. PICK p \in Pointer : p = Top.obj
  BY <1>a
<1>c. PICK n \in Nat : n = Len(calls) - 1
  BY <1>a
<1>1. /\ Len(Return) = n
      /\ \A i \in 1 .. n : Return[i] = calls[i]
      /\ n <= Len(calls) /\ n + 1 = Len(calls)
  BY <1>0, <1>c, StackProperties
<1>2. p \in DOMAIN heap /\ p \in Detached
  BY <1>0, <1>1, <1>b DEF Top, RuntimeInv, FreesUnique, Detached
<1>3. /\ DOMAIN heap' = DOMAIN heap \ {p} /\ calls' = Return
      /\ UNCHANGED <<progvars, owned, status>>
      /\ \A x \in DOMAIN heap' : heap'[x] = heap[x]
  BY <1>2, <1>b, FreeHeap
<1>4. HalvesAcyclic'
  BY <1>3, AcyclicKept DEF ExactInv
<1>5. Detached' \subseteq Detached
  BY <1>0, <1>3, DetachedBelow
<1>6. ASSUME NEW a \in DOMAIN heap'
      PROVE  References(a) \subseteq References(a)'
  <2>1. \A i \in 1 .. Len(calls) : calls[i] = Call("free_object", a)
          => i \in 1 .. Len(calls') /\ calls'[i] = calls[i]
    <3>1. calls[n + 1] # Call("free_object", a)
      BY <1>0, <1>1 DEF Top, Call
    <3> QED BY <1>1, <1>3, <3>1
  <2>2. \A q \in DOMAIN heap : q \notin Detached
          => q \in DOMAIN heap' /\ q \notin Detached' /\ heap'[q] = heap[q]
    BY <1>2, <1>3, <1>5
  <2>3. References(a) \ {} \subseteq References(a)'
    BY <1>3, <2>1, <2>2, RefsSurvive
  <2> QED BY <2>3
<1>7. CountsReferred'
  <2>1. \A a \in DOMAIN heap' : /\ heap'[a].refcount <= heap[a].refcount
                                /\ References(a) \subseteq References(a)'
    BY <1>3, <1>6, HeapType
  <2> QED BY <1>3, <2>1, CountsKept DEF ExactInv
<1>8. CountlessFreed'
  <2> SUFFICES ASSUME NEW a \in DOMAIN heap', heap'[a].refcount <= 0
               PROVE  \E i \in 1 .. Len(calls') : calls'[i] = Call("free", a)
    BY DEF CountlessFreed
  <2>1. PICK i \in 1 .. Len(calls) : calls[i] = Call("free", a)
    BY <1>3 DEF ExactInv, CountlessFreed
  <2>2. i # n + 1
    BY <1>1, <1>3, <1>b, <2>1 DEF Top, Call
  <2> QED BY <1>1, <1>3, <2>1, <2>2
<1> QED BY <1>4, <1>7, <1>8 DEF ExactInv

\* A cascade moves the references that its object was, and drops only that of the call
\* in frame n + 1.
LEMMA MovedBack ==
  ASSUME ObjectsTypeOK, ObjectsTypeOK', NEW a, NEW n \in Nat, NEW p \in DOMAIN heap,
         progvars' = progvars, owned' = owned,
         Len(calls) \in Nat, Len(calls) <= n + 1, Len(calls') = n + 3,
         \A i \in 1 .. n : calls'[i] = calls[i],
         calls'[n + 2] = Call("free_object", heap[p].right),
         calls'[n + 3] = Call("free_object", heap[p].left),
         DOMAIN heap' = DOMAIN heap,
         \A q \in DOMAIN heap : heap'[q].left = heap[q].left
                                /\ heap'[q].right = heap[q].right,
         Detached' = Detached \cup {p}
  PROVE  /\ Cardinality(References(a) \ {<<"call", n + 1>>}) <= Cardinality(References(a)')
<1> DEFINE S == References(a)
           T == References(a)'
           R == RefsIn(heap, progvars, owned, Detached, calls, a)
           U == RefsIn(heap', progvars', owned', Detached', calls', a)
           lp == <<"left", p>>
           rp == <<"right", p>>
           cl == <<"call", n + 3>>
           cr == <<"call", n + 2>>
           c1 == <<"call", n + 1>>
<1>1. S = R /\ T = U
  BY RefsAre
<1>2. IsFiniteSet(S \ {c1}) /\ IsFiniteSet(T)
  BY RefsFinite, NextRefsFinite, FS_Subset
<1>3. S \ {lp, rp, c1} \subseteq T
  <2>1. \A i \in 1 .. Len(calls) : <<"call", i>> \notin {lp, rp, c1} => i \in 1 .. n
    OBVIOUS
  <2>2. \A q \in DOMAIN heap : <<"left", q>> \notin {lp, rp, c1} => q # p
    OBVIOUS
  <2>3. \A q \in DOMAIN heap : <<"right", q>> \notin {lp, rp, c1} => q # p
    OBVIOUS
  <2>4. \A i \in 1 .. n : i \in 1 .. Len(calls')
    OBVIOUS
  <2> HIDE DEF lp, rp, c1
  <2> QED BY <2>1, <2>2, <2>3, <2>4, RefsSurvive
<1>4. lp \in S => cl \in T
  <2>1. lp \in S => heap[p].left = a
    BY <1>1, RefMembers
  <2>2. n + 3 \in 1 .. Len(calls')
    OBVIOUS
  <2> QED BY <1>1, <2>1, <2>2, RefMembers
<1>5. rp \in S => cr \in T
  <2>1. rp \in S => heap[p].right = a
    BY <1>1, RefMembers
  <2>2. n + 2 \in 1 .. Len(calls')
    OBVIOUS
  <2> QED BY <1>1, <2>1, <2>2, RefMembers
<1>6. cl \notin S /\ cr \notin S
  <2>1. n + 3 \notin 1 .. Len(calls) /\ n + 2 \notin 1 .. Len(calls)
    OBVIOUS
  <2> QED BY <1>1, <2>1, RefMembers
<1>7. cl # cr /\ rp # cl /\ lp # c1 /\ rp # c1
  OBVIOUS
<1> DEFINE W == S \ {c1}
<1>8. /\ IsFiniteSet(W) /\ W \ {lp, rp} \subseteq T /\ (lp \in W => cl \in T)
      /\ (rp \in W => cr \in T) /\ cl \notin W /\ cr \notin W
  <2> HIDE DEF S, T, lp, rp, cl, cr, c1
  <2> QED BY <1>2, <1>3, <1>4, <1>5, <1>6
<1> HIDE DEF W, T, lp, rp, cl, cr
<1>9. Cardinality(W) <= Cardinality(T)
  BY <1>2, <1>7, <1>8, CardExchangeTwo
<1> QED BY <1>9 DEF W, T

\* free_object drops the reference that it counts down, and no other.
LEMMA FreeObjectExact ==
  ASSUME ObjectsTypeOK, ObjectsTypeOK', RuntimeInv, ExactInv, free_object
  PROVE  ExactInv'
<1>0. /\ InRuntime /\ Top.fn = "free_object"
      /\ calls # <<>> /\ calls \in Seq(Frame)
  BY DEF free_object, InRuntime, ObjectsTypeOK
<1>a. Len(calls) \in Nat \ {0} /\ Top.obj \in Pointer
  BY <1>0, StackProperties
<1>b. PICK p \in Pointer : p = Top.obj
  BY <1>a
<1>c. PICK n \in Nat : n = Len(calls) - 1
  BY <1>a
<1>1. /\ Return \in Seq(Frame) /\ Len(Return) = n
      /\ \A i \in 1 .. n : Return[i] = calls[i]
      /\ n <= Len(calls) /\ n + 1 = Len(calls) /\ Len(calls) <= n + 1
      /\ Len(calls) \in Nat
  BY <1>0, <1>c, StackProperties
<1>2. ~ Dangling(p)
  BY <1>0, <1>b, ReleasedIsCounted DEF Dangling
<1> DEFINE c == <<"call", n + 1>>
<1>3. \A a : a # p => c \notin References(a)
  <2>1. \A a : calls[n + 1] = Call("free_object", a) => a = p
    BY <1>1, <1>b DEF Top, Call
  <2> QED BY <2>1, RefsAre, RefMembers
\* Of what is not lost but c, enough is there for the counts.
<1>4. ASSUME NEW a \in DOMAIN heap,
             Cardinality(References(a) \ {c}) <= Cardinality(References(a)'),
             a # p => heap'[a].refcount = heap[a].refcount,
             a = p => heap'[a].refcount = heap[a].refcount - 1 /\ c \in References(a)
      PROVE  heap'[a].refcount <= Cardinality(References(a)')
  <2>1. IsFiniteSet(References(a)) /\ Cardinality(References(a)) \in Nat
    BY RefsFinite
  <2>2. Cardinality(References(a)') \in Nat
    BY NextRefsFinite
  <2>3. heap[a].refcount <= Cardinality(References(a)) /\ heap[a].refcount \in Int
    BY HeapType DEF ExactInv, CountsReferred
  <2>4. CASE a = p
    <3> HIDE DEF c
    <3>1. Cardinality(References(a) \ {c}) = Cardinality(References(a)) - 1
      BY <1>4, <2>1, <2>4, CardRemove
    <3> QED BY <1>4, <2>1, <2>2, <2>3, <2>4, <3>1
  <2>5. CASE a # p
    <3>1. References(a) \ {c} = References(a)
      BY <1>3, <2>5
    <3> QED BY <1>4, <2>1, <2>2, <2>3, <2>5, <3>1
  <2> QED BY <2>4, <2>5
\* The call returns: only c is lost.
<1>5. ASSUME calls' = Return, progvars' = progvars, owned' = owned,
             DOMAIN heap' = DOMAIN heap,
             \A q \in DOMAIN heap : heap'[q].left = heap[q].left
                                    /\ heap'[q].right = heap[q].right,
             NEW a
      PROVE  Cardinality(References(a) \ {c}) <= Cardinality(References(a)')
  <2>1. Detached' = Detached
    BY <1>0, <1>5, DetachedBelow
  <2>2. \A i \in 1 .. Len(calls) : <<"call", i>> \notin {c}
          => i \in 1 .. Len(calls') /\ calls'[i] = calls[i]
    BY <1>1, <1>5
  <2> HIDE DEF c
  <2>3. References(a) \ {c} \subseteq References(a)'
    BY <1>5, <2>1, <2>2, RefsSurvive
  <2> QED BY <2>3, NextRefsFinite, CardSubset
\* A frame that frees an object is not the one that returns.
<1>6. ASSUME NEW a, NEW i \in 1 .. Len(calls), calls[i] = Call("free", a)
      PROVE  i \in 1 .. n
  BY <1>0, <1>1, <1>6 DEF Top, Call
<1>7. ASSUME p \in {Null, universal_dead}, calls' = Return,
             UNCHANGED <<heap, progvars, owned, status>>
      PROVE  ExactInv'
  <2>1. HalvesAcyclic'
    BY <1>7 DEF ExactInv, HalvesAcyclic
  <2>2. p \notin DOMAIN heap
    BY <1>7, ObjectsAssumption DEF ObjectsAssumption, ObjectsTypeOK
  <2>3. CountsReferred'
    <3> SUFFICES ASSUME NEW a \in DOMAIN heap'
                 PROVE  heap'[a].refcount <= Cardinality(References(a)')
      BY DEF CountsReferred
    <3>1. Cardinality(References(a) \ {c}) <= Cardinality(References(a)')
      BY <1>5, <1>7
    <3> QED BY <1>4, <1>7, <2>2, <3>1
  <2>4. CountlessFreed'
    <3> SUFFICES ASSUME NEW a \in DOMAIN heap, heap[a].refcount <= 0
                 PROVE  \E i \in 1 .. Len(calls') : calls'[i] = Call("free", a)
      BY <1>7 DEF CountlessFreed
    <3>1. PICK i \in 1 .. Len(calls) : calls[i] = Call("free", a)
      BY DEF ExactInv, CountlessFreed
    <3> QED BY <1>1, <1>6, <1>7, <3>1
  <2> QED BY <2>1, <2>3, <2>4 DEF ExactInv
<1>8. ASSUME p \in DOMAIN heap, heap' = [heap EXCEPT ![p].refcount = @ - 1]
      PROVE  /\ DOMAIN heap' = DOMAIN heap
             /\ \A q \in DOMAIN heap : /\ heap'[q].left = heap[q].left
                                       /\ heap'[q].right = heap[q].right
                                       /\ q # p => heap'[q].refcount = heap[q].refcount
             /\ heap'[p].refcount = heap[p].refcount - 1
             /\ heap[p].refcount \in Int
             /\ c \in References(p)
             /\ HalvesAcyclic'
  <2>1. /\ \A q \in DOMAIN heap : heap[q] \in Object
        /\ p \in Addr /\ heap[p].refcount \in Int
    BY <1>8, HeapType
  <2>2. /\ DOMAIN heap' = DOMAIN heap
        /\ heap'[p] = [heap[p] EXCEPT !.refcount = @ - 1]
        /\ \A q \in DOMAIN heap : q # p => heap'[q] = heap[q]
    BY <1>8
  <2>3. /\ heap'[p].refcount = heap[p].refcount - 1
        /\ heap'[p].left = heap[p].left /\ heap'[p].right = heap[p].right
    BY <1>8, <2>1, <2>2 DEF Object
  <2>4. c \in References(p)
    BY <1>0, <1>1, <1>b, <2>1, ReleasedIsCounted
  <2>5. HalvesAcyclic'
    BY <2>2, <2>3, AcyclicKept DEF ExactInv
  <2> QED BY <2>1, <2>2, <2>3, <2>4, <2>5
<1>9. ASSUME p \in DOMAIN heap, heap' = [heap EXCEPT ![p].refcount = @ - 1],
             UNCHANGED <<progvars, owned, status>>,
             heap[p].refcount - 1 > 0, calls' = Return
      PROVE  ExactInv'
  <2>1. CountsReferred'
    <3> SUFFICES ASSUME NEW a \in DOMAIN heap'
                 PROVE  heap'[a].refcount <= Cardinality(References(a)')
      BY DEF CountsReferred
    <3>1. Cardinality(References(a) \ {c}) <= Cardinality(References(a)')
      BY <1>5, <1>8, <1>9
    <3> QED BY <1>4, <1>8, <1>9, <3>1
  <2>2. CountlessFreed'
    <3> SUFFICES ASSUME NEW a \in DOMAIN heap', heap'[a].refcount <= 0
                 PROVE  \E i \in 1 .. Len(calls') : calls'[i] = Call("free", a)
      BY DEF CountlessFreed
    <3>1. a # p /\ a \in DOMAIN heap /\ heap[a].refcount <= 0
      BY <1>8, <1>9
    <3>2. PICK i \in 1 .. Len(calls) : calls[i] = Call("free", a)
      BY <3>1 DEF ExactInv, CountlessFreed
    <3> QED BY <1>1, <1>6, <1>9, <3>2
  <2> QED BY <1>8, <1>9, <2>1, <2>2 DEF ExactInv
<1>10. ASSUME p \in DOMAIN heap, heap' = [heap EXCEPT ![p].refcount = @ - 1],
              UNCHANGED <<progvars, owned, status>>,
              ~ (heap[p].refcount - 1 > 0),
              calls' = Return \o <<Call("free", p), Call("free_object", heap[p].right),
                                   Call("free_object", heap[p].left)>>
       PROVE  ExactInv'
  <2>1. /\ Len(calls') = n + 3
        /\ \A i \in 1 .. n : calls'[i] = calls[i]
        /\ calls'[n + 1] = Call("free", p)
        /\ calls'[n + 2] = Call("free_object", heap[p].right)
        /\ calls'[n + 3] = Call("free_object", heap[p].left)
    <3>1. /\ Call("free", p) \in Frame
          /\ Call("free_object", heap[p].right) \in Frame
          /\ Call("free_object", heap[p].left) \in Frame
      BY <1>10, HeapType, CallType
    <3> QED BY <1>1, <1>10, <3>1, CascadeProperties
  <2>2. /\ calls'[n + 1].fn = "free" /\ calls'[n + 1].obj = p
        /\ calls'[n + 2].fn = "free_object" /\ calls'[n + 3].fn = "free_object"
    BY <2>1 DEF Call
  <2>3. Detached' = Detached \cup {p}
    BY <1>0, <1>1, <2>1, <2>2, CascadeDetaches
  <2>4. CountsReferred'
    <3> SUFFICES ASSUME NEW a \in DOMAIN heap'
                 PROVE  heap'[a].refcount <= Cardinality(References(a)')
      BY DEF CountsReferred
    <3>1. Cardinality(References(a) \ {c}) <= Cardinality(References(a)')
      BY <1>1, <1>8, <1>10, <2>1, <2>3, MovedBack
    <3> QED BY <1>4, <1>8, <1>10, <3>1
  <2>5. CountlessFreed'
    <3> SUFFICES ASSUME NEW a \in DOMAIN heap', heap'[a].refcount <= 0
                 PROVE  \E i \in 1 .. Len(calls') : calls'[i] = Call("free", a)
      BY DEF CountlessFreed
    <3>1. CASE a = p
      <4>1. n + 1 \in 1 .. Len(calls')
        BY <2>1
      <4> QED BY <2>1, <3>1, <4>1
    <3>2. CASE a # p
      <4>1. a \in DOMAIN heap /\ heap[a].refcount <= 0
        BY <1>8, <1>10, <3>2
      <4>2. PICK i \in 1 .. Len(calls) : calls[i] = Call("free", a)
        BY <4>1 DEF ExactInv, CountlessFreed
      <4>3. i \in 1 .. n /\ i \in 1 .. Len(calls')
        BY <1>6, <2>1, <4>2
      <4> QED BY <2>1, <4>2, <4>3
    <3> QED BY <3>1, <3>2
  <2> QED BY <1>8, <1>10, <2>4, <2>5 DEF ExactInv
<1> HIDE DEF c
<1> QED BY <1>2, <1>b, <1>7, <1>9, <1>10 DEF free_object

(***************************************************************************)
(* The calls that generated code makes.                                    *)
(***************************************************************************)

\* A state with the same objects, references and calls has the same counts.
LEMMA SameExact ==
  ASSUME ExactInv, UNCHANGED <<heap, progvars, owned, calls>>
  PROVE  ExactInv'
BY DEF ExactInv, CountsReferred, CountlessFreed, HalvesAcyclic, References, Detached

\* New objects, the set N, have no halves: however they become halves of others, no
\* cycle comes to be.
LEMMA AcyclicGrown ==
  ASSUME HalvesAcyclic, NEW N, N \cap DOMAIN heap = {}, Null \notin DOMAIN heap',
         DOMAIN heap' \subseteq DOMAIN heap \cup N,
         \A x \in DOMAIN heap' \cap N : heap'[x].left = Null /\ heap'[x].right = Null,
         \A p, a \in DOMAIN heap : p \in DOMAIN heap' /\ a \in {heap'[p].left, heap'[p].right}
                                      => a \in {heap[p].left, heap[p].right}
  PROVE  HalvesAcyclic'
<1> SUFFICES ASSUME NEW S \in (SUBSET DOMAIN heap') \ {{}}
             PROVE  \E a \in S : \A p \in S : a \notin {heap'[p].left, heap'[p].right}
  BY DEF HalvesAcyclic
<1>1. CASE S \subseteq N
  <2>1. PICK a \in S : TRUE
    OBVIOUS
  <2>2. \A p \in S : heap'[p].left = Null /\ heap'[p].right = Null /\ a # Null
    BY <1>1, <2>1
  <2> QED BY <2>1, <2>2
<1>2. CASE ~ (S \subseteq N)
  <2>1. S \ N \in (SUBSET DOMAIN heap) \ {{}}
    BY <1>2
  <2>2. PICK a \in S \ N : \A p \in S \ N : a \notin {heap[p].left, heap[p].right}
    BY <2>1 DEF HalvesAcyclic
  <2>3. ASSUME NEW p \in S PROVE a \notin {heap'[p].left, heap'[p].right}
    <3>1. CASE p \in N
      <4>1. heap'[p].left = Null /\ heap'[p].right = Null /\ a # Null
        BY <3>1
      <4> QED BY <4>1
    <3>2. CASE p \notin N
      <4>1. a \in DOMAIN heap /\ p \in DOMAIN heap /\ p \in DOMAIN heap'
        BY <2>1, <3>2
      <4> QED BY <2>2, <3>2, <4>1
    <3> QED BY <3>1, <3>2
  <2> QED BY <2>3
<1> QED BY <1>1, <1>2

\* free_object called on a variable: its reference becomes that of the call.
LEMMA FreeSlotExact ==
  ASSUME ObjectsTypeOK, ObjectsTypeOK', ExactInv, NEW s \in owned, free_slot(s)
  PROVE  ExactInv'
<1>1. /\ calls' = <<Call("free_object", progvars[s])>>
      /\ owned' = owned \ {s}
      /\ UNCHANGED <<heap, progvars>>
      /\ calls = <<>> /\ Len(calls) = 0 /\ Len(calls') = 1
      /\ calls'[1] = Call("free_object", progvars[s])
  BY DEF free_slot, Ready
<1>2. Detached' = {} /\ Detached = {}
  BY <1>1, FramesAtStart DEF Detached
<1> DEFINE v == <<"variable", s>>
           c == <<"call", 1>>
<1>3. ASSUME NEW a \in DOMAIN heap
      PROVE  Cardinality(References(a)) <= Cardinality(References(a)')
  <2>1. IsFiniteSet(References(a)) /\ IsFiniteSet(References(a)')
    BY RefsFinite, NextRefsFinite
  <2>2. \A q \in owned : <<"variable", q>> \notin {v} => q \in owned'
    BY <1>1
  <2>3. References(a) \ {v} \subseteq References(a)'
    <3>1. /\ \A i \in 1 .. Len(calls) : FALSE
          /\ heap' = heap /\ progvars' = progvars
      BY <1>1
    <3> HIDE DEF v
    <3> QED BY <1>2, <2>2, <3>1, RefsSurvive
  <2>4. v \in References(a) => c \in References(a)'
    <3>1. v \in References(a) => progvars[s] = a
      BY RefsAre, RefMembers
    <3>2. 1 \in 1 .. Len(calls')
      BY <1>1
    <3> QED BY <1>1, <3>1, <3>2, RefsAre, RefMembers
  <2>5. c \notin References(a)
    BY <1>1, RefsAre, RefMembers
  <2> HIDE DEF v, c
  <2> QED BY <2>1, <2>3, <2>4, <2>5, CardExchange
<1>4. CountsReferred'
  <2> SUFFICES ASSUME NEW a \in DOMAIN heap
               PROVE  heap[a].refcount <= Cardinality(References(a)')
    BY <1>1 DEF CountsReferred
  <2>1. heap[a].refcount <= Cardinality(References(a)) /\ heap[a].refcount \in Int
    BY HeapType DEF ExactInv, CountsReferred
  <2>2. Cardinality(References(a)) \in Nat /\ Cardinality(References(a)') \in Nat
    BY RefsFinite, NextRefsFinite
  <2> QED BY <1>3, <2>1, <2>2
<1>5. CountlessFreed'
  BY <1>1 DEF ExactInv, CountlessFreed
<1>6. HalvesAcyclic'
  BY <1>1 DEF ExactInv, HalvesAcyclic
<1> QED BY <1>4, <1>5, <1>6 DEF ExactInv

\* kill: the references that the object's halves were become those of the two calls.
LEMMA KillExact ==
  ASSUME ObjectsTypeOK, ObjectsTypeOK', ExactInv, NEW s \in Slot, kill(s)
  PROVE  ExactInv'
<1>0. PICK p \in Pointer : p = progvars[s]
  BY DEF ObjectsTypeOK
<1>1. calls = <<>> /\ Len(calls) = 0 /\ Detached = {}
  <2>1. calls = <<>>
    BY DEF kill, Ready
  <2> QED BY <2>1 DEF Detached
<1>2. CASE UNCHANGED <<heap, progvars, owned, calls>>
  BY <1>2, SameExact
<1>3. ASSUME p \in DOMAIN heap,
             heap' = [heap EXCEPT ![p].state = "dead"],
             calls' = <<Call("unlink", p), Call("free_object", heap[p].right),
                        Call("free_object", heap[p].left)>>,
             UNCHANGED <<progvars, owned, status>>
      PROVE  ExactInv'
  <2>1. /\ Len(calls') = 3
        /\ calls'[1].fn = "unlink" /\ calls'[1].obj = p
        /\ calls'[2] = Call("free_object", heap[p].right)
        /\ calls'[3] = Call("free_object", heap[p].left)
        /\ calls'[2].fn = "free_object" /\ calls'[3].fn = "free_object"
    BY <1>3 DEF Call
  <2>2. Detached' = {p}
    <3>1. \A i \in 1 .. Len(calls') : i = 1 \/ i = 2 \/ i = 3
      BY <2>1
    <3> QED BY <2>1, <3>1 DEF Detached
  <2>3. /\ DOMAIN heap' = DOMAIN heap
        /\ \A q \in DOMAIN heap : /\ heap'[q].left = heap[q].left
                                  /\ heap'[q].right = heap[q].right
                                  /\ heap'[q].refcount = heap[q].refcount
    <3>1. /\ DOMAIN heap' = DOMAIN heap
          /\ \A q \in DOMAIN heap : q # p => heap'[q] = heap[q]
          /\ heap'[p] = [heap[p] EXCEPT !.state = "dead"]
      BY <1>3
    <3>2. heap[p] \in Object
      BY <1>3, HeapType
    <3> QED BY <1>3, <3>1, <3>2 DEF Object
  <2>4. HalvesAcyclic'
    BY <2>3, AcyclicKept DEF ExactInv
  <2>5. CountsReferred'
    <3> SUFFICES ASSUME NEW a \in DOMAIN heap
                 PROVE  heap[a].refcount <= Cardinality(References(a)')
      BY <2>3 DEF CountsReferred
    <3> DEFINE c == <<"call", 1>>
    <3>1. Cardinality(References(a) \ {c}) <= Cardinality(References(a)')
      <4>1. PICK n \in Nat : n = 0
        OBVIOUS
      <4>2. /\ Len(calls) \in Nat /\ Len(calls) <= n + 1
            /\ Len(calls') = n + 3
            /\ \A i \in 1 .. n : calls'[i] = calls[i]
            /\ calls'[n + 2] = Call("free_object", heap[p].right)
            /\ calls'[n + 3] = Call("free_object", heap[p].left)
            /\ Detached' = Detached \cup {p}
        BY <1>1, <2>1, <2>2, <4>1
      <4>3. Cardinality(References(a) \ {<<"call", n + 1>>}) <= Cardinality(References(a)')
        BY <1>3, <2>3, <4>2, MovedBack
      <4> QED BY <4>1, <4>3
    <3>2. c \notin References(a)
      BY <1>1, RefsAre, RefMembers
    <3>3. References(a) \ {c} = References(a)
      BY <3>2
    <3>4. heap[a].refcount <= Cardinality(References(a)) /\ heap[a].refcount \in Int
      BY HeapType DEF ExactInv, CountsReferred
    <3>5. Cardinality(References(a)) \in Nat /\ Cardinality(References(a)') \in Nat
      BY RefsFinite, NextRefsFinite
    <3> HIDE DEF c
    <3> QED BY <3>1, <3>3, <3>4, <3>5
  <2>6. CountlessFreed'
    BY <1>1, <2>3 DEF ExactInv, CountlessFreed
  <2> QED BY <2>4, <2>5, <2>6 DEF ExactInv
<1> QED BY <1>0, <1>2, <1>3 DEF kill, Fault, Stop, objectVars

\* create_object, into a variable that counts for nothing any more: the new object's
\* one reference is the variable.
LEMMA CreateExact ==
  ASSUME ObjectsTypeOK, ObjectsTypeOK', ExactInv, NEW s \in Slot \ owned,
         NEW type \in Type, create_object(s, type)
  PROVE  ExactInv'
<1>1. calls = <<>> /\ Detached = {}
  <2>1. calls = <<>>
    BY DEF create_object, Ready
  <2> QED BY <2>1 DEF Detached
<1>2. CASE UNCHANGED <<heap, progvars, owned, calls>>
  BY <1>2, SameExact
<1>3. ASSUME NEW b \in Unused, NEW text \in InputText(type),
             DOMAIN heap' = DOMAIN heap \cup {b},
             \A x \in DOMAIN heap : heap'[x] = heap[x],
             heap'[b] = NewObject(type, "alive", 1, text),
             progvars' = [progvars EXCEPT ![s] = b],
             owned' = owned \cup {s},
             UNCHANGED calls
      PROVE  ExactInv'
  <2>1. /\ b \in Addr /\ b \notin DOMAIN heap
        /\ heap'[b].left = Null /\ heap'[b].right = Null /\ heap'[b].refcount = 1
        /\ Detached' = {}
    BY <1>1, <1>3, FramesAtStart DEF Unused, NewObject
  <2>2. /\ progvars'[s] = b /\ s \in owned' /\ s \notin owned
        /\ \A q \in owned : q \in owned' /\ progvars'[q] = progvars[q]
    BY <1>3 DEF ObjectsTypeOK
  <2>3. HalvesAcyclic'
    <3>1. Null \notin DOMAIN heap'
      BY ObjectsAssumption DEF ObjectsAssumption, ObjectsTypeOK
    <3> DEFINE N == {b}
    <3>2. /\ N \cap DOMAIN heap = {} /\ DOMAIN heap' \subseteq DOMAIN heap \cup N
          /\ \A x \in DOMAIN heap' \cap N : heap'[x].left = Null /\ heap'[x].right = Null
      BY <1>3, <2>1
    <3> HIDE DEF N
    <3> QED BY <1>3, <3>1, <3>2, AcyclicGrown DEF ExactInv
  <2>4. ASSUME NEW a \in DOMAIN heap'
        PROVE  heap'[a].refcount <= Cardinality(References(a)') /\ heap'[a].refcount > 0
    <3>1. IsFiniteSet(References(a)') /\ Cardinality(References(a)') \in Nat
      BY NextRefsFinite
    <3>2. CASE a = b
      <4> DEFINE v == <<"variable", s>>
      <4>1. v \in References(a)'
        BY <2>2, <3>2, RefsAre, RefMembers
      <4> HIDE DEF v
      <4>2. Cardinality({}) + 1 <= Cardinality(References(a)')
        BY <3>1, <4>1, CardGrow
      <4> QED BY <2>1, <3>2, <4>2, FS_EmptySet
    <3>3. CASE a # b
      <4>1. a \in DOMAIN heap /\ heap'[a] = heap[a]
        BY <1>3, <3>3
      <4>2. References(a) \ {} \subseteq References(a)'
        BY <1>1, <1>3, <2>1, <2>2, RefsSurvive
      <4>3. Cardinality(References(a)) <= Cardinality(References(a)')
        BY <3>1, <4>2, CardSubset
      <4>4. /\ heap[a].refcount <= Cardinality(References(a)) /\ heap[a].refcount \in Int
            /\ Cardinality(References(a)) \in Nat
        BY <4>1, HeapType, RefsFinite DEF ExactInv, CountsReferred
      <4>5. heap[a].refcount > 0
        BY <1>1, <4>1, <4>4 DEF ExactInv, CountlessFreed
      <4> QED BY <3>1, <4>1, <4>3, <4>4, <4>5
    <3> QED BY <3>2, <3>3
  <2>5. CountsReferred' /\ CountlessFreed'
    <3>1. \A a \in DOMAIN heap' : ~ (heap'[a].refcount <= 0)
      <4> SUFFICES ASSUME NEW a \in DOMAIN heap' PROVE ~ (heap'[a].refcount <= 0)
        OBVIOUS
      <4>1. heap'[a].refcount \in Int
        BY DEF ObjectsTypeOK, Object
      <4> QED BY <2>4, <4>1
    <3> QED BY <2>4, <3>1 DEF CountsReferred, CountlessFreed
  <2> QED BY <2>3, <2>5 DEF ExactInv
<1> QED BY <1>2, <1>3, CreateHeap

\* After the stores of a bifurcation into variables that count for nothing, or are the
\* one bifurcated, an address has one reference more for each half it is.
LEMMA StoredExact ==
  ASSUME ObjectsTypeOK, ObjectsTypeOK', NEW s \in owned, NEW l \in Slot, NEW r \in Slot,
         NEW left, NEW right, StoreHalves(s, l, r, left, right), calls = <<>>,
         l # r, l \in owned => l = s, r \in owned => r = s, NEW a,
         \A q \in DOMAIN heap : q \in DOMAIN heap'
                                /\ (heap[q].left = a => heap'[q].left = a)
                                /\ (heap[q].right = a => heap'[q].right = a)
  PROVE  /\ Cardinality(References(a)') \in Nat
         /\ Cardinality(References(a)) \in Nat
         /\ Cardinality(References(a)) + (IF a = left THEN 1 ELSE 0)
                                       + (IF a = right THEN 1 ELSE 0)
              <= Cardinality(References(a)')
<1> DEFINE R == References(a)
           T == References(a)'
           v == <<"variable", s>>
           c == <<"call", 1>>
           vl == <<"variable", l>>
           vr == <<"variable", r>>
           moved == s \in {l, r} /\ progvars[s] = a
           R1 == IF moved THEN (R \ {v}) \cup {c} ELSE R
           R2 == IF a = left THEN R1 \cup {vl} ELSE R1
           R3 == IF a = right THEN R2 \cup {vr} ELSE R2
<1>1. Detached = {} /\ Detached' = {} /\ Len(calls) = 0 /\ owned \subseteq Slot
  <2>1. calls' = <<>> \/ calls' = <<Call("free_object", progvars[s])>>
    BY DEF StoreHalves
  <2>2. Detached' = {}
    BY <2>1, FramesAtStart
  <2>3. Detached = {} /\ Len(calls) = 0
    BY DEF Detached
  <2> QED BY <2>2, <2>3 DEF ObjectsTypeOK
<1>2. /\ IsFiniteSet(R) /\ Cardinality(R) \in Nat
      /\ IsFiniteSet(T) /\ Cardinality(T) \in Nat
  BY RefsFinite, NextRefsFinite
<1>3. /\ progvars'[l] = left /\ progvars'[r] = right
      /\ \A q \in Slot \ {l, r} : progvars'[q] = progvars[q]
      /\ owned' = owned \cup {l, r}
  BY DEF StoreHalves, ObjectsTypeOK
\* Which tokens are there, before and after.
<1>4. /\ v \in R <=> progvars[s] = a
      /\ l # s => vl \notin R
      /\ r # s => vr \notin R
      /\ c \notin R
  BY <1>1, RefsAre, RefMembers
<1>5. /\ a = left => vl \in T
      /\ a = right => vr \in T
  BY <1>3, RefsAre, RefMembers
<1>6. moved => c \in T
  <2> SUFFICES ASSUME moved PROVE c \in T
    OBVIOUS
  <2>1. calls' = <<Call("free_object", a)>>
    <3>1. s \in {l, r} /\ progvars[s] = a
      OBVIOUS
    <3>2. calls' = IF s \in {l, r} THEN <<Call("free_object", progvars[s])>> ELSE <<>>
      BY DEF StoreHalves
    <3>3. calls' = <<Call("free_object", progvars[s])>>
      BY <3>1, <3>2
    <3> QED BY <3>1, <3>3
  <2>2. calls'[1] = Call("free_object", a) /\ 1 \in 1 .. Len(calls')
    BY <2>1
  <2> QED BY <2>2, RefsAre, RefMembers
<1>7. R \ (IF moved THEN {v} ELSE {}) \subseteq T
  <2> DEFINE M == IF moved THEN {v} ELSE {}
  <2>1. \A q \in owned : progvars[q] = a /\ <<"variable", q>> \notin M
          => q \in owned' /\ progvars'[q] = a
    <3> SUFFICES ASSUME NEW q \in owned, progvars[q] = a, <<"variable", q>> \notin M
                 PROVE  q \in owned' /\ progvars'[q] = a
      OBVIOUS
    <3>1. CASE q \in {l, r}
      <4>1. q = s
        BY <3>1
      <4>2. moved
        BY <3>1, <4>1
      <4> QED BY <4>1, <4>2
    <3>2. CASE q \notin {l, r}
      BY <1>1, <1>3, <3>2
    <3> QED BY <3>1, <3>2
  <2>2. \A i \in 1 .. Len(calls) : FALSE
    BY <1>1
  <2> HIDE DEF M
  <2>3. References(a) \ M \subseteq References(a)'
    BY <1>1, <2>1, <2>2, RefsSurvive
  <2> QED BY <2>3 DEF M
\* The references kept, with that of the call.
<1>8. /\ IsFiniteSet(R1) /\ Cardinality(R1) = Cardinality(R) /\ R1 \subseteq T
      /\ vl \notin R1 /\ vr \notin R1
  <2>1. CASE moved
    <3>1. c \notin R \ {v}
      BY <1>4
    <3>2. l = s => vl = v
      OBVIOUS
    <3>3. r = s => vr = v
      OBVIOUS
    <3>4. vl # c /\ vr # c
      OBVIOUS
    <3>5. R1 = (R \ {v}) \cup {c} /\ v \in R
      BY <1>4, <2>1
    <3>6. R \ {v} \subseteq T /\ c \in T
      BY <1>6, <1>7, <2>1
    <3>7. vl \notin R \ {v} /\ vr \notin R \ {v}
      BY <1>4, <3>2, <3>3
    <3> HIDE DEF R, T, v, c, vl, vr, R1
    <3>8. IsFiniteSet(R \ {v}) /\ Cardinality(R \ {v}) = Cardinality(R) - 1
      BY <1>2, <3>5, CardRemove
    <3>9. /\ IsFiniteSet((R \ {v}) \cup {c})
          /\ Cardinality((R \ {v}) \cup {c}) = Cardinality(R \ {v}) + 1
      BY <3>1, <3>8, FS_AddElement
    <3> QED BY <1>2, <3>4, <3>5, <3>6, <3>7, <3>8, <3>9
  <2>2. CASE ~ moved
    <3>1. R1 = R
      BY <2>2
    <3>2. R \subseteq T
      BY <1>7, <2>2
    <3>3. vl \notin R
      <4>1. l = s => vl = v /\ v \notin R
        BY <1>4, <2>2
      <4> QED BY <1>4, <4>1
    <3>4. vr \notin R
      <4>1. r = s => vr = v /\ v \notin R
        BY <1>4, <2>2
      <4> QED BY <1>4, <4>1
    <3> HIDE DEF R, T, v, c, vl, vr, R1
    <3> QED BY <1>2, <3>1, <3>2, <3>3, <3>4
  <2> QED BY <2>1, <2>2
<1>9. vl # vr
  OBVIOUS
<1> HIDE DEF R, T, v, c, vl, vr, R1
<1>10. /\ IsFiniteSet(R2) /\ R2 \subseteq T /\ vr \notin R2
       /\ Cardinality(R2) = Cardinality(R1) + (IF a = left THEN 1 ELSE 0)
  <2>1. CASE a = left
    BY <1>2, <1>5, <1>8, <1>9, <2>1, FS_AddElement
  <2>2. CASE a # left
    BY <1>2, <1>8, <2>2
  <2> QED BY <2>1, <2>2
<1> HIDE DEF R2
<1>11. /\ IsFiniteSet(R3) /\ R3 \subseteq T
       /\ Cardinality(R3) = Cardinality(R2) + (IF a = right THEN 1 ELSE 0)
  <2>1. Cardinality(R2) \in Nat
    BY <1>10, FS_CardinalityType
  <2>2. CASE a = right
    BY <1>5, <1>10, <2>2, FS_AddElement
  <2>3. CASE a # right
    BY <1>10, <2>1, <2>3
  <2> QED BY <2>2, <2>3
<1> HIDE DEF R3
<1>12. Cardinality(R3) <= Cardinality(T)
  BY <1>2, <1>11, CardSubset
<1>13. Cardinality(R) + (IF a = left THEN 1 ELSE 0) + (IF a = right THEN 1 ELSE 0)
         <= Cardinality(T)
  BY <1>2, <1>8, <1>10, <1>11, <1>12
<1> QED BY <1>2, <1>13 DEF R, T

\* bifurcate: each half that is stored is counted once more.
LEMMA BifurcateExact ==
  ASSUME ObjectsTypeOK, ObjectsTypeOK', RuntimeInv, ExactInv,
         NEW s \in owned, NEW l \in Slot, NEW r \in Slot, bifurcate(s, l, r),
         l # r, l \in owned => l = s, r \in owned => r = s
  PROVE  ExactInv'
<1>0. PICK p \in Pointer : p = progvars[s]
  BY DEF ObjectsTypeOK
<1>1. /\ calls = <<>> /\ Detached = {} /\ p # Null
      /\ universal_dead \notin Addr /\ Null \notin Addr
  <2>1. calls = <<>>
    BY DEF bifurcate, Ready
  <2>2. Detached = {}
    BY <2>1 DEF Detached
  <2> QED BY <1>0, <2>1, <2>2, OwnedIsCounted, ObjectsAssumption DEF ObjectsAssumption
\* Every object has its count: none has run out of it.
<1>2. \A a \in DOMAIN heap : heap[a].refcount > 0
  <2> SUFFICES ASSUME NEW a \in DOMAIN heap PROVE heap[a].refcount > 0
    OBVIOUS
  <2>1. heap[a].refcount \in Int
    BY HeapType
  <2> QED BY <1>1, <2>1 DEF ExactInv, CountlessFreed
<1>3. ASSUME HalvesAcyclic',
             \A a \in DOMAIN heap' : /\ heap'[a].refcount <= Cardinality(References(a)')
                                     /\ heap'[a].refcount > 0
      PROVE  ExactInv'
  <2>1. \A a \in DOMAIN heap' : heap'[a].refcount \in Int
    BY DEF ObjectsTypeOK, Object
  <2>2. \A a \in DOMAIN heap' : ~ (heap'[a].refcount <= 0)
    BY <1>3, <2>1
  <2> QED BY <1>3, <2>2 DEF ExactInv, CountsReferred, CountlessFreed
\* What was there is referred to as often as before, and once more for each half it is.
<1>4. ASSUME NEW left, NEW right, StoreHalves(s, l, r, left, right),
             NEW a \in DOMAIN heap,
             heap'[a].refcount = heap[a].refcount + (IF a = left THEN 1 ELSE 0)
                                                  + (IF a = right THEN 1 ELSE 0),
             \A q \in DOMAIN heap : q \in DOMAIN heap'
                                    /\ (heap[q].left = a => heap'[q].left = a)
                                    /\ (heap[q].right = a => heap'[q].right = a)
      PROVE  heap'[a].refcount <= Cardinality(References(a)') /\ heap'[a].refcount > 0
  <2>1. /\ Cardinality(References(a)') \in Nat
        /\ Cardinality(References(a)) \in Nat
        /\ Cardinality(References(a)) + (IF a = left THEN 1 ELSE 0)
                                      + (IF a = right THEN 1 ELSE 0)
             <= Cardinality(References(a)')
    BY <1>1, <1>4, StoredExact
  <2>2. heap[a].refcount <= Cardinality(References(a)) /\ heap[a].refcount \in Int
    BY HeapType DEF ExactInv, CountsReferred
  <2>3. heap[a].refcount > 0
    BY <1>2
  <2> QED BY <1>4, <2>1, <2>2, <2>3
<1>5. CASE UNCHANGED <<heap, progvars, owned, calls>>
  BY <1>5, SameExact
<1>6. CASE BifurcateDead(s, l, r)
  <2>1. StoreHalves(s, l, r, universal_dead, universal_dead) /\ heap' = heap
    BY <1>6 DEF BifurcateDead
  <2>2. HalvesAcyclic'
    BY <2>1 DEF ExactInv, HalvesAcyclic
  <2>3. ASSUME NEW a \in DOMAIN heap'
        PROVE  heap'[a].refcount <= Cardinality(References(a)') /\ heap'[a].refcount > 0
    <3>1. a \in DOMAIN heap /\ a # universal_dead /\ heap[a].refcount \in Int
      BY <1>1, <2>1, HeapType
    <3>2. heap'[a].refcount = heap[a].refcount + (IF a = universal_dead THEN 1 ELSE 0)
                                               + (IF a = universal_dead THEN 1 ELSE 0)
      BY <2>1, <3>1
    <3> QED BY <1>4, <2>1, <3>1, <3>2
  <2> QED BY <1>3, <2>2, <2>3
<1>7. CASE BifurcateAgain(s, l, r)
  <2>1. PICK left \in Pointer, right \in Pointer :
          left = heap[p].left /\ right = heap[p].right
    BY <1>0, <1>7, HeapType DEF BifurcateAgain
  <2>2. StoreHalves(s, l, r, left, right) /\ heap' = Retained(left, right)
    BY <1>0, <1>7, <2>1 DEF BifurcateAgain
  <2>3. /\ DOMAIN heap' = DOMAIN heap
        /\ \A q \in DOMAIN heap :
             /\ heap'[q].left = heap[q].left
             /\ heap'[q].right = heap[q].right
             /\ heap'[q].refcount = heap[q].refcount + (IF q = left THEN 1 ELSE 0)
                                                     + (IF q = right THEN 1 ELSE 0)
    <3>1. DOMAIN heap' = DOMAIN heap
      BY <2>2 DEF Retained
    <3>2. ASSUME NEW q \in DOMAIN heap
          PROVE  /\ heap'[q].left = heap[q].left
                 /\ heap'[q].right = heap[q].right
                 /\ heap'[q].refcount = heap[q].refcount + (IF q = left THEN 1 ELSE 0)
                                                         + (IF q = right THEN 1 ELSE 0)
      <4>1. heap'[q] = [heap[q] EXCEPT !.refcount = @ + (IF q = left THEN 1 ELSE 0)
                                                      + (IF q = right THEN 1 ELSE 0)]
        BY <2>2 DEF Retained
      <4>2. heap[q] \in Object
        BY HeapType
      <4> QED BY <4>1, <4>2 DEF Object
    <3> QED BY <3>1, <3>2
  <2>4. HalvesAcyclic'
    BY <2>3, AcyclicKept DEF ExactInv
  <2>5. \A a \in DOMAIN heap' : /\ heap'[a].refcount <= Cardinality(References(a)')
                                /\ heap'[a].refcount > 0
    BY <1>4, <2>2, <2>3
  <2> QED BY <1>3, <2>4, <2>5
<1>8. CASE BifurcateFirst(s, l, r)
  <2>1. PICK left \in Unused, right \in Unused :
          /\ left # right
          /\ heap' = [x \in DOMAIN heap \cup {left, right} |->
                        CASE x = left -> LeftHalf(p)
                          [] x = right -> RightHalf(p)
                          [] x = p -> [heap[p] EXCEPT !.left = left, !.right = right]
                          [] OTHER -> heap[x]]
          /\ StoreHalves(s, l, r, left, right)
    <3> DEFINE Made(x) ==
                 \E a, b \in Unused :
                   /\ a # b
                   /\ heap' = [y \in DOMAIN heap \cup {a, b} |->
                                 CASE y = a -> LeftHalf(x)
                                   [] y = b -> RightHalf(x)
                                   [] y = x -> [heap[x] EXCEPT !.left = a, !.right = b]
                                   [] OTHER -> heap[y]]
                   /\ StoreHalves(s, l, r, a, b)
    <3>1. Made(progvars[s])
      BY <1>8, Zenon DEF BifurcateFirst
    <3> HIDE DEF Made
    <3>2. Made(p)
      BY <1>0, <3>1
    <3> USE DEF Made
    <3> QED BY <3>2, Zenon
  <2>2. /\ p \in DOMAIN heap /\ heap[p].left = Null /\ heap[p].right = Null
        /\ left \in Addr /\ right \in Addr /\ left \notin DOMAIN heap
        /\ right \notin DOMAIN heap /\ left # Null /\ right # Null
        /\ p # left /\ p # right
    BY <1>0, <1>1, <1>8 DEF BifurcateFirst, Unused
  <2>3. /\ DOMAIN heap' = DOMAIN heap \cup {left, right}
        /\ heap'[left] = LeftHalf(p)
        /\ heap'[right] = RightHalf(p)
        /\ heap'[p] = [heap[p] EXCEPT !.left = left, !.right = right]
        /\ \A q \in DOMAIN heap : q # p => heap'[q] = heap[q]
    BY <2>1, <2>2
  <2>4. /\ heap'[left].left = Null /\ heap'[left].right = Null
        /\ heap'[left].refcount = 2
        /\ heap'[right].left = Null /\ heap'[right].right = Null
        /\ heap'[right].refcount = 2
        /\ heap'[p].left = left /\ heap'[p].right = right
        /\ heap'[p].refcount = heap[p].refcount
    <3>1. heap[p] \in Object
      BY <2>2, HeapType
    <3>2. /\ heap'[p].left = left /\ heap'[p].right = right
          /\ heap'[p].refcount = heap[p].refcount
      BY <2>3, <3>1 DEF Object
    <3>3. /\ LeftHalf(p).left = Null /\ LeftHalf(p).right = Null
          /\ LeftHalf(p).refcount = 2
      BY DEF LeftHalf, NewObject
    <3>4. /\ RightHalf(p).left = Null /\ RightHalf(p).right = Null
          /\ RightHalf(p).refcount = 2
      BY DEF RightHalf, NewObject
    <3> QED BY <2>3, <3>2, <3>3, <3>4
  <2>5. HalvesAcyclic'
    <3>1. Null \notin DOMAIN heap'
      BY <1>1 DEF ObjectsTypeOK
    <3> DEFINE N == {left, right}
    <3>2. /\ N \cap DOMAIN heap = {} /\ DOMAIN heap' \subseteq DOMAIN heap \cup N
          /\ \A x \in DOMAIN heap' \cap N : heap'[x].left = Null /\ heap'[x].right = Null
      BY <2>2, <2>3, <2>4
    <3>3. \A q, a \in DOMAIN heap : q \in DOMAIN heap' /\ a \in {heap'[q].left, heap'[q].right}
                                      => a \in {heap[q].left, heap[q].right}
      BY <2>2, <2>3, <2>4, ZenonT(60)
    <3> HIDE DEF N
    <3> QED BY <3>1, <3>2, <3>3, AcyclicGrown DEF ExactInv
  <2>6. ASSUME NEW a \in DOMAIN heap
        PROVE  heap'[a].refcount <= Cardinality(References(a)') /\ heap'[a].refcount > 0
    <3>1. a # left /\ a # right /\ a # Null
      BY <1>1, <2>2, HeapType
    <3>2. \A q \in DOMAIN heap : q \in DOMAIN heap'
                                 /\ (heap[q].left = a => heap'[q].left = a)
                                 /\ (heap[q].right = a => heap'[q].right = a)
      BY <2>2, <2>3, <3>1
    <3>3. heap'[a].refcount = heap[a].refcount /\ heap[a].refcount \in Int
      BY <2>3, <2>4, HeapType
    <3>4. heap'[a].refcount = heap[a].refcount + (IF a = left THEN 1 ELSE 0)
                                               + (IF a = right THEN 1 ELSE 0)
      BY <3>1, <3>3
    <3> QED BY <1>4, <2>1, <3>2, <3>4
  \* A half that was made now is referred to by its variable and by its object.
  <2>7. ASSUME NEW a \in {left, right}
        PROVE  heap'[a].refcount <= Cardinality(References(a)') /\ heap'[a].refcount > 0
    <3> DEFINE v == <<"variable", IF a = left THEN l ELSE r>>
               h == IF a = left THEN <<"left", p>> ELSE <<"right", p>>
    <3>1. v \in References(a)'
      <4>1. /\ progvars'[r] = right /\ progvars'[l] = left
            /\ l \in owned' /\ r \in owned'
        BY <2>1 DEF StoreHalves, ObjectsTypeOK
      <4> QED BY <2>7, <4>1, RefsAre, RefMembers
    <3>2. h \in References(a)'
      <4>1. calls' = <<>> \/ \E x : calls' = <<Call("free_object", x)>>
        BY <2>1 DEF StoreHalves
      <4>2. Detached' = {}
        BY <4>1, FramesAtStart
      <4>3. p \in DOMAIN heap' /\ p \notin Detached'
        BY <2>2, <2>3, <4>2
      <4>4. CASE a = left
        <5>1. <<"left", p>> \in References(a)'
          BY <2>4, <4>3, <4>4, RefsAre, RefMembers
        <5> QED BY <4>4, <5>1
      <4>5. CASE a # left
        <5>1. a = right
          BY <2>7, <4>5
        <5>2. <<"right", p>> \in References(a)'
          BY <2>4, <4>3, <5>1, RefsAre, RefMembers
        <5> QED BY <4>5, <5>2
      <4> QED BY <4>4, <4>5
    <3>3. v # h
      OBVIOUS
    <3>4. IsFiniteSet(References(a)')
      BY NextRefsFinite
    <3> HIDE DEF v, h
    <3>5. /\ Cardinality({v}) + 1 <= Cardinality(References(a)')
          /\ Cardinality(References(a)') \in Nat
      <4>1. h \notin {v} /\ {v} \subseteq References(a)'
        BY <3>1, <3>3
      <4> DEFINE V == {v}
      <4> HIDE DEF V
      <4>2. Cardinality(V) + 1 <= Cardinality(References(a)')
            /\ Cardinality(References(a)') \in Nat
        BY <3>2, <3>4, <4>1, CardGrow DEF V
      <4> QED BY <4>2 DEF V
    <3>6. Cardinality({v}) = 1
      BY FS_Singleton
    <3>7. heap'[a].refcount = 2
      BY <2>4, <2>7
    <3> QED BY <3>5, <3>6, <3>7
  <2> QED BY <1>3, <2>3, <2>5, <2>6, <2>7
<1> QED BY <1>5, <1>6, <1>7, <1>8 DEF bifurcate, BifurcateFails, BifurcateFault, Stop

\* Whatever the runtime does next, it counts exactly.
LEMMA RuntimeExact ==
  ASSUME ObjectsTypeOK, ObjectsTypeOK', RuntimeInv, ExactInv, RuntimeStep
  PROVE  ExactInv'
BY FreeObjectExact, UnlinkExact, FreeExact DEF RuntimeStep

(***************************************************************************)
(* The graves of a program with none of the hazardous shapes.              *)
(***************************************************************************)

\* What a grave may rely on in a program with none of the Shapes.
LEMMA BetweenExact ==
  ASSUME GravesInv, LeakInv, Ready, code = <<>>
  PROVE  /\ Running /\ TypeOK /\ TablesNested /\ ExactInv
         /\ visible \in Int /\ Len(code) = 0
         /\ \A s \in owned : /\ s \in Slot /\ s \in Int
                             /\ s < visible \/ (InExecute /\ s < Innermost.len)
<1>1. Running /\ TypeOK /\ TablesNested /\ ExactInv
  BY BetweenOwned DEF LeakInv
<1>2. visible \in Int /\ Len(code) = 0
  BY <1>1 DEF TypeOK
<1>3. \A s \in owned : s \in Slot /\ s \in Int
  BY <1>1, SlotType DEF TypeOK, ObjectsTypeOK
<1>4. \A s \in owned : s < visible \/ (InExecute /\ s < Innermost.len)
  BY <1>1, <1>2 DEF LeakInv, NothingForgotten, Releases
<1> QED BY <1>1, <1>2, <1>3, <1>4

\* A name that is new in the table, and covers none of a block's, is not owned.
LEMMA NewIsNotOwned ==
  ASSUME GravesInv, LeakInv, Ready, code = <<>>, Shapes = {},
         NEW v \in Slot, MayDeclare(v), ~ (v < visible)
  PROVE  v \notin owned
<1>1. visible \in Int /\ v \in Int
  BY BetweenExact, SlotType
<1>2. ~ (InExecute /\ v < Innermost.len)
  BY <1>1 DEF MayDeclare, Covers
<1> QED BY <1>2, BetweenExact

\* What is owned stays releasable when the table grows and the blocks stay.
LEMMA RememberedStays ==
  ASSUME GravesInv, LeakInv, Ready, code = <<>>, UNCHANGED objectVars,
         GraveBegun, visible' \in Int, visible <= visible'
  PROVE  NothingForgotten' /\ ExactInv'
<1>1. /\ InExecute' = InExecute
      /\ InExecute => Innermost'.len = Innermost.len
  BY BetweenExact, BlocksStay
<1>2. owned' = owned
  BY DEF objectVars
<1>3. \A s \in owned : \/ s < visible'
                       \/ InExecute' /\ s < Innermost'.len
  BY <1>1, BetweenExact
<1>4. NothingForgotten'
  BY <1>2, <1>3 DEF NothingForgotten
<1>5. ExactInv'
  BY BetweenExact, SameExact DEF objectVars
<1> QED BY <1>4, <1>5

\* import: the variable is new, or its object is released first.
LEMMA ImportExact ==
  ASSUME GravesInv, LeakInv, Shapes = {}, NEW v \in Slot, NEW t \in Imports,
         process_import(v, t)
  PROVE  LeakInv'
<1>1. /\ GraveBegun /\ UNCHANGED objectVars /\ Ready /\ code = <<>>
      /\ MayDeclare(v) /\ (v = 0 /\ visible > 0 => "first_variable" \in Shapes)
      /\ code' = declare_var(v, visible, 0) \o <<Create(v, t)>>
  BY DEF process_import, AtGrave, Between
<1>2. /\ v <= visible
      /\ \/ code' = <<Create(v, t)>>
         \/ code' = <<Free(v), Create(v, t)>> /\ v < visible
      /\ visible' = IF v = visible THEN visible + 1 ELSE visible
      /\ visible \in Int /\ v \in Int /\ 0 <= v
  BY <1>1, BetweenExact, ImportCode, SlotType
<1>3. NothingForgotten' /\ ExactInv'
  BY <1>1, <1>2, RememberedStays
<1>4. owned' = owned /\ v < visible'
  BY <1>1, <1>2 DEF objectVars
<1>5. CASE code' = <<Create(v, t)>>
  <2>1. ~ (v < visible)
    <3> SUFFICES ASSUME v < visible PROVE FALSE
      OBVIOUS
    <3>1. v # 0
      BY <1>1, <1>2
    <3>2. code' = <<Free(v), Create(v, t)>>
      BY <1>1, <3>1, Joined DEF declare_var
    <3>3. Len(code') = 1 /\ Len(code') = 2
      BY <1>5, <3>2
    <3> QED BY <3>3
  <2>2. v \notin owned'
    BY <1>1, <1>4, <2>1, NewIsNotOwned
  <2>3. Len(code') = 1 /\ code'[1] = Create(v, t)
    BY <1>5
  <2>4. StoresToFree'
    BY <1>4, <2>2, <2>3, CreateFields DEF StoresToFree
  <2> QED BY <1>3, <2>4 DEF LeakInv
<1>6. CASE code' = <<Free(v), Create(v, t)>>
  <2>1. Len(code') = 2 /\ code'[1] = Free(v) /\ code'[2] = Create(v, t)
    BY <1>6
  <2>2. Releases(v)'
    <3>1. 1 \in 1 .. Len(code') /\ code'[1].op = "free_object" /\ code'[1].slot = v
      BY <2>1, FreeFields
    <3> QED BY <3>1 DEF Releases
  <2>3. /\ Stores(code'[1]) = {} /\ code'[1].op # "bifurcate"
        /\ Stores(code'[2]) = {v} /\ code'[2].op # "bifurcate"
    BY <2>1, FreeFields, CreateFields
  <2>4. \A i \in 1 .. Len(code') : i = 1 \/ i = 2
    BY <2>1
  <2>5. StoresToFree'
    BY <1>4, <2>2, <2>3, <2>4 DEF StoresToFree
  <2> QED BY <1>3, <2>5 DEF LeakInv
<1> QED BY <1>2, <1>5, <1>6

\* The halves of a bifurcation go into variables of which each is new, has its object
\* released first, or is the one bifurcated.
LEMMA BifStores ==
  ASSUME TypeOK, NEW s \in Slot, NEW l \in Slot, NEW r \in Slot, process_bif(s, l, r)
  PROVE  /\ l < visible /\ l # s => Releases(l)'
         /\ r < visible /\ r # s => Releases(r)'
         /\ l < visible' /\ r < visible'
         /\ \A i \in 1 .. Len(code') : Stores(code'[i]) # {} \/ code'[i].op = "bifurcate"
                                         => code'[i] = Split(s, l, r)
<1> DEFINE n == Larger(visible, l + 1)
<1>1. l \in Int /\ r \in Int /\ visible \in Int
  BY SlotType DEF TypeOK
<1>2. n \in Int /\ visible <= n /\ l < n
  BY <1>1 DEF Larger
<1>3. code' = declare_var(l, visible, s) \o declare_var(r, n, s) \o <<Split(s, l, r)>>
      /\ visible' = Larger(n, r + 1)
  BY DEF process_bif
<1>4. l < visible' /\ r < visible'
  BY <1>1, <1>2, <1>3 DEF Larger
<1>5. r < visible => r < n
  BY <1>1, <1>2
<1> HIDE DEF n
\* The three forms that a code of frees and a split has.
<1>6. ASSUME NEW x, code' = <<Free(x), Split(s, l, r)>>
      PROVE  /\ Releases(x)'
             /\ \A i \in 1 .. Len(code') : Stores(code'[i]) # {} \/ code'[i].op = "bifurcate"
                                             => code'[i] = Split(s, l, r)
  <2>1. Len(code') = 2 /\ code'[1] = Free(x) /\ code'[2] = Split(s, l, r)
    BY <1>6
  <2>2. 1 \in 1 .. Len(code') /\ code'[1].op = "free_object" /\ code'[1].slot = x
    BY <2>1, FreeFields
  <2>3. \A i \in 1 .. Len(code') : i = 1 \/ i = 2
    BY <2>1
  <2> QED BY <2>1, <2>2, <2>3, FreeFields DEF Releases
<1>7. ASSUME code' = <<Free(l), Free(r), Split(s, l, r)>>
      PROVE  /\ Releases(l)' /\ Releases(r)'
             /\ \A i \in 1 .. Len(code') : Stores(code'[i]) # {} \/ code'[i].op = "bifurcate"
                                             => code'[i] = Split(s, l, r)
  <2>1. Len(code') = 3 /\ code'[1] = Free(l) /\ code'[2] = Free(r) /\ code'[3] = Split(s, l, r)
    BY <1>7
  <2>2. /\ 1 \in 1 .. Len(code') /\ code'[1].op = "free_object" /\ code'[1].slot = l
        /\ 2 \in 1 .. Len(code') /\ code'[2].op = "free_object" /\ code'[2].slot = r
    BY <2>1, FreeFields
  <2>3. \A i \in 1 .. Len(code') : i = 1 \/ i = 2 \/ i = 3
    BY <2>1
  <2> QED BY <2>1, <2>2, <2>3, FreeFields DEF Releases
<1>8. ASSUME code' = <<Split(s, l, r)>>
      PROVE  \A i \in 1 .. Len(code') : Stores(code'[i]) # {} \/ code'[i].op = "bifurcate"
                                          => code'[i] = Split(s, l, r)
  BY <1>8
<1>9. CASE l < visible /\ l # s
  <2>1. declare_var(l, visible, s) = <<Free(l)>>
    BY <1>9 DEF declare_var
  <2>2. CASE r < n /\ r # s
    <3>1. declare_var(r, n, s) = <<Free(r)>>
      BY <2>2 DEF declare_var
    <3>2. code' = <<Free(l), Free(r), Split(s, l, r)>>
      BY <1>3, <2>1, <3>1, Joined
    <3> QED BY <1>4, <1>7, <3>2
  <2>3. CASE ~ (r < n /\ r # s)
    <3>1. declare_var(r, n, s) = <<>>
      BY <2>3 DEF declare_var
    <3>2. code' = <<Free(l), Split(s, l, r)>>
      BY <1>3, <2>1, <3>1, Joined
    <3> QED BY <1>4, <1>5, <1>6, <2>3, <3>2
  <2> QED BY <2>2, <2>3
<1>10. CASE ~ (l < visible /\ l # s)
  <2>1. declare_var(l, visible, s) = <<>>
    BY <1>10 DEF declare_var
  <2>2. CASE r < n /\ r # s
    <3>1. declare_var(r, n, s) = <<Free(r)>>
      BY <2>2 DEF declare_var
    <3>2. code' = <<Free(r), Split(s, l, r)>>
      BY <1>3, <2>1, <3>1, Joined
    <3> QED BY <1>4, <1>6, <1>10, <3>2
  <2>3. CASE ~ (r < n /\ r # s)
    <3>1. declare_var(r, n, s) = <<>>
      BY <2>3 DEF declare_var
    <3>2. code' = <<Split(s, l, r)>>
      BY <1>3, <2>1, <3>1, Joined
    <3> QED BY <1>4, <1>5, <1>8, <1>10, <2>3, <3>2
  <2> QED BY <2>2, <2>3
<1> QED BY <1>9, <1>10

\* bifurcate: what the halves replace is released first, or by the call itself.
LEMMA BifExact ==
  ASSUME GravesInv, LeakInv, Shapes = {}, NEW s \in Slot, NEW l \in Slot, NEW r \in Slot,
         process_bif(s, l, r)
  PROVE  LeakInv'
<1>1. /\ GraveBegun /\ UNCHANGED objectVars /\ Ready /\ code = <<>>
      /\ MayDeclare(l) /\ l # r
  BY DEF process_bif, AtGrave, Between
<1>2. MayDeclare(r)
  BY DEF process_bif
<1>3. visible' \in Int /\ visible <= visible'
  BY <1>1, BetweenExact, BifCode
<1>4. NothingForgotten' /\ ExactInv'
  BY <1>1, <1>3, RememberedStays
<1>5. /\ l \in owned => l < visible
      /\ r \in owned => r < visible
  BY <1>1, <1>2, NewIsNotOwned
<1>6. /\ l < visible /\ l # s => Releases(l)'
      /\ r < visible /\ r # s => Releases(r)'
      /\ l < visible' /\ r < visible'
      /\ \A i \in 1 .. Len(code') : Stores(code'[i]) # {} \/ code'[i].op = "bifurcate"
                                      => code'[i] = Split(s, l, r)
  BY <1>1, BetweenExact, BifStores
<1>7. owned' = owned
  BY <1>1 DEF objectVars
<1>8. /\ Stores(Split(s, l, r)) = {l, r} /\ Uses(Split(s, l, r)) = {s}
      /\ Split(s, l, r).left = l /\ Split(s, l, r).right = r
  BY SplitFields DEF Split
<1>9. StoresToFree'
  <2> SUFFICES ASSUME NEW i \in 1 .. Len(code')
               PROVE  /\ \A q \in Stores(code'[i]) :
                           /\ q < visible'
                           /\ q \in owned' => Releases(q)' \/ q \in Uses(code'[i])
                      /\ code'[i].op = "bifurcate" => code'[i].left # code'[i].right
    BY DEF StoresToFree
  <2>1. CASE code'[i] = Split(s, l, r)
    <3>1. \A q \in {l, r} : q < visible' /\ (q \in owned' => Releases(q)' \/ q \in {s})
      BY <1>5, <1>6, <1>7
    <3> QED BY <1>1, <1>8, <2>1, <3>1
  <2>2. CASE code'[i] # Split(s, l, r)
    <3>1. Stores(code'[i]) = {} /\ code'[i].op # "bifurcate"
      BY <1>6, <2>2
    <3> QED BY <3>1
  <2> QED BY <2>1, <2>2
<1> QED BY <1>4, <1>9 DEF LeakInv

\* .DIE() stores to nothing.
LEMMA DieExact ==
  ASSUME GravesInv, LeakInv, NEW slots \in DieLists, process_die(slots)
  PROVE  LeakInv'
<1>1. /\ GraveBegun /\ UNCHANGED objectVars /\ Ready /\ code = <<>> /\ visible' = visible
  BY DEF process_die, AtGrave, Between, objectVars
<1>2. NothingForgotten' /\ ExactInv'
  BY <1>1, BetweenExact, RememberedStays
<1>3. Len(code') = Len(slots) /\ \A i \in 1 .. Len(slots) : code'[i] = Kill(slots[i])
  BY <1>1, BetweenExact, DieCode
<1>4. \A s : Stores(Kill(s)) = {} /\ Kill(s).op # "bifurcate"
  BY DEF Stores, Kill
<1>5. StoresToFree'
  BY <1>3, <1>4 DEF StoresToFree
<1> QED BY <1>2, <1>5 DEF LeakInv

\* A loop that is not entered has declared no name in its EXECUTE.
LEMMA SkipExact ==
  ASSUME GravesInv, LeakInv, Shapes = {}, NEW v \in Slot, NEW k \in 0 .. 2, Skip(v, k)
  PROVE  LeakInv'
<1>1. /\ GraveBegun /\ Ready /\ code = <<>> /\ code' = code /\ UNCHANGED objectVars
      /\ k > 0 => "execute_skipped" \in Shapes
      /\ visible' = visible + k
  BY DEF Skip, AtGrave, Between, objectVars
<1>2. NothingForgotten' /\ ExactInv'
  <2>1. visible' \in Int /\ visible <= visible'
    BY <1>1, BetweenExact
  <2> QED BY <1>1, <2>1, RememberedStays
<1>3. StoresToFree'
  <2>1. Len(code') = 0
    BY <1>1
  <2> QED BY <2>1 DEF StoresToFree
<1> QED BY <1>2, <1>3 DEF LeakInv

\* Blocks open and end: the table and the innermost block tell what can be released.
LEMMA BlockExact ==
  ASSUME GravesInv, LeakInv, Ready, code = <<>>, UNCHANGED objectVars,
         \A i \in 1 .. Len(code') : code'[i].op = "free_object",
         \A s \in owned : \/ s < visible'
                          \/ \E i \in 1 .. Len(code') : code'[i] = Free(s)
                          \/ InExecute' /\ s < Innermost'.len
  PROVE  LeakInv'
<1>1. owned' = owned
  BY DEF objectVars
<1>2. NothingForgotten'
  BY <1>1, FreeFields DEF NothingForgotten, Releases
<1>3. ExactInv'
  BY BetweenExact, SameExact DEF objectVars
<1>4. StoresToFree'
  BY DEF StoresToFree, Stores
<1> QED BY <1>2, <1>3, <1>4 DEF LeakInv

\* A loop is entered: the program has no locals of an open EXECUTE's block to forget.
LEMMA EnterExact ==
  ASSUME GravesInv, LeakInv, Shapes = {}, NEW v \in Slot, Enter(v)
  PROVE  LeakInv'
<1>1. /\ Ready /\ code = <<>> /\ code' = code /\ visible' = visible /\ UNCHANGED objectVars
      /\ ~ (InExecute /\ visible < Innermost.len)
  BY DEF Enter, AtGrave, Between, objectVars
<1>2. \A s \in owned : s < visible'
  <2> SUFFICES ASSUME NEW s \in owned, ~ (s < visible) PROVE FALSE
    BY <1>1
  <2>1. InExecute /\ s < Innermost.len /\ s \in Int /\ visible \in Int /\ TypeOK
    BY <1>1, BetweenExact
  <2>2. Innermost.len \in Int
    <3>1. Innermost.len \in 0 .. NumVars
      BY <2>1, InnermostType DEF InExecute
    <3> QED BY <3>1, ObjectsAssumption DEF ObjectsAssumption
  <2> QED BY <1>1, <2>1, <2>2
<1>3. Len(code') = 0
  BY <1>1
<1> QED BY <1>1, <1>2, <1>3, BlockExact

\* A body runs again: it had no locals.
LEMMA RepeatExact ==
  ASSUME GravesInv, LeakInv, Shapes = {}, Repeat
  PROVE  LeakInv'
<1>1. /\ Ready /\ code = <<>> /\ code' = code /\ scopes' = scopes /\ UNCHANGED objectVars
      /\ InBody /\ ~ (visible > Innermost.len) /\ visible' = Innermost.len
  BY DEF Repeat, Between, objectVars
<1>2. visible' = visible
  <2>1. Innermost.len \in Int /\ Innermost.len <= visible /\ visible \in Int
    BY <1>1, BetweenExact, BodyFacts
  <2> QED BY <1>1, <2>1
<1>3. \A s \in owned : s < visible'
  BY <1>1, <1>2, BetweenExact DEF InBody, InExecute
<1>4. Len(code') = 0
  BY <1>1
<1> QED BY <1>1, <1>3, <1>4, BlockExact

\* A body ends: the names it had are those its block will release.
LEMMA EndBodyExact ==
  ASSUME GravesInv, LeakInv, EndBody
  PROVE  LeakInv'
<1> DEFINE new == [kind |-> "execute", len |-> visible, var |-> Innermost.var, done |-> FALSE]
<1>1. /\ Ready /\ code = <<>> /\ code' = code /\ UNCHANGED objectVars /\ InBody
      /\ scopes' = Append(Outer, new)
  BY DEF EndBody, Between, objectVars
<1>2. InExecute' /\ Innermost'.len = visible
  <2>1. Outer \in Seq(Scope) /\ scopes # <<>>
    BY <1>1, BetweenExact, InnermostType DEF InBody
  <2>2. new.kind = "execute" /\ new.len = visible
    OBVIOUS
  <2> DEFINE S == Scope \cup {new}
  <2>3. Outer \in Seq(S) /\ new \in S
    BY <2>1, ElementOfSeq
  <2> HIDE DEF new, S
  <2>4. scopes' # <<>> /\ Len(scopes') = Len(Outer) + 1 /\ scopes'[Len(Outer) + 1] = new
    BY <1>1, <2>3, AppendProperties
  <2> QED BY <2>2, <2>4 DEF InExecute, Innermost
<1>3. \A s \in owned : s < visible
  BY <1>1, BetweenExact DEF InBody, InExecute
<1>4. Len(code') = 0
  BY <1>1
<1> QED BY <1>1, <1>2, <1>3, <1>4, BlockExact

\* A block ends: it releases every name that was not in the outer table.
LEMMA EndBlockExact ==
  ASSUME GravesInv, LeakInv, EndBlock
  PROVE  LeakInv'
<1>1. /\ Ready /\ code = <<>> /\ UNCHANGED objectVars /\ InExecute /\ visible' = visible
      /\ code' = IF Innermost.len > visible
                   THEN [i \in 1 .. Innermost.len - visible |-> Free(visible + i - 1)]
                   ELSE <<>>
  BY DEF EndBlock, Between, objectVars
<1>2. \A i \in 1 .. Len(code') : code'[i].op = "free_object"
  <2>1. \A i \in 1 .. Len(code') : code'[i] = Free(visible + i - 1)
    BY <1>1, BetweenExact, EndCode
  <2> QED BY <2>1, FreeFields
<1>3. \A s \in owned : \/ s < visible'
                       \/ \E i \in 1 .. Len(code') : code'[i] = Free(s)
  <2> SUFFICES ASSUME NEW s \in owned, ~ (s < visible)
               PROVE  \E i \in 1 .. Len(code') : code'[i] = Free(s)
    BY <1>1
  <2>1. /\ s < Innermost.len /\ s \in Int /\ visible \in Int
        /\ Innermost.len \in Int
    <3>1. s < Innermost.len /\ s \in Int /\ visible \in Int /\ TypeOK
      BY <1>1, BetweenExact
    <3>2. Innermost.len \in 0 .. NumVars
      BY <1>1, <3>1, InnermostType DEF InExecute
    <3> QED BY <3>1, <3>2, ObjectsAssumption DEF ObjectsAssumption
  <2>2. PICK n \in Nat : n = Innermost.len - visible
    BY <2>1
  <2>3. code' = [i \in 1 .. n |-> Free(visible + i - 1)]
    BY <1>1, <2>1, <2>2
  <2>4. Len(code') = n
    <3>1. code' \in Seq(Instruction)
      BY <1>1, BetweenExact, EndCode
    <3> QED BY <2>2, <2>3, <3>1, LenProperties
  <2>5. PICK i \in 1 .. n : i = s - visible + 1
    BY <2>1, <2>2
  <2>6. visible + i - 1 = s
    BY <2>1, <2>5
  <2>7. code'[i] = Free(s)
    BY <2>3, <2>5, <2>6
  <2> QED BY <2>4, <2>5, <2>7
<1> QED BY <1>1, <1>2, <1>3, BlockExact

\* Where the process ends, only the counts remain to be exact.
LEMMA StopExact ==
  ASSUME GravesInv, LeakInv, NEW how \in {"exited", "failed", "segv", "undefined"}, Stop(how)
  PROVE  LeakInv'
BY SameExact DEF LeakInv, Stop, Running

\* Whatever the grave.
LEMMA GraveExact ==
  ASSUME GravesInv, LeakInv, Shapes = {}, Grave
  PROVE  LeakInv'
<1>1. CASE \E v \in Slot, t \in Imports : process_import(v, t)
  BY <1>1, ImportExact
<1>2. CASE \E s, l, r \in Slot : process_bif(s, l, r)
  BY <1>2, BifExact
<1>3. CASE \E slots \in DieLists : process_die(slots)
  BY <1>3, DieExact
<1>4. CASE process_this_die
  BY <1>4, StopExact DEF process_this_die
<1>5. CASE \E v \in Slot : Enter(v)
  BY <1>5, EnterExact
<1>6. CASE \E v \in Slot, k \in 0 .. 2 : Skip(v, k)
  BY <1>6, SkipExact
<1>7. CASE Repeat
  BY <1>7, RepeatExact
<1>8. CASE EndBody
  BY <1>8, EndBodyExact
<1>9. CASE EndBlock
  BY <1>9, EndBlockExact
<1>10. CASE TestFaults
  BY <1>10, TestsNeverFault
<1> QED BY <1>1, <1>2, <1>3, <1>4, <1>5, <1>6, <1>7, <1>8, <1>9, <1>10 DEF Grave

(***************************************************************************)
(* The instructions of a grave.                                            *)
(***************************************************************************)

\* What holds when an instruction is fetched.
LEMMA FetchExact ==
  ASSUME GravesInv, LeakInv, Running
  PROVE  /\ TypeOK /\ ObjectsTypeOK /\ RuntimeInv /\ CodeInv
         /\ ExactInv /\ NothingForgotten /\ StoresToFree
BY ReadyInv DEF LeakInv

\* An instruction that stores nothing leaves the rest of the code as good as it was.
LEMMA CodeForgetsNothing ==
  ASSUME TypeOK, NothingForgotten, StoresToFree,
         NEW op \in {"free_object", "kill"}, Fetch(op),
         owned' = IF op = "free_object" THEN owned \ {Instr.slot} ELSE owned
  PROVE  NothingForgotten' /\ StoresToFree'
<1>1. /\ Instr.op = op /\ Instr = code[1] /\ Len(code) \in Nat \ {0}
      /\ Len(code') = Len(code) - 1
      /\ \A i \in 1 .. Len(code') : code'[i] = code[i + 1]
      /\ UNCHANGED <<visible, scopes>>
  BY FetchType
<1>2. owned' \subseteq owned
  OBVIOUS
<1>3. ASSUME NEW s \in owned', Releases(s) PROVE Releases(s)'
  <2>1. PICK i \in 1 .. Len(code) : code[i].op = "free_object" /\ code[i].slot = s
    BY <1>3 DEF Releases
  <2>2. i # 1
    <3>1. CASE op = "free_object"
      BY <1>1, <1>3, <2>1, <3>1
    <3>2. CASE op = "kill"
      BY <1>1, <2>1, <3>2
    <3> QED BY <3>1, <3>2
  <2>3. i - 1 \in 1 .. Len(code') /\ (i - 1) + 1 = i
    BY <1>1, <2>1, <2>2
  <2>4. code'[i - 1] = code[i]
    BY <1>1, <2>3
  <2> QED BY <2>1, <2>3, <2>4 DEF Releases
<1>4. NothingForgotten'
  BY <1>1, <1>2, <1>3 DEF NothingForgotten, InExecute, Innermost
<1>5. StoresToFree'
  <2> SUFFICES ASSUME NEW i \in 1 .. Len(code')
               PROVE  /\ \A s \in Stores(code'[i]) :
                           /\ s < visible'
                           /\ s \in owned' => Releases(s)' \/ s \in Uses(code'[i])
                      /\ code'[i].op = "bifurcate" => code'[i].left # code'[i].right
    BY DEF StoresToFree
  <2>1. i + 1 \in 1 .. Len(code) /\ code'[i] = code[i + 1]
    BY <1>1
  <2>2. /\ \A s \in Stores(code[i + 1]) :
             /\ s < visible
             /\ s \in owned => Releases(s) \/ s \in Uses(code[i + 1])
        /\ code[i + 1].op = "bifurcate" => code[i + 1].left # code[i + 1].right
    BY <2>1 DEF StoresToFree
  <2> QED BY <1>1, <1>2, <1>3, <2>1, <2>2
<1> QED BY <1>4, <1>5

\* An instruction that stores is the last: what it stores to is owned no more, or is
\* the variable it bifurcates, and is in the table.
LEMMA StoresUnowned ==
  ASSUME TypeOK, CodeInv, NothingForgotten, StoresToFree,
         NEW op \in {"create_object", "bifurcate"}, Fetch(op)
  PROVE  /\ Len(code') = 0
         /\ \A s \in Stores(Instr) : s < visible /\ (s \in owned => s \in Uses(Instr))
         /\ op = "bifurcate" => Instr.left # Instr.right
         /\ \A s \in owned : s < visible \/ (InExecute /\ s < Innermost.len)
<1>1. /\ Instr.op = op /\ Instr = code[1] /\ Len(code) \in Nat \ {0}
      /\ Len(code') = Len(code) - 1 /\ 1 \in 1 .. Len(code)
  BY FetchType
<1>2. \A j \in 1 .. Len(code) : j = 1
  BY <1>1 DEF CodeInv, StoresLast
<1>3. \A s : ~ Releases(s)
  BY <1>1, <1>2 DEF Releases
<1>4. Len(code') = 0
  <2>1. Len(code) \in 1 .. Len(code)
    BY <1>1
  <2> QED BY <1>1, <1>2, <2>1
<1> QED BY <1>1, <1>3, <1>4 DEF StoresToFree, NothingForgotten

\* After the stores, no code is left, and the new owned variables are in the table.
LEMMA StoredInTable ==
  ASSUME NEW S, \A s \in S : s < visible,
         \A s \in owned : s < visible \/ (InExecute /\ s < Innermost.len),
         owned' \subseteq owned \cup S, Len(code') = 0, UNCHANGED <<visible, scopes>>
  PROVE  NothingForgotten' /\ StoresToFree'
BY DEF NothingForgotten, StoresToFree, InExecute, Innermost

\* The call of free_object keeps the invariant: what it releases is owned no more.
LEMMA ExecFreeExact ==
  ASSUME GravesInv, LeakInv, ExecFree
  PROVE  LeakInv'
<1>1. Fetch("free_object") /\ free_slot(Instr.slot) /\ Running
  BY DEF ExecFree, Fetch, Ready
<1>2. /\ TypeOK /\ ObjectsTypeOK /\ RuntimeInv /\ CodeInv
      /\ ExactInv /\ NothingForgotten /\ StoresToFree
  BY <1>1, FetchExact
<1>3. ObjectsTypeOK'
  BY <1>2, TypeNext DEF Next, TypeOK
<1>4. ExactInv'
  BY <1>1, <1>2, <1>3, UsedIsOwned, FreeSlotExact
<1>5. owned' = owned \ {Instr.slot}
  BY <1>1 DEF free_slot
<1>6. NothingForgotten' /\ StoresToFree'
  BY <1>1, <1>2, <1>5, CodeForgetsNothing
<1> QED BY <1>4, <1>6 DEF LeakInv

\* So does the call of kill.
LEMMA ExecKillExact ==
  ASSUME GravesInv, LeakInv, ExecKill
  PROVE  LeakInv'
<1>1. Fetch("kill") /\ kill(Instr.slot) /\ Running
  BY DEF ExecKill, Fetch, Ready
<1>2. /\ TypeOK /\ ObjectsTypeOK /\ RuntimeInv /\ CodeInv
      /\ ExactInv /\ NothingForgotten /\ StoresToFree
  BY <1>1, FetchExact
<1>3. ObjectsTypeOK'
  BY <1>2, TypeNext DEF Next, TypeOK
<1>4. ExactInv'
  BY <1>1, <1>2, <1>3, FetchType, KillExact
<1>5. owned' = owned
  BY <1>1 DEF kill, Fault, Stop, objectVars
<1>6. NothingForgotten' /\ StoresToFree'
  BY <1>1, <1>2, <1>5, CodeForgetsNothing
<1> QED BY <1>4, <1>6 DEF LeakInv

\* So does the call of create_object: the variable it stores to was released before.
LEMMA ExecCreateExact ==
  ASSUME GravesInv, LeakInv, ExecCreate
  PROVE  LeakInv'
<1>1. Fetch("create_object") /\ create_object(Instr.slot, Instr.type) /\ Running
  BY DEF ExecCreate, Fetch, Ready
<1>2. /\ TypeOK /\ ObjectsTypeOK /\ RuntimeInv /\ CodeInv
      /\ ExactInv /\ NothingForgotten /\ StoresToFree
  BY <1>1, FetchExact
<1>3. ObjectsTypeOK'
  BY <1>2, TypeNext DEF Next, TypeOK
<1>4. /\ Instr.slot \in Slot /\ Instr.type \in Type /\ Instr.op = "create_object"
      /\ Stores(Instr) = {Instr.slot} /\ Uses(Instr) = {}
      /\ UNCHANGED <<visible, scopes>>
  BY <1>1, <1>2, FetchType DEF Stores, Uses
<1>5. /\ Len(code') = 0
      /\ \A s \in Stores(Instr) : s < visible /\ (s \in owned => s \in Uses(Instr))
      /\ \A s \in owned : s < visible \/ (InExecute /\ s < Innermost.len)
  BY <1>1, <1>2, StoresUnowned
<1>6. ExactInv'
  BY <1>1, <1>2, <1>3, <1>4, <1>5, CreateExact
<1>7. owned' \subseteq owned \cup {Instr.slot}
  BY <1>1 DEF create_object, Stop
<1>8. NothingForgotten' /\ StoresToFree'
  BY <1>4, <1>5, <1>7, StoredInTable
<1> QED BY <1>6, <1>8 DEF LeakInv

\* So does the call of bifurcate, with the stores of the halves.
LEMMA ExecSplitExact ==
  ASSUME GravesInv, LeakInv, ExecSplit
  PROVE  LeakInv'
<1>1. Fetch("bifurcate") /\ bifurcate(Instr.slot, Instr.left, Instr.right) /\ Running
  BY DEF ExecSplit, Fetch, Ready
<1>2. /\ TypeOK /\ ObjectsTypeOK /\ RuntimeInv /\ CodeInv
      /\ ExactInv /\ NothingForgotten /\ StoresToFree
  BY <1>1, FetchExact
<1>3. ObjectsTypeOK'
  BY <1>2, TypeNext DEF Next, TypeOK
<1>4. /\ Instr.left \in Slot /\ Instr.right \in Slot /\ Instr.op = "bifurcate"
      /\ Instr.slot \in owned
      /\ Stores(Instr) = {Instr.left, Instr.right} /\ Uses(Instr) = {Instr.slot}
      /\ UNCHANGED <<visible, scopes>>
  BY <1>1, <1>2, FetchType, UsedIsOwned DEF Stores, Uses
<1>5. /\ Len(code') = 0 /\ Instr.left # Instr.right
      /\ \A s \in Stores(Instr) : s < visible /\ (s \in owned => s \in Uses(Instr))
      /\ \A s \in owned : s < visible \/ (InExecute /\ s < Innermost.len)
  BY <1>1, <1>2, StoresUnowned
<1>6. ExactInv'
  <2>1. /\ Instr.left \in owned => Instr.left = Instr.slot
        /\ Instr.right \in owned => Instr.right = Instr.slot
    BY <1>4, <1>5
  <2> QED BY <1>1, <1>2, <1>3, <1>4, <1>5, <2>1, BifurcateExact
<1>7. owned' \subseteq owned \cup {Instr.left, Instr.right}
  BY <1>1 DEF bifurcate, BifurcateDead, BifurcateAgain, BifurcateFirst, BifurcateFails,
     BifurcateFault, StoreHalves, Stop
<1>8. NothingForgotten' /\ StoresToFree'
  BY <1>4, <1>5, <1>7, StoredInTable
<1> QED BY <1>6, <1>8 DEF LeakInv

\* So does every step of a call inside the runtime.
LEMMA RunRuntimeExact ==
  ASSUME GravesInv, LeakInv, RunRuntime
  PROVE  LeakInv'
<1>1. RuntimeStep /\ Running /\ UNCHANGED <<code, visible, scopes>>
  BY DEF RunRuntime, RuntimeStep, free_object, unlink, free, InRuntime
<1>2. /\ TypeOK /\ ObjectsTypeOK /\ RuntimeInv /\ CodeInv
      /\ ExactInv /\ NothingForgotten /\ StoresToFree
  BY <1>1, FetchExact
<1>3. ObjectsTypeOK'
  BY <1>2, TypeNext DEF Next, TypeOK
<1>4. owned' = owned
  BY <1>1 DEF RuntimeStep, free_object, unlink, free, Stop
<1>5. NothingForgotten'
  BY <1>1, <1>2, <1>4 DEF NothingForgotten, Releases, InExecute, Innermost
<1>6. StoresToFree'
  BY <1>1, <1>2, <1>4 DEF StoresToFree, Releases
<1> QED BY <1>1, <1>2, <1>3, <1>5, <1>6, RuntimeExact DEF LeakInv

(***************************************************************************)
(* The theorems.                                                           *)
(***************************************************************************)

\* At the start there is nothing to leak.
LEMMA ExactInit ==
  ASSUME Init
  PROVE  LeakInv
<1>1. heap = [a \in {} |-> Null] /\ owned = {} /\ code = <<>> /\ DOMAIN heap = {}
  BY DEF Init, ObjectsInit
<1>2. ExactInv
  BY <1>1 DEF ExactInv, CountsReferred, CountlessFreed, HalvesAcyclic
<1>3. NothingForgotten /\ StoresToFree
  BY <1>1 DEF NothingForgotten, StoresToFree
<1> QED BY <1>2, <1>3 DEF LeakInv

\* Every step of a program with none of the Shapes keeps the invariant.
LEMMA ExactNext ==
  ASSUME GravesInv, LeakInv, Shapes = {}, [Next]_vars
  PROVE  LeakInv'
<1>1. CASE UNCHANGED vars
  <2>1. UNCHANGED <<heap, progvars, owned, calls, status, code, visible, scopes>>
    BY <1>1 DEF vars
  <2>2. ExactInv'
    BY <2>1, SameExact DEF LeakInv
  <2>3. NothingForgotten => NothingForgotten'
    BY <2>1 DEF NothingForgotten, Releases, InExecute, Innermost
  <2>4. StoresToFree => StoresToFree'
    BY <2>1 DEF StoresToFree, Releases
  <2> QED BY <2>1, <2>2, <2>3, <2>4 DEF LeakInv, Running
<1>2. CASE Next
  BY <1>1, <1>2, GraveExact, ExecFreeExact, ExecKillExact, ExecCreateExact, ExecSplitExact,
     RunRuntimeExact DEF Next, Terminated
<1> QED BY <1>1, <1>2

\* Module Graves, LeakInv: in a program with none of the hazardous shapes no object counts
\* a reference that is not there, what has run out of its count is about to be freed, and
\* every variable that counts for a reference will be released or is still in scope.
THEOREM CountsAreExact ==
  ASSUME Shapes = {}
  PROVE  Spec => []LeakInv
<1>1. Spec => []GravesInv
  <2>1. Shapes \cap UnsafeShapes = {}
    OBVIOUS
  <2> QED BY <2>1, GravesInvariant
<1>2. Init => LeakInv
  BY ExactInit
<1>3. GravesInv /\ LeakInv /\ [Next]_vars => LeakInv'
  BY ExactNext
<1> QED BY <1>1, <1>2, <1>3, PTL DEF Spec

\* Between two graves, take the objects outside a set that has those of the variables and
\* the halves of its members.  One of them is the half of no other, and no member of the
\* set nor a variable refers to it: it would count a reference that is not there.
LEMMA ExactNoLeak ==
  ASSUME TypeOK, ExactInv, Between, NEW S \in SUBSET DOMAIN heap,
         Roots \subseteq S, HasHalves(S)
  PROVE  S = DOMAIN heap
<1>1. calls = <<>> /\ Len(calls) = 0 /\ ObjectsTypeOK
  BY DEF Between, Ready, TypeOK
<1> DEFINE Lost == DOMAIN heap \ S
<1>2. SUFFICES ASSUME Lost # {} PROVE FALSE
  OBVIOUS
<1>3. PICK a \in Lost : \A p \in Lost : a \notin {heap[p].left, heap[p].right}
  <2>1. Lost \in (SUBSET DOMAIN heap) \ {{}}
    BY <1>2
  <2> HIDE DEF Lost
  <2> QED BY <2>1 DEF ExactInv, HalvesAcyclic
<1>4. a \in DOMAIN heap /\ a \notin S
  BY <1>3
<1>5. PICK t : t \in References(a)
  <2>1. ~ (heap[a].refcount <= 0)
    BY <1>1, <1>4 DEF ExactInv, CountlessFreed
  <2>2. heap[a].refcount <= Cardinality(References(a)) /\ heap[a].refcount \in Int
    BY <1>1, <1>4, HeapType DEF ExactInv, CountsReferred
  <2>3. References(a) # {}
    BY <2>1, <2>2, FS_EmptySet
  <2> QED BY <2>3
<1> DEFINE R == RefsIn(heap, progvars, owned, Detached, calls, a)
<1>6. t \in R
  BY <1>5, RefsAre
\* Not by a variable: it would be a root.
<1>7. ASSUME NEW s \in owned, t = <<"variable", s>> PROVE FALSE
  <2>1. progvars[s] = a
    BY <1>6, <1>7, RefMembers
  <2> QED BY <1>4, <2>1 DEF Roots
\* Not by a member of S, which has its halves, nor by an object outside S.
<1>8. ASSUME NEW p \in DOMAIN heap, a \in {heap[p].left, heap[p].right} PROVE FALSE
  BY <1>3, <1>4, <1>8 DEF HasHalves
<1>9. ASSUME NEW p \in DOMAIN heap, t = <<"left", p>> \/ t = <<"right", p>> PROVE FALSE
  <2>1. heap[p].left = a \/ heap[p].right = a
    BY <1>6, <1>9, RefMembers
  <2> QED BY <1>8, <2>1
<1>10. \A i \in 1 .. Len(calls) : FALSE
  BY <1>1
<1> HIDE DEF R
<1> QED BY <1>6, <1>7, <1>9, <1>10, RefKinds DEF R

\* Module Graves, NoLeak: a program with none of the hazardous shapes leaks nothing,
\* whatever its size, its nesting of blocks, its input and the memory it has.
THEOREM NothingLeaks ==
  ASSUME Shapes = {}
  PROVE  Spec => []NoLeak
<1>1. Spec => []LeakInv
  BY CountsAreExact
<1>2. Spec => []TypeOK
  BY TypeCorrect
<1>3. LeakInv /\ TypeOK => NoLeak
  BY ExactNoLeak DEF LeakInv, NoLeak
<1> QED BY <1>1, <1>2, <1>3, PTL

=============================================================================
