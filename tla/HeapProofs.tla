----------------------------- MODULE HeapProofs -----------------------------
(***************************************************************************)
(* What the steps of a compiled program do to its objects: the two rules   *)
(* of the language about halves and deaths, for every program, and the     *)
(* refinement of module Heap, for programs without the UnsafeShapes.       *)
(***************************************************************************)
EXTENDS GravesProofs

(***************************************************************************)
(* The objects after each operation of the runtime.                        *)
(***************************************************************************)

\* A step leaves everything of an object but its count.
Same(p) ==
  /\ heap'[p].type = heap[p].type /\ heap'[p].state = heap[p].state
  /\ heap'[p].left = heap[p].left /\ heap'[p].right = heap[p].right
  /\ heap'[p].input_text = heap[p].input_text

SameObjs == DOMAIN heap' = DOMAIN heap /\ \A p \in DOMAIN heap : Same(p)

\* A count that changes changes nothing else of an object.
LEMMA CountIsApart ==
  ASSUME NEW o \in Object, NEW n \in Int
  PROVE  LET c == [o EXCEPT !.refcount = n]
         IN  /\ c.type = o.type /\ c.state = o.state
             /\ c.left = o.left /\ c.right = o.right
             /\ c.input_text = o.input_text
BY DEF Object

\* free_object counts down, and no more.
LEMMA FreeObjectHeap ==
  ASSUME ObjectsTypeOK, free_object
  PROVE  SameObjs
<1> DEFINE p == Top.obj
<1>1. CASE heap' = heap
  BY <1>1 DEF SameObjs, Same
<1>2. CASE p \in DOMAIN heap /\ heap' = [heap EXCEPT ![p].refcount = @ - 1]
  <2> DEFINE n == heap[p].refcount - 1
  <2>1. heap[p] \in Object /\ n \in Int
    BY <1>2, HeapType
  <2>2. heap' = [heap EXCEPT ![p] = [heap[p] EXCEPT !.refcount = n]]
    BY <1>2
  <2>3. Same(p)
    <3> HIDE DEF n
    <3>1. heap'[p] = [heap[p] EXCEPT !.refcount = n]
      BY <1>2, <2>2
    <3> QED BY <2>1, <3>1, CountIsApart DEF Same
  <2>4. DOMAIN heap' = DOMAIN heap /\ \A x \in DOMAIN heap : x # p => heap'[x] = heap[x]
    BY <1>2
  <2> QED BY <2>3, <2>4 DEF SameObjs, Same
<1> QED BY <1>1, <1>2 DEF free_object, Stop

\* unlink takes its halves from one object.
LEMMA UnlinkHeap ==
  ASSUME ObjectsTypeOK, unlink, Top.obj \in DOMAIN heap
  PROVE  /\ DOMAIN heap' = DOMAIN heap /\ calls' = Return
         /\ UNCHANGED <<progvars, owned, status>>
         /\ \A x \in DOMAIN heap : x # Top.obj => heap'[x] = heap[x]
         /\ heap'[Top.obj].type = heap[Top.obj].type
         /\ heap'[Top.obj].state = heap[Top.obj].state
         /\ heap'[Top.obj].input_text = heap[Top.obj].input_text
         /\ heap'[Top.obj].left = universal_dead
         /\ heap'[Top.obj].right = universal_dead
<1> DEFINE p == Top.obj
<1>1. heap[p] \in Object /\ p \in Addr
  BY HeapType
<1>2. /\ heap' = [heap EXCEPT ![p] = [heap[p] EXCEPT !.left = universal_dead,
                                                    !.right = universal_dead]]
      /\ calls' = Return /\ UNCHANGED <<progvars, owned, status>>
  BY <1>1 DEF unlink, Dangling
<1> QED BY <1>1, <1>2 DEF Object

\* kill marks one object dead and calls for the release of its halves, or does nothing.
LEMMA KillHeap ==
  ASSUME ObjectsTypeOK, NEW s \in Slot, kill(s)
  PROVE  \/ UNCHANGED <<heap, progvars, owned, calls>>
         \/ /\ progvars[s] \in DOMAIN heap /\ heap[progvars[s]].type # "universe"
            /\ DOMAIN heap' = DOMAIN heap
            /\ \A x \in DOMAIN heap : x # progvars[s] => heap'[x] = heap[x]
            /\ heap'[progvars[s]].type = heap[progvars[s]].type
            /\ heap'[progvars[s]].state = "dead"
            /\ heap'[progvars[s]].input_text = heap[progvars[s]].input_text
            /\ heap'[progvars[s]].left = heap[progvars[s]].left
            /\ heap'[progvars[s]].right = heap[progvars[s]].right
            /\ calls' = <<Call("unlink", progvars[s]),
                          Call("free_object", heap[progvars[s]].right),
                          Call("free_object", heap[progvars[s]].left)>>
            /\ UNCHANGED <<progvars, owned, status>>
<1> DEFINE p == progvars[s]
<1>1. CASE UNCHANGED objectVars
  BY <1>1 DEF objectVars
<1>2. CASE Fault(p)
  BY <1>2 DEF Fault, Stop
<1>3. ASSUME p \in DOMAIN heap, Killable(p),
             heap' = [heap EXCEPT ![p].state = "dead"],
             calls' = <<Call("unlink", p), Call("free_object", heap[p].right),
                        Call("free_object", heap[p].left)>>,
             UNCHANGED <<progvars, owned, status>>
      PROVE  /\ p \in DOMAIN heap /\ heap[p].type # "universe"
             /\ DOMAIN heap' = DOMAIN heap
             /\ \A x \in DOMAIN heap : x # p => heap'[x] = heap[x]
             /\ heap'[p].type = heap[p].type
             /\ heap'[p].state = "dead"
             /\ heap'[p].input_text = heap[p].input_text
             /\ heap'[p].left = heap[p].left
             /\ heap'[p].right = heap[p].right
  <2>1. heap[p] \in Object
    BY <1>3, HeapType
  <2>2. heap' = [heap EXCEPT ![p] = [heap[p] EXCEPT !.state = "dead"]]
    BY <1>3
  <2> QED BY <1>3, <2>1, <2>2 DEF Killable, Object
<1> QED BY <1>1, <1>2, <1>3 DEF kill

\* create_object adds one object, or fails.
LEMMA CreateHeap ==
  ASSUME ObjectsTypeOK, NEW s \in Slot, NEW t \in Type, create_object(s, t)
  PROVE  \/ UNCHANGED <<heap, progvars, owned, calls>>
         \/ \E a \in Unused, text \in InputText(t) :
              /\ DOMAIN heap' = DOMAIN heap \cup {a}
              /\ \A x \in DOMAIN heap : heap'[x] = heap[x]
              /\ heap'[a] = NewObject(t, "alive", 1, text)
              /\ progvars' = [progvars EXCEPT ![s] = a]
              /\ owned' = owned \cup {s}
              /\ UNCHANGED calls
BY DEF create_object, Stop, Unused

\* The counts that bifurcate adds change nothing else.
LEMMA RetainedHeap ==
  ASSUME ObjectsTypeOK, NEW left, NEW right, heap' = Retained(left, right)
  PROVE  SameObjs
<1> SUFFICES ASSUME NEW p \in DOMAIN heap PROVE Same(p)
  BY DEF SameObjs, Retained
<1> DEFINE k == (IF p = left THEN 1 ELSE 0)
           m == (IF p = right THEN 1 ELSE 0)
           n == heap[p].refcount + k + m
<1>1. heap'[p] = [heap[p] EXCEPT !.refcount = n]
  BY DEF Retained
<1>2. heap[p] \in Object /\ heap[p].refcount \in Int
  BY HeapType
<1>3. n \in Int
  BY <1>2
<1> HIDE DEF n
<1> QED BY <1>1, <1>2, <1>3, CountIsApart DEF Same

\* bifurcate fails, or hands out halves: those that are there, dead ones, or new ones.
LEMMA BifurcateHeap ==
  ASSUME ObjectsTypeOK, NEW s \in Slot, NEW l \in Slot, NEW r \in Slot,
         bifurcate(s, l, r)
  PROVE  LET p == progvars[s] IN
         \/ UNCHANGED <<heap, progvars, owned, calls>>
         \/ /\ p \in {Null, universal_dead}
            /\ heap' = heap /\ StoreHalves(s, l, r, universal_dead, universal_dead)
         \/ /\ p \in DOMAIN heap /\ heap[p].type # "universe" /\ heap[p].left # Null
            /\ SameObjs /\ StoreHalves(s, l, r, heap[p].left, heap[p].right)
         \/ /\ p \in DOMAIN heap /\ heap[p].type # "universe"
            /\ heap[p].left = Null /\ heap[p].right = Null
            /\ ~ EmptyInput(p)
            /\ \E a, b \in Unused :
                 /\ a # b /\ a # p /\ b # p
                 /\ DOMAIN heap' = DOMAIN heap \cup {a, b}
                 /\ \A x \in DOMAIN heap : x # p => heap'[x] = heap[x]
                 /\ heap'[a] = LeftHalf(p) /\ heap'[b] = RightHalf(p)
                 /\ heap'[p].type = heap[p].type /\ heap'[p].state = heap[p].state
                 /\ heap'[p].input_text = heap[p].input_text
                 /\ heap'[p].left = a /\ heap'[p].right = b
                 /\ StoreHalves(s, l, r, a, b)
<1> DEFINE p == progvars[s]
<1>1. CASE BifurcateDead(s, l, r)
  BY <1>1 DEF BifurcateDead
<1>2. CASE BifurcateAgain(s, l, r)
  BY <1>2, RetainedHeap DEF BifurcateAgain
<1>3. CASE BifurcateFirst(s, l, r)
  <2>1. PICK a \in Unused, b \in Unused :
          /\ a # b
          /\ heap' = [x \in DOMAIN heap \cup {a, b} |->
                        CASE x = a -> LeftHalf(p)
                          [] x = b -> RightHalf(p)
                          [] x = p -> [heap[p] EXCEPT !.left = a, !.right = b]
                          [] OTHER -> heap[x]]
          /\ StoreHalves(s, l, r, a, b)
    BY <1>3 DEF BifurcateFirst
  <2>2. p \in DOMAIN heap /\ a # p /\ b # p /\ a \notin DOMAIN heap /\ b \notin DOMAIN heap
    BY <1>3 DEF BifurcateFirst, Unused
  <2>3. heap[p] \in Object
    BY <2>2, HeapType
  <2>4. heap'[p] = [heap[p] EXCEPT !.left = a, !.right = b]
    BY <2>1, <2>2
  <2>5. /\ heap'[p].type = heap[p].type /\ heap'[p].state = heap[p].state
        /\ heap'[p].input_text = heap[p].input_text
        /\ heap'[p].left = a /\ heap'[p].right = b
    BY <2>3, <2>4 DEF Object
  <2>6. /\ DOMAIN heap' = DOMAIN heap \cup {a, b}
        /\ \A x \in DOMAIN heap : x # p => heap'[x] = heap[x]
        /\ heap'[a] = LeftHalf(p) /\ heap'[b] = RightHalf(p)
    BY <2>1, <2>2
  <2> QED BY <1>3, <2>1, <2>2, <2>5, <2>6 DEF BifurcateFirst
<1>4. CASE BifurcateFails(s) \/ BifurcateFault(s)
  BY <1>4 DEF BifurcateFails, BifurcateFault, Stop
<1> QED BY <1>1, <1>2, <1>3, <1>4 DEF bifurcate

\* free takes one object away.
LEMMA FreeHeap ==
  ASSUME ObjectsTypeOK, free, Top.obj \in DOMAIN heap
  PROVE  /\ DOMAIN heap' = DOMAIN heap \ {Top.obj} /\ calls' = Return
         /\ UNCHANGED <<progvars, owned, status>>
         /\ \A x \in DOMAIN heap' : heap'[x] = heap[x]
<1>1. Top.obj \in Addr
  BY HeapType
<1> QED BY <1>1 DEF free, Dangling

(***************************************************************************)
(* The stack of calls.                                                     *)
(***************************************************************************)

\* A step inside the runtime keeps the frames below the innermost, and may put a
\* cascade in the place of it.
LEMMA RuntimeFrames ==
  ASSUME ObjectsTypeOK, RuntimeStep
  PROVE  /\ Len(calls) \in Nat \ {0} /\ Len(calls') \in Nat
         /\ \A i \in 1 .. Len(calls') :
              \/ i \in 1 .. Len(calls) /\ calls'[i] = calls[i]
              \/ i = Len(calls) /\ calls'[i] = Call("free", Top.obj)
              \/ i > Len(calls) /\ calls'[i].fn = "free_object"
<1>1. calls # <<>> /\ calls \in Seq(Frame)
  BY DEF RuntimeStep, free_object, unlink, free, InRuntime, ObjectsTypeOK
<1>2. /\ Len(calls) \in Nat \ {0} /\ Return \in Seq(Frame) /\ Len(Return) = Len(calls) - 1
      /\ \A i \in 1 .. Len(calls) - 1 : Return[i] = calls[i]
      /\ Top.obj \in Pointer
  BY <1>1, StackProperties
<1>3. CASE calls' = Return
  BY <1>2, <1>3
<1>4. CASE calls' = calls
  BY <1>2, <1>4
<1>5. ASSUME NEW p \in DOMAIN heap, p = Top.obj,
             calls' = Return \o <<Call("free", p), Call("free_object", heap[p].right),
                                  Call("free_object", heap[p].left)>>
      PROVE  \A i \in 1 .. Len(calls') :
               \/ i \in 1 .. Len(calls) /\ calls'[i] = calls[i]
               \/ i = Len(calls) /\ calls'[i] = Call("free", Top.obj)
               \/ i > Len(calls) /\ calls'[i].fn = "free_object"
  <2>1. /\ Call("free", p) \in Frame
        /\ Call("free_object", heap[p].right) \in Frame
        /\ Call("free_object", heap[p].left) \in Frame
        /\ Call("free_object", heap[p].right).fn = "free_object"
        /\ Call("free_object", heap[p].left).fn = "free_object"
    BY <1>2, <1>5, HeapType, CallType
  <2> DEFINE f == Call("free", p)
             g == Call("free_object", heap[p].right)
             h == Call("free_object", heap[p].left)
  <2> HIDE DEF f, g, h
  <2>2. /\ Len(Return \o <<f, g, h>>) = Len(calls) + 2
        /\ \A i \in 1 .. Len(calls) - 1 : (Return \o <<f, g, h>>)[i] = calls[i]
        /\ (Return \o <<f, g, h>>)[Len(calls)] = f
        /\ (Return \o <<f, g, h>>)[Len(calls) + 1] = g
        /\ (Return \o <<f, g, h>>)[Len(calls) + 2] = h
    BY <1>2, <2>1, CascadeProperties DEF f, g, h
  <2>3. calls' = Return \o <<f, g, h>>
    BY <1>5 DEF f, g, h
  <2>4. g.fn = "free_object" /\ h.fn = "free_object" /\ f = Call("free", Top.obj)
    BY <1>5, <2>1 DEF f, g, h
  <2> QED BY <1>2, <2>2, <2>3, <2>4
<1>6. Len(calls') \in Nat
  BY TypeRuntime, LenProperties DEF ObjectsTypeOK
<1>7. \/ calls' = calls \/ calls' = Return
      \/ Top.obj \in DOMAIN heap
         /\ calls' = Return \o <<Call("free", Top.obj), Call("free_object", heap[Top.obj].right),
                                 Call("free_object", heap[Top.obj].left)>>
  BY DEF RuntimeStep, free_object, unlink, free, Stop
<1> QED BY <1>2, <1>3, <1>4, <1>5, <1>6, <1>7

\* The choice of a grave makes no call, and changes no object and no variable.
LEMMA GraveObjects ==
  ASSUME Grave
  PROVE  UNCHANGED <<heap, progvars, owned, calls>>
BY DEF Grave, process_import, process_bif, process_die, process_this_die, Enter, Skip,
       Repeat, EndBody, EndBlock, TestFaults, Fault, Stop, objectVars

\* What a step inside the runtime does to the objects.
LEMMA RuntimeHeap ==
  ASSUME ObjectsTypeOK, RuntimeStep, NEW p \in DOMAIN heap, p \in DOMAIN heap'
  PROVE  /\ heap'[p].type = heap[p].type /\ heap'[p].state = heap[p].state
         /\ heap'[p].input_text = heap[p].input_text
         /\ \/ heap'[p].left = heap[p].left /\ heap'[p].right = heap[p].right
            \/ /\ Top.fn = "unlink" /\ Top.obj = p
               /\ heap'[p].left = universal_dead /\ heap'[p].right = universal_dead
<1>1. CASE free_object
  BY <1>1, FreeObjectHeap DEF SameObjs, Same
<1>2. CASE unlink
  <2>1. CASE Top.obj \in DOMAIN heap
    BY <1>2, <2>1, UnlinkHeap DEF unlink
  <2>2. CASE Top.obj \notin DOMAIN heap
    BY <1>2, <2>2 DEF unlink, Stop
  <2> QED BY <2>1, <2>2
<1>3. CASE free
  <2>1. CASE Top.obj \in DOMAIN heap
    BY <1>3, <2>1, FreeHeap
  <2>2. CASE Top.obj \notin DOMAIN heap
    BY <1>3, <2>2 DEF free, Stop
  <2> QED BY <2>1, <2>2
<1> QED BY <1>1, <1>2, <1>3 DEF RuntimeStep

(***************************************************************************)
(* "The only way to alter state is by killing an object."                  *)
(***************************************************************************)
DyingByKill ==
  \A p \in DOMAIN heap \cap DOMAIN heap' :
    heap'[p].state # heap[p].state =>
      /\ heap'[p].state = "dead" /\ heap[p].type # "universe"
      /\ \E q \in DOMAIN heap : BeingKilled(q) /\ p \in Family(q)

\* What dies is the object a .DIE() names itself.
LEMMA NamedDies ==
  ASSUME \A p \in DOMAIN heap \cap DOMAIN heap' :
           heap'[p].state # heap[p].state =>
             /\ heap'[p].state = "dead" /\ heap[p].type # "universe"
             /\ Ready /\ code # <<>> /\ Instr.op = "kill" /\ progvars[Instr.slot] = p
  PROVE  DyingByKill
BY DEF DyingByKill, BeingKilled, Family

\* Every operation but kill leaves the state of every object alone.
LEMMA DeathStep ==
  ASSUME TypeOK, [Next]_vars
  PROVE  DyingByKill
<1>0. ObjectsTypeOK
  BY DEF TypeOK
<1>1. CASE heap' = heap
  BY <1>1 DEF DyingByKill
<1>2. CASE ExecKill
  <2>1. /\ Instr.slot \in Slot /\ kill(Instr.slot)
        /\ Ready /\ code # <<>> /\ Instr.op = "kill"
    BY <1>2, FetchType DEF ExecKill, Fetch
  <2> QED BY <1>0, <1>1, <2>1, KillHeap, NamedDies
<1>3. CASE ExecCreate
  <2>1. Instr.slot \in Slot /\ Instr.type \in Type /\ create_object(Instr.slot, Instr.type)
    BY <1>3, FetchType DEF ExecCreate
  <2> QED BY <1>0, <1>1, <2>1, CreateHeap DEF DyingByKill, Unused
<1>4. CASE ExecSplit
  <2>1. /\ Instr.slot \in Slot /\ Instr.left \in Slot /\ Instr.right \in Slot
        /\ bifurcate(Instr.slot, Instr.left, Instr.right)
    BY <1>4, FetchType DEF ExecSplit
  <2> QED BY <1>0, <1>1, <2>1, BifurcateHeap DEF DyingByKill, SameObjs, Same, Unused
<1>5. CASE RunRuntime
  BY <1>0, <1>5, RuntimeHeap DEF RunRuntime, DyingByKill
<1> QED BY <1>1, <1>2, <1>3, <1>4, <1>5, GraveObjects
        DEF Next, ExecFree, free_slot, Terminated, vars

\* README, "Deaths": whatever the program, no step revives an object, none kills a
\* universe, and an object dies only in the .DIE() of a variable that refers to it or to
\* an object it descends from (kill).
THEOREM DeathOnlyByKill == Spec => DeathByKill
<1>1. TypeOK /\ [Next]_vars => [DyingByKill]_vars
  BY DeathStep
<1> QED BY <1>1, TypeCorrect, PTL DEF Spec, DeathByKill, DyingByKill

(***************************************************************************)
(* "You cannot change what halves an object has."                          *)
(***************************************************************************)
\* An object being killed is dead: kill has marked it before it called for the release
\* of its halves.
LEMMA KilledDeadStep ==
  ASSUME TypeOK, KilledDead, [Next]_vars
  PROVE  KilledDead'
<1>0. ObjectsTypeOK
  BY DEF TypeOK
<1>1. CASE UNCHANGED <<heap, calls>>
  BY <1>1 DEF KilledDead
<1>2. CASE ExecKill
  <2>1. Instr.slot \in Slot /\ kill(Instr.slot)
    BY <1>2, FetchType DEF ExecKill
  <2>2. ASSUME NEW p, p = progvars[Instr.slot], p \in DOMAIN heap,
               heap'[p].state = "dead",
               calls' = <<Call("unlink", p), Call("free_object", heap[p].right),
                          Call("free_object", heap[p].left)>>
        PROVE  KilledDead'
    <3>1. Len(calls') = 3 /\ calls'[1].obj = p
          /\ calls'[2].fn = "free_object" /\ calls'[3].fn = "free_object"
      BY <2>2 DEF Call
    <3> QED BY <2>2, <3>1 DEF KilledDead
  <2> QED BY <1>0, <1>1, <2>1, <2>2, KillHeap
<1>3. CASE (ExecFree \/ ExecCreate \/ ExecSplit) /\ ~ UNCHANGED <<heap, calls>>
  <2>1. /\ Instr.slot \in Slot /\ Instr.left \in Slot /\ Instr.right \in Slot
        /\ Instr.type \in Type /\ Ready
    BY <1>3, FetchType DEF ExecFree, ExecCreate, ExecSplit, Fetch
  <2>2. calls' = <<>> \/ calls' = <<Call("free_object", progvars[Instr.slot])>>
    <3>1. CASE ExecFree
      BY <3>1 DEF ExecFree, free_slot
    <3>2. CASE ExecCreate
      BY <1>0, <1>3, <2>1, <3>2, CreateHeap DEF ExecCreate, Ready
    <3>3. CASE ExecSplit
      <4>1. bifurcate(Instr.slot, Instr.left, Instr.right)
        BY <3>3 DEF ExecSplit
      <4> QED BY <1>0, <1>3, <2>1, <4>1, BifurcateHeap DEF StoreHalves
    <3> QED BY <1>3, <3>1, <3>2, <3>3
  <2>3. \A i \in 1 .. Len(calls') : calls'[i].fn = "free_object"
    BY <2>2 DEF Call
  <2> QED BY <2>3 DEF KilledDead
<1>4. CASE RunRuntime
  <2>1. RuntimeStep
    BY <1>4 DEF RunRuntime
  <2>2. DOMAIN heap' \subseteq DOMAIN heap
    BY <1>0, <2>1, FreeObjectHeap, UnlinkHeap, FreeHeap
       DEF RuntimeStep, SameObjs, unlink, free, Stop
  <2>3. ASSUME NEW i \in 1 .. Len(calls'), calls'[i].fn = "unlink", calls'[i].obj \in DOMAIN heap'
        PROVE  heap'[calls'[i].obj].state = "dead"
    <3>1. i \in 1 .. Len(calls) /\ calls'[i] = calls[i]
      BY <1>0, <2>1, <2>3, RuntimeFrames DEF Call
    <3> QED BY <1>0, <2>1, <2>2, <2>3, <3>1, RuntimeHeap DEF KilledDead
  <2> QED BY <2>3 DEF KilledDead
<1> QED BY <1>1, <1>2, <1>3, <1>4, GraveObjects DEF Next, Terminated, vars

FixedHalves ==
  \A p \in DOMAIN heap \cap DOMAIN heap' :
    /\ Kept(p, heap[p].left, heap'[p].left)
    /\ Kept(p, heap[p].right, heap'[p].right)

\* Only bifurcate gives an object halves, when it has none, and only unlink takes them.
LEMMA HalvesStep ==
  ASSUME TypeOK, KilledDead, [Next]_vars
  PROVE  FixedHalves
<1>0. ObjectsTypeOK
  BY DEF TypeOK
<1>1. CASE heap' = heap
  BY <1>1 DEF FixedHalves, Kept
<1>2. CASE ExecKill
  <2>1. Instr.slot \in Slot /\ kill(Instr.slot)
    BY <1>2, FetchType DEF ExecKill
  <2> QED BY <1>0, <1>1, <2>1, KillHeap DEF FixedHalves, Kept
<1>3. CASE ExecCreate
  <2>1. Instr.slot \in Slot /\ Instr.type \in Type /\ create_object(Instr.slot, Instr.type)
    BY <1>3, FetchType DEF ExecCreate
  <2> QED BY <1>0, <1>1, <2>1, CreateHeap DEF FixedHalves, Kept, Unused
<1>4. CASE ExecSplit
  <2>1. /\ Instr.slot \in Slot /\ Instr.left \in Slot /\ Instr.right \in Slot
        /\ bifurcate(Instr.slot, Instr.left, Instr.right)
    BY <1>4, FetchType DEF ExecSplit
  <2> QED BY <1>0, <1>1, <2>1, BifurcateHeap DEF FixedHalves, Kept, SameObjs, Same, Unused
<1>5. CASE RunRuntime
  <2>1. RuntimeStep
    BY <1>5 DEF RunRuntime
  <2>2. ASSUME Top.fn = "unlink", Top.obj \in DOMAIN heap
        PROVE  heap[Top.obj].state = "dead"
    <3>1. Len(calls) \in 1 .. Len(calls)
      BY <1>0, <2>1, RuntimeFrames
    <3> QED BY <2>2, <3>1 DEF KilledDead, Top
  <2> QED BY <1>0, <2>1, <2>2, RuntimeHeap DEF FixedHalves, Kept
<1> QED BY <1>1, <1>2, <1>3, <1>4, <1>5, GraveObjects
        DEF Next, ExecFree, free_slot, Terminated, vars

\* README, "Bifurcations": whatever the program, an object has the same halves from its
\* first bifurcation on, until it is killed; from then on they are dead ones.
THEOREM HalvesAreFixed == Spec => HalvesFixed
<1>1. Init => KilledDead
  BY DEF Init, ObjectsInit, KilledDead
<1>2. TypeOK /\ KilledDead /\ [Next]_vars => KilledDead'
  BY KilledDeadStep
<1>3. TypeOK /\ KilledDead /\ [Next]_vars => [FixedHalves]_vars
  BY HalvesStep
<1> QED BY <1>1, <1>2, <1>3, TypeCorrect, PTL DEF Spec, HalvesFixed, FixedHalves

(***************************************************************************)
(* A compiled program without the UnsafeShapes implements module Heap:     *)
(* each step shows one step of Heap there, or none.                        *)
(***************************************************************************)
\* No free() and no unlinking is among calls of free_object only.
LEMMA NothingUnderWay ==
  ASSUME calls = <<>> \/ \E p : calls = <<Call("free_object", p)>>, NEW x
  PROVE  ~ UnderWay("free", x) /\ ~ UnderWay("unlink", x)
BY DEF UnderWay, Call

\* What a step shows of an object that it leaves alone.
LEMMA SameView ==
  ASSUME UNCHANGED <<progvars, owned>>,
         {q \in DOMAIN heap : ~ UnderWay("free", q)}'
           = {q \in DOMAIN heap : ~ UnderWay("free", q)},
         \A p \in DOMAIN heap : ~ UnderWay("free", p) =>
           /\ heap'[p].type = heap[p].type /\ heap'[p].state = heap[p].state
           /\ heap'[p].input_text = heap[p].input_text
           /\ HalfOf(p, heap[p].left)' = HalfOf(p, heap[p].left)
           /\ HalfOf(p, heap[p].right)' = HalfOf(p, heap[p].right)
  PROVE  UNCHANGED H!heapVars
<1>1. HeapVars' = HeapVars
  BY DEF HeapVars
<1>2. HeapObjs' = HeapObjs
  BY DEF HeapObjs
<1> QED BY <1>1, <1>2 DEF H!heapVars

\* Nothing is shown of a step that leaves objects, variables and calls alone.
LEMMA NoView ==
  ASSUME UNCHANGED <<heap, progvars, owned, calls>>
  PROVE  UNCHANGED H!heapVars
BY DEF H!heapVars, HeapVars, HeapObjs, UnderWay, HalfOf

\* What is shown while no call is under way, or only the release of a variable.
LEMMA PlainView ==
  ASSUME calls = <<>> \/ \E p : calls = <<Call("free_object", p)>>
  PROVE  HeapObjs = [p \in DOMAIN heap |->
                       [type  |-> heap[p].type, state |-> heap[p].state,
                        left  |-> heap[p].left, right |-> heap[p].right,
                        text  |-> heap[p].input_text]]
BY NothingUnderWay DEF HeapObjs, HalfOf

(***************************************************************************)
(* The instructions of a grave.                                            *)
(***************************************************************************)

\* The release of a variable is a Forget.
LEMMA FreeSlotShows ==
  ASSUME GravesInv, ExecFree
  PROVE  H!Next
<1> DEFINE s == Instr.slot
<1>1. s \in Slot /\ free_slot(s) /\ calls = <<>>
  BY FetchType DEF GravesInv, ExecFree, Fetch, Ready
<1>2. /\ calls' = <<Call("free_object", progvars[s])>>
      /\ owned' = owned \ {s} /\ UNCHANGED <<heap, progvars>>
  BY <1>1 DEF free_slot
<1>3. HeapVars' = [HeapVars EXCEPT ![s] = Null]
  BY <1>1, <1>2 DEF HeapVars
<1>4. HeapObjs' = HeapObjs
  <2>1. \A x : ~ UnderWay("free", x) /\ ~ UnderWay("unlink", x)
    BY <1>1 DEF UnderWay
  <2>2. \A x : ~ UnderWay("free", x)' /\ ~ UnderWay("unlink", x)'
    BY <1>2 DEF UnderWay, Call
  <2> QED BY <1>2, <2>1, <2>2 DEF HeapObjs, HalfOf
<1>5. H!Forget(s)
  BY <1>3, <1>4 DEF H!Forget
<1> QED BY <1>1, <1>5 DEF H!Next

\* The death of an object and the unlinking of its halves are one Kill.
LEMMA KillShows ==
  ASSUME GravesInv, ExecKill
  PROVE  H!Next \/ UNCHANGED H!heapVars
<1> DEFINE s == Instr.slot
           p == progvars[s]
<1>1. s \in Slot /\ kill(s) /\ calls = <<>> /\ s \in owned /\ ObjectsTypeOK
  BY FetchType, UsedIsOwned DEF GravesInv, ExecKill, Fetch, Ready, TypeOK
<1>2. CASE UNCHANGED <<heap, progvars, owned, calls>>
  BY <1>2, NoView
<1>3. ASSUME /\ p \in DOMAIN heap /\ heap[p].type # "universe"
             /\ DOMAIN heap' = DOMAIN heap
             /\ \A x \in DOMAIN heap : x # p => heap'[x] = heap[x]
             /\ heap'[p].type = heap[p].type
             /\ heap'[p].state = "dead"
             /\ heap'[p].input_text = heap[p].input_text
             /\ calls' = <<Call("unlink", p), Call("free_object", heap[p].right),
                           Call("free_object", heap[p].left)>>
             /\ UNCHANGED <<progvars, owned>>
      PROVE  H!Kill(s)
  <2>1. HeapVars[s] = p /\ HeapVars' = HeapVars
    BY <1>1, <1>3 DEF HeapVars
  <2>2. HeapObjs = [x \in DOMAIN heap |->
                       [type  |-> heap[x].type, state |-> heap[x].state,
                        left  |-> heap[x].left, right |-> heap[x].right,
                        text  |-> heap[x].input_text]]
    BY <1>1, PlainView
  <2>3. \A x : ~ UnderWay("free", x)' /\ (UnderWay("unlink", x)' <=> x = p)
    <3>1. /\ Len(calls') = 3 /\ calls'[1] = Call("unlink", p)
          /\ calls'[2] = Call("free_object", heap[p].right)
          /\ calls'[3] = Call("free_object", heap[p].left)
      BY <1>3
    <3> HIDE DEF p
    <3> QED BY <3>1 DEF UnderWay, Call
  <2>4. HeapObjs' = [x \in DOMAIN heap |->
                        IF x = p
                          THEN [type |-> heap[x].type, state |-> "dead",
                                left |-> universal_dead, right |-> universal_dead,
                                text |-> heap[x].input_text]
                          ELSE HeapObjs[x]]
    <3> HIDE DEF p
    <3> QED BY <1>3, <2>2, <2>3 DEF HeapObjs, HalfOf
  <2>5. HeapObjs' = [HeapObjs EXCEPT ![p].state = "dead", ![p].left = universal_dead,
                                     ![p].right = universal_dead]
    <3> HIDE DEF p
    <3> QED BY <1>3, <2>2, <2>4
  <2> QED BY <1>3, <2>1, <2>2, <2>5 DEF H!Kill
<1> QED BY <1>1, <1>2, <1>3, KillHeap DEF H!Next

\* What is made by create_object is made by Create.
LEMMA CreateShows ==
  ASSUME GravesInv, ExecCreate
  PROVE  H!Next \/ UNCHANGED H!heapVars
<1> DEFINE s == Instr.slot
           t == Instr.type
<1>1. /\ s \in Slot /\ t \in Type /\ create_object(s, t) /\ calls = <<>> /\ ObjectsTypeOK
  BY FetchType DEF GravesInv, ExecCreate, Fetch, Ready, TypeOK
<1>2. CASE UNCHANGED <<heap, progvars, owned, calls>>
  BY <1>2, NoView
<1>3. ASSUME NEW a \in Unused, NEW text \in InputText(t),
             DOMAIN heap' = DOMAIN heap \cup {a},
             \A x \in DOMAIN heap : heap'[x] = heap[x],
             heap'[a] = NewObject(t, "alive", 1, text),
             progvars' = [progvars EXCEPT ![s] = a],
             owned' = owned \cup {s},
             UNCHANGED calls
      PROVE  H!Create(s, t)
  <2> HIDE DEF s, t
  <2>1. HeapVars' = [HeapVars EXCEPT ![s] = a]
    BY <1>1, <1>3 DEF HeapVars, ObjectsTypeOK
  <2>2. HeapObjs = [x \in DOMAIN heap |->
                       [type  |-> heap[x].type, state |-> heap[x].state,
                        left  |-> heap[x].left, right |-> heap[x].right,
                        text  |-> heap[x].input_text]]
    BY <1>1, PlainView
  <2>3. \A x : ~ UnderWay("free", x)' /\ ~ UnderWay("unlink", x)'
    BY <1>1, <1>3 DEF UnderWay
  <2>4. HeapObjs' = [x \in DOMAIN heap \cup {a} |->
                       [type  |-> heap'[x].type, state |-> heap'[x].state,
                        left  |-> heap'[x].left, right |-> heap'[x].right,
                        text  |-> heap'[x].input_text]]
    BY <1>3, <2>3 DEF HeapObjs, HalfOf
  <2>5. /\ heap'[a].type = t /\ heap'[a].state = "alive" /\ heap'[a].input_text = text
        /\ heap'[a].left = Null /\ heap'[a].right = Null
    BY <1>3 DEF NewObject
  <2>6. HeapObjs' = [x \in DOMAIN HeapObjs \cup {a} |->
                       IF x = a THEN H!New(t, "alive", text) ELSE HeapObjs[x]]
    BY <1>3, <2>2, <2>4, <2>5 DEF H!New, Unused
  <2>7. a \in Addr \ DOMAIN HeapObjs
    BY <1>3, <2>2 DEF Unused
  <2> QED BY <1>3, <2>1, <2>6, <2>7 DEF H!Create, InputText
<1>4. H!Create(s, t) => H!Next
  BY <1>1 DEF H!Next, Type
<1> HIDE DEF s, t
<1> QED BY <1>1, <1>2, <1>3, <1>4, CreateHeap

\* A first half is dead when its input starts with 0, and a right half is dead when
\* it is the input of no more characters.
LEMMA RestOfInput ==
  ASSUME NEW text \in Seq({0, 1}), text # <<>>
  PROVE  Len(text) = 1 <=> Tail(text) = <<>>
<1>1. Len(Tail(text)) = Len(text) - 1 /\ Len(text) \in Nat
  BY HeadTailProperties, LenProperties
<1>2. Tail(text) \in Seq({0, 1})
  BY HeadTailProperties
<1> QED BY <1>1, <1>2, EmptySeq

\* The variables after the stores of both halves.
LEMMA StoreShows ==
  ASSUME ObjectsTypeOK, NEW s \in Slot, NEW l \in Slot, NEW r \in Slot,
         NEW left, NEW right, StoreHalves(s, l, r, left, right)
  PROVE  /\ HeapVars' = [HeapVars EXCEPT ![l] = left, ![r] = right]
         /\ H!Refer(l, r, left, right)
         /\ \A x : ~ UnderWay("free", x)' /\ ~ UnderWay("unlink", x)'
<1>1. HeapVars' = [HeapVars EXCEPT ![l] = left, ![r] = right]
  BY DEF StoreHalves, HeapVars, ObjectsTypeOK
<1>2. \A x : ~ UnderWay("free", x)' /\ ~ UnderWay("unlink", x)'
  BY DEF StoreHalves, UnderWay, Call
<1> QED BY <1>1, <1>2 DEF H!Refer

\* Halves handed out, again or for the first time, are handed out by Bifurcate.
LEMMA SplitShows ==
  ASSUME GravesInv, ExecSplit
  PROVE  H!Next \/ UNCHANGED H!heapVars
<1> DEFINE s == Instr.slot
           l == Instr.left
           r == Instr.right
           p == HeapVars[s]
           View(h) == [x \in DOMAIN h |->
                         [type  |-> h[x].type, state |-> h[x].state,
                          left  |-> h[x].left, right |-> h[x].right,
                          text  |-> h[x].input_text]]
<1>1. /\ s \in Slot /\ l \in Slot /\ r \in Slot /\ bifurcate(s, l, r)
      /\ calls = <<>> /\ s \in owned /\ ObjectsTypeOK /\ OwnedStored
  BY FetchType, UsedIsOwned
     DEF GravesInv, ExecSplit, Fetch, Ready, TypeOK, RuntimeInv
<1>2. progvars[s] = p /\ p # Null
  BY <1>1 DEF HeapVars, OwnedStored
<1>3. HeapObjs = View(heap) /\ DOMAIN HeapObjs = DOMAIN heap
  BY <1>1, PlainView
<1>4. ASSUME NEW left, NEW right, StoreHalves(s, l, r, left, right)
      PROVE  HeapObjs' = View(heap')
  <2> HIDE DEF s, l, r
  <2>1. \A x : ~ UnderWay("free", x)' /\ ~ UnderWay("unlink", x)'
    BY <1>1, <1>4, StoreShows
  <2> QED BY <2>1 DEF HeapObjs, HalfOf
<1> HIDE DEF s, l, r, p
<1>5. CASE UNCHANGED <<heap, progvars, owned, calls>>
  BY <1>5, NoView
<1>6. CASE /\ p = universal_dead /\ heap' = heap
           /\ StoreHalves(s, l, r, universal_dead, universal_dead)
  <2>1. HeapObjs' = HeapObjs
    BY <1>3, <1>4, <1>6
  <2>2. H!Refer(l, r, universal_dead, universal_dead)
    BY <1>1, <1>6, StoreShows
  <2>3. H!Bifurcate(s, l, r)
    BY <1>2, <1>6, <2>1, <2>2 DEF H!Bifurcate, p
  <2> QED BY <1>1, <2>3 DEF H!Next
<1>7. CASE /\ p \in DOMAIN heap /\ heap[p].type # "universe" /\ heap[p].left # Null
           /\ SameObjs /\ StoreHalves(s, l, r, heap[p].left, heap[p].right)
  <2>1. HeapObjs' = HeapObjs
    BY <1>3, <1>4, <1>7 DEF SameObjs, Same
  <2>2. H!Refer(l, r, heap[p].left, heap[p].right)
    BY <1>1, <1>7, StoreShows
  <2>3. H!Bifurcate(s, l, r)
    BY <1>2, <1>3, <1>7, <2>1, <2>2 DEF H!Bifurcate, p
  <2> QED BY <1>1, <2>3 DEF H!Next
<1>8. ASSUME /\ p \in DOMAIN heap /\ heap[p].type # "universe"
             /\ heap[p].left = Null /\ heap[p].right = Null
             /\ ~ EmptyInput(p),
             NEW a \in Unused, NEW b \in Unused,
             /\ a # b /\ a # p /\ b # p
             /\ DOMAIN heap' = DOMAIN heap \cup {a, b}
             /\ \A x \in DOMAIN heap : x # p => heap'[x] = heap[x]
             /\ heap'[a] = LeftHalf(p) /\ heap'[b] = RightHalf(p)
             /\ heap'[p].type = heap[p].type /\ heap'[p].state = heap[p].state
             /\ heap'[p].input_text = heap[p].input_text
             /\ heap'[p].left = a /\ heap'[p].right = b
             /\ StoreHalves(s, l, r, a, b)
      PROVE  H!Bifurcate(s, l, r)
  <2>1. a \in Addr \ DOMAIN HeapObjs /\ b \in Addr \ DOMAIN HeapObjs
    BY <1>3, <1>8 DEF Unused
  <2>2. HeapObjs' = View(heap')
    BY <1>4, <1>8
  <2>3. H!Refer(l, r, a, b)
    BY <1>1, <1>8, StoreShows
  <2>4. HeapObjs[p] = [type  |-> heap[p].type, state |-> heap[p].state,
                       left  |-> heap[p].left, right |-> heap[p].right,
                       text  |-> heap[p].input_text]
    BY <1>3, <1>8
  <2>5. HeapObjs'[a] = H!Left(p)
    BY <1>8, <2>2, <2>4 DEF LeftHalf, NewObject, H!Left, H!New
  <2>6. HeapObjs'[b] = H!Right(p)
    <3>1. CASE heap[p].type = "input"
      <4>1. heap[p].input_text \in Seq({0, 1}) /\ heap[p].input_text # <<>>
        BY <1>1, <1>8, <3>1, HeapType DEF EmptyInput
      <4>2. Len(heap[p].input_text) = 1 <=> Tail(heap[p].input_text) = <<>>
        BY <4>1, RestOfInput
      <4>3. HeapObjs[p].type = "input" /\ HeapObjs[p].text = heap[p].input_text
        BY <2>4, <3>1
      <4> DEFINE rest == Tail(heap[p].input_text)
                 state == IF rest = <<>> THEN "dead" ELSE "alive"
      <4>4. H!Right(p) = H!New("input", state, rest)
        BY <4>2, <4>3 DEF H!Right
      <4>5. heap'[b] = NewObject("input", state, 2, rest)
        BY <1>8, <3>1 DEF RightHalf
      <4> HIDE DEF state, rest
      <4>6. /\ heap'[b].type = "input" /\ heap'[b].state = state
            /\ heap'[b].left = Null /\ heap'[b].right = Null
            /\ heap'[b].input_text = rest
        BY <4>5 DEF NewObject
      <4>7. b \in DOMAIN heap'
        BY <1>8
      <4>8. View(heap')[b] = [type |-> "input", state |-> state, left |-> Null,
                            right |-> Null, text |-> rest]
        BY <4>6, <4>7
      <4> QED BY <2>2, <4>4, <4>8 DEF H!New
    <3>2. CASE heap[p].type # "input"
      BY <1>8, <2>2, <2>4, <3>2 DEF RightHalf, NewObject, H!Right, H!New
    <3> QED BY <3>1, <3>2
  <2>7. HeapObjs'[p] = [HeapObjs[p] EXCEPT !.left = a, !.right = b]
    <3>1. HeapObjs'[p] = [type  |-> heap[p].type, state |-> heap[p].state,
                          left  |-> a, right |-> b, text  |-> heap[p].input_text]
      BY <1>8, <2>2
    <3> DEFINE o == HeapObjs[p]
               t == heap[p].type
               st == heap[p].state
               x == heap[p].input_text
    <3>2. /\ o = [type |-> t, state |-> st, left |-> heap[p].left, right |-> heap[p].right,
                  text |-> x]
          /\ HeapObjs'[p] = [type |-> t, state |-> st, left |-> a, right |-> b, text |-> x]
      BY <2>4, <3>1
    <3> HIDE DEF o, t, st, x
    <3> DEFINE q == [o EXCEPT !.left = a]
    <3>3. q = [type |-> t, state |-> st, left |-> a, right |-> heap[p].right, text |-> x]
      BY <3>2
    <3>4. [o EXCEPT !.left = a, !.right = b] = [q EXCEPT !.right = b]
      BY Zenon
    <3> HIDE DEF q
    <3> QED BY <3>2, <3>3, <3>4 DEF o
  <2>8. \A x \in DOMAIN heap : x # p => HeapObjs'[x] = HeapObjs[x]
    BY <1>3, <1>8, <2>2
  <2>9. HeapObjs' = [x \in DOMAIN HeapObjs \cup {a, b} |->
                        CASE x = a -> H!Left(p)
                          [] x = b -> H!Right(p)
                          [] x = p -> [HeapObjs[p] EXCEPT !.left = a, !.right = b]
                          [] OTHER -> HeapObjs[x]]
    <3>1. HeapObjs' = [x \in DOMAIN HeapObjs \cup {a, b} |-> HeapObjs'[x]]
      BY <1>3, <1>8, <2>2
    <3> QED BY <1>3, <1>8, <2>1, <2>5, <2>6, <2>7, <2>8, <3>1
  <2>10. p \in DOMAIN HeapObjs /\ HeapObjs[p].type # "universe" /\ HeapObjs[p].left = Null
         /\ (HeapObjs[p].type = "input" => HeapObjs[p].text # <<>>)
    BY <1>3, <1>8, <2>4 DEF EmptyInput
  <2>11. \E c, d \in Addr \ DOMAIN HeapObjs :
           /\ c # d
           /\ H!Refer(l, r, c, d)
           /\ HeapObjs' = [x \in DOMAIN HeapObjs \cup {c, d} |->
                             CASE x = c -> H!Left(p)
                               [] x = d -> H!Right(p)
                               [] x = p -> [HeapObjs[p] EXCEPT !.left = c, !.right = d]
                               [] OTHER -> HeapObjs[x]]
    BY <1>8, <2>1, <2>3, <2>9, Zenon
  <2> HIDE DEF View
  <2> QED BY <1>2, <2>10, <2>11, Zenon DEF H!Bifurcate, p
<1>9. H!Bifurcate(s, l, r) => H!Next
  BY <1>1 DEF H!Next
<1>10. \/ UNCHANGED <<heap, progvars, owned, calls>>
       \/ /\ p \in {Null, universal_dead}
          /\ heap' = heap /\ StoreHalves(s, l, r, universal_dead, universal_dead)
       \/ /\ p \in DOMAIN heap /\ heap[p].type # "universe" /\ heap[p].left # Null
          /\ SameObjs /\ StoreHalves(s, l, r, heap[p].left, heap[p].right)
       \/ H!Bifurcate(s, l, r)
  BY <1>1, <1>2, <1>8, BifurcateHeap, ZenonT(60)
<1> QED BY <1>2, <1>5, <1>6, <1>7, <1>9, <1>10

(***************************************************************************)
(* The steps inside the runtime.                                           *)
(***************************************************************************)

\* A call that returns is under way no more, if it ever was; the others still are.
LEMMA ReturnShows ==
  ASSUME ObjectsTypeOK, InRuntime, calls' = Return, NEW fn, NEW x
  PROVE  /\ UnderWay(fn, x)' => UnderWay(fn, x)
         /\ UnderWay(fn, x) /\ Top # Call(fn, x) => UnderWay(fn, x)'
<1>1. calls \in Seq(Frame) /\ calls # <<>>
  BY DEF ObjectsTypeOK, InRuntime
<1>2. /\ Len(calls) \in Nat \ {0} /\ Len(Return) = Len(calls) - 1
      /\ \A i \in 1 .. Len(calls) - 1 : Return[i] = calls[i]
  BY <1>1, StackProperties
<1>3. ASSUME NEW i \in 1 .. Len(calls), calls[i] = Call(fn, x), Top # Call(fn, x)
      PROVE  i \in 1 .. Len(Return) /\ Return[i] = calls[i]
  BY <1>2, <1>3 DEF Top
<1> QED BY <1>2, <1>3 DEF UnderWay

\* An object whose last reference is being released is no one's half and in no variable.
LEMMA LastIsUnreferred ==
  ASSUME ObjectsTypeOK, RuntimeInv, free_object, Top.obj \in DOMAIN heap,
         ~ (heap[Top.obj].refcount - 1 > 0)
  PROVE  /\ Top.obj \in DOMAIN HeapObjs
         /\ ~ H!ReferredTo(Top.obj)
<1> DEFINE p == Top.obj
           c == <<"call", Len(calls)>>
<1>1. /\ \A t \in References(p) : t = c
      /\ \A i \in 1 .. Len(calls) : calls[i].fn = "free" => calls[i].obj # p
  BY LastReference DEF free_object
<1>2. p \in Addr /\ p # Null /\ p # universal_dead
  BY HeapType, ObjectsAssumption DEF ObjectsAssumption
<1>3. p \in DOMAIN HeapObjs
  BY <1>1 DEF HeapObjs, UnderWay, Call
<1>4. ASSUME NEW s \in Slot, HeapVars[s] = p
      PROVE  FALSE
  <2>1. s \in owned /\ progvars[s] = p
    BY <1>2, <1>4 DEF HeapVars
  <2>2. <<"variable", s>> \in References(p)
    BY <2>1, RefsAre, RefMembers
  <2> QED BY <1>1, <2>2
<1>5. ASSUME NEW x \in DOMAIN HeapObjs, p \in {HeapObjs[x].left, HeapObjs[x].right}
      PROVE  FALSE
  <2>1. /\ x \in DOMAIN heap /\ ~ UnderWay("free", x)
        /\ HeapObjs[x].left = HalfOf(x, heap[x].left)
        /\ HeapObjs[x].right = HalfOf(x, heap[x].right)
    BY DEF HeapObjs
  <2>2. ~ UnderWay("unlink", x) /\ p \in {heap[x].left, heap[x].right}
    BY <1>2, <1>5, <2>1 DEF HalfOf
  <2>3. x \notin Detached
    <3> SUFFICES ASSUME NEW i \in 1 .. Len(calls), calls[i].fn # "free_object",
                        calls[i].obj = x
                 PROVE  FALSE
      BY DEF Detached
    <3>1. calls[i] \in Frame
      BY ElementOfSeq DEF ObjectsTypeOK
    <3>2. calls[i] = Call("free", x) \/ calls[i] = Call("unlink", x)
      BY <3>1 DEF Frame, Call
    <3> QED BY <2>1, <2>2, <3>2 DEF UnderWay
  <2>4. <<"left", x>> \in References(p) \/ <<"right", x>> \in References(p)
    BY <2>1, <2>2, <2>3, RefsAre, RefMembers
  <2> QED BY <1>1, <2>4
<1> QED BY <1>3, <1>4, <1>5 DEF H!ReferredTo

\* The release that takes the last reference away is the Collect of the object, and
\* any other is not seen.
LEMMA FreeObjectShows ==
  ASSUME ObjectsTypeOK, RuntimeInv, free_object
  PROVE  H!Next \/ UNCHANGED H!heapVars
<1> DEFINE p == Top.obj
<1>1. /\ calls \in Seq(Frame) /\ calls # <<>> /\ InRuntime /\ Top.fn = "free_object"
      /\ Len(calls) \in Nat \ {0} /\ Return \in Seq(Frame) /\ Len(Return) = Len(calls) - 1
      /\ \A i \in 1 .. Len(calls) - 1 : Return[i] = calls[i]
      /\ p \in Pointer
  BY StackProperties DEF ObjectsTypeOK, free_object, InRuntime
<1>2. \A x : Top # Call("free", x) /\ Top # Call("unlink", x)
  BY <1>1 DEF Call
<1>3. CASE calls' = Return
  <2>1. \A fn \in {"free", "unlink"} : \A x : UnderWay(fn, x)' <=> UnderWay(fn, x)
    BY <1>1, <1>2, <1>3, ReturnShows
  <2>2. SameObjs /\ UNCHANGED <<progvars, owned>>
    BY <1>3, FreeObjectHeap DEF free_object, Stop
  <2> QED BY <2>1, <2>2, SameView DEF SameObjs, Same, HalfOf
<1>4. CASE UNCHANGED <<heap, progvars, owned, calls>>
  BY <1>4, NoView
<1>5. ASSUME p \in DOMAIN heap, ~ (heap[p].refcount - 1 > 0),
             calls' = Return \o <<Call("free", p), Call("free_object", heap[p].right),
                                  Call("free_object", heap[p].left)>>,
             UNCHANGED <<progvars, owned>>
      PROVE  H!Collect(p)
  <2>1. p \in DOMAIN HeapObjs /\ ~ H!ReferredTo(p)
    BY <1>5, LastIsUnreferred
  <2>2. SameObjs
    BY FreeObjectHeap
  <2> DEFINE f == Call("free", p)
             g == Call("free_object", heap[p].right)
             h == Call("free_object", heap[p].left)
             n == Len(calls)
  <2>3. f \in Frame /\ g \in Frame /\ h \in Frame
    BY <1>1, <1>5, HeapType, CallType
  <2>4. g.fn = "free_object" /\ h.fn = "free_object"
    BY DEF Call
  <2>5. /\ Len(calls') = n + 2
        /\ \A i \in 1 .. n - 1 : calls'[i] = calls[i]
        /\ calls'[n] = f /\ calls'[n + 1] = g /\ calls'[n + 2] = h
    <3>1. calls' = Return \o <<f, g, h>>
      BY <1>5
    <3> HIDE DEF f, g, h
    <3>2. /\ Len(Return \o <<f, g, h>>) = Len(Return) + 3
          /\ \A i \in 1 .. Len(Return) : (Return \o <<f, g, h>>)[i] = Return[i]
          /\ (Return \o <<f, g, h>>)[Len(Return) + 1] = f
          /\ (Return \o <<f, g, h>>)[Len(Return) + 2] = g
          /\ (Return \o <<f, g, h>>)[Len(Return) + 3] = h
      BY <1>1, <2>3, CascadeProperties
    <3>3. n \in Nat \ {0} /\ Len(Return) = n - 1 /\ \A i \in 1 .. n - 1 : Return[i] = calls[i]
      BY <1>1
    <3> DEFINE cascade == Return \o <<f, g, h>>
               below == Return
    <3> HIDE DEF n, cascade, below
    <3>4. /\ Len(cascade) = Len(below) + 3
          /\ \A i \in 1 .. Len(below) : cascade[i] = below[i]
          /\ cascade[Len(below) + 1] = f /\ cascade[Len(below) + 2] = g
          /\ cascade[Len(below) + 3] = h /\ calls' = cascade
          /\ Len(below) = n - 1 /\ \A i \in 1 .. n - 1 : below[i] = calls[i]
      BY <3>1, <3>2, <3>3 DEF cascade, below
    <3> QED BY <3>3, <3>4
  <2>6. n \in Nat \ {0} /\ calls[n].fn = "free_object"
    BY <1>1 DEF Top
  <2>7. \A x : UnderWay("unlink", x)' <=> UnderWay("unlink", x)
    <3> SUFFICES ASSUME NEW x PROVE UnderWay("unlink", x)' <=> UnderWay("unlink", x)
      OBVIOUS
    <3>1. Call("unlink", x).fn = "unlink" /\ f.fn = "free"
      BY DEF Call
    <3> DEFINE u == Call("unlink", x)
    <3> HIDE DEF f, g, h, u
    <3>2. u.fn = "unlink"
      BY <3>1 DEF u
    <3>3. (\E i \in 1 .. n + 2 : calls'[i] = u) <=> (\E i \in 1 .. n : calls[i] = u)
      BY <2>4, <2>5, <2>6, <3>1, <3>2
    <3> QED BY <2>5, <3>3 DEF UnderWay, u
  <2>8. \A x : UnderWay("free", x)' <=> UnderWay("free", x) \/ x = p
    <3> SUFFICES ASSUME NEW x PROVE UnderWay("free", x)' <=> UnderWay("free", x) \/ x = p
      OBVIOUS
    <3> DEFINE u == Call("free", x)
    <3>1. u.fn = "free" /\ (u = f <=> x = p)
      BY DEF Call
    <3> HIDE DEF f, g, h, u
    <3>2. (\E i \in 1 .. n + 2 : calls'[i] = u)
            <=> (\E i \in 1 .. n : calls[i] = u) \/ u = f
      <4>1. ASSUME NEW i \in 1 .. n + 2, calls'[i] = u
            PROVE  (\E j \in 1 .. n : calls[j] = u) \/ u = f
        BY <2>4, <2>5, <2>6, <3>1, <4>1
      <4>2. ASSUME NEW i \in 1 .. n, calls[i] = u
            PROVE  \E j \in 1 .. n + 2 : calls'[j] = u
        <5>1. i \in 1 .. n + 2 /\ calls'[i] = u
          BY <2>5, <2>6, <3>1, <4>2
        <5> QED BY <5>1
      <4>3. n \in 1 .. n + 2 /\ calls'[n] = f
        BY <2>5, <2>6
      <4> QED BY <4>1, <4>2, <4>3
    <3> QED BY <2>5, <3>1, <3>2 DEF UnderWay, u
  <2>9. HeapVars' = HeapVars
    BY <1>5 DEF HeapVars
  <2> HIDE DEF f, g, h, n, p
  <2>10. HeapObjs' = [x \in DOMAIN HeapObjs \ {p} |-> HeapObjs[x]]
    <3>1. {q \in DOMAIN heap : ~ UnderWay("free", q)}'
            = {q \in DOMAIN heap : ~ UnderWay("free", q)} \ {p}
      BY <2>2, <2>8 DEF SameObjs
    <3>2. \A x \in DOMAIN heap : HalfOf(x, heap[x].left)' = HalfOf(x, heap[x].left)
                              /\ HalfOf(x, heap[x].right)' = HalfOf(x, heap[x].right)
      BY <2>2, <2>7 DEF HalfOf, SameObjs, Same
    <3> QED BY <2>2, <3>1, <3>2 DEF HeapObjs, SameObjs, Same
  <2> QED BY <2>1, <2>9, <2>10 DEF H!Collect
<1>6. \/ calls' = Return \/ UNCHANGED <<heap, progvars, owned, calls>>
      \/ /\ p \in DOMAIN heap /\ ~ (heap[p].refcount - 1 > 0)
         /\ calls' = Return \o <<Call("free", p), Call("free_object", heap[p].right),
                                  Call("free_object", heap[p].left)>>
         /\ UNCHANGED <<progvars, owned>>
  BY DEF free_object, Stop
<1>7. p \in DOMAIN heap => p \in Addr
  BY HeapType
<1> QED BY <1>3, <1>4, <1>5, <1>6, <1>7 DEF H!Next

\* An object under unlink has shown dead halves since its kill.
LEMMA UnlinkShows ==
  ASSUME ObjectsTypeOK, unlink
  PROVE  UNCHANGED H!heapVars
<1> DEFINE p == Top.obj
<1>1. CASE UNCHANGED <<heap, progvars, owned, calls>>
  BY <1>1, NoView
<1>2. CASE p \in DOMAIN heap
  <2>1. /\ DOMAIN heap' = DOMAIN heap /\ calls' = Return
        /\ UNCHANGED <<progvars, owned>>
        /\ \A x \in DOMAIN heap : x # p => heap'[x] = heap[x]
        /\ heap'[p].type = heap[p].type /\ heap'[p].state = heap[p].state
        /\ heap'[p].input_text = heap[p].input_text
        /\ heap'[p].left = universal_dead /\ heap'[p].right = universal_dead
    BY <1>2, UnlinkHeap
  <2>2. InRuntime /\ Top \in Frame /\ Top.fn = "unlink"
    BY StackProperties DEF unlink, InRuntime, ObjectsTypeOK
  <2>3. \A x : Top # Call("free", x) /\ (x # p => Top # Call("unlink", x))
    BY <2>2 DEF Call
  <2>4. /\ \A x : UnderWay("free", x)' <=> UnderWay("free", x)
        /\ \A x : x # p => (UnderWay("unlink", x)' <=> UnderWay("unlink", x))
    BY <2>1, <2>2, <2>3, ReturnShows
  <2>5. UnderWay("unlink", p)
    <3>1. Len(calls) \in 1 .. Len(calls)
      BY StackProperties DEF unlink, InRuntime, ObjectsTypeOK
    <3>2. calls[Len(calls)] = Call("unlink", p)
      BY <2>2 DEF Frame, Call, Top
    <3> QED BY <3>1, <3>2 DEF UnderWay
  <2> HIDE DEF p
  <2>6. \A x \in DOMAIN heap : /\ HalfOf(x, heap[x].left)' = HalfOf(x, heap[x].left)
                               /\ HalfOf(x, heap[x].right)' = HalfOf(x, heap[x].right)
    BY <2>1, <2>4, <2>5 DEF HalfOf
  <2>7. {q \in DOMAIN heap : ~ UnderWay("free", q)}'
          = {q \in DOMAIN heap : ~ UnderWay("free", q)}
    BY <2>1, <2>4
  <2>8. \A x \in DOMAIN heap : /\ heap'[x].type = heap[x].type
                               /\ heap'[x].state = heap[x].state
                               /\ heap'[x].input_text = heap[x].input_text
    BY <2>1
  <2> QED BY <2>1, <2>6, <2>7, <2>8, SameView
<1> QED BY <1>1, <1>2 DEF unlink, Stop

\* An object is no longer shown when its memory is given back.
LEMMA FreeShows ==
  ASSUME ObjectsTypeOK, free
  PROVE  UNCHANGED H!heapVars
<1> DEFINE p == Top.obj
<1>1. CASE UNCHANGED <<heap, progvars, owned, calls>>
  BY <1>1, NoView
<1>2. CASE p \in DOMAIN heap
  <2>1. /\ DOMAIN heap' = DOMAIN heap \ {p} /\ calls' = Return
        /\ UNCHANGED <<progvars, owned>>
        /\ \A x \in DOMAIN heap' : heap'[x] = heap[x]
    BY <1>2, FreeHeap
  <2>2. InRuntime /\ Top \in Frame /\ Top.fn = "free"
    BY StackProperties DEF free, InRuntime, ObjectsTypeOK
  <2>3. \A x : Top # Call("unlink", x) /\ (x # p => Top # Call("free", x))
    BY <2>2 DEF Call
  <2>4. /\ \A x : UnderWay("unlink", x)' <=> UnderWay("unlink", x)
        /\ \A x : x # p => (UnderWay("free", x)' <=> UnderWay("free", x))
    BY <2>1, <2>2, <2>3, ReturnShows
  <2>5. UnderWay("free", p)
    <3>1. Len(calls) \in 1 .. Len(calls)
      BY StackProperties DEF free, InRuntime, ObjectsTypeOK
    <3>2. calls[Len(calls)] = Call("free", p)
      BY <2>2 DEF Frame, Call, Top
    <3> QED BY <3>1, <3>2 DEF UnderWay
  <2> HIDE DEF p
  <2>6. {q \in DOMAIN heap : ~ UnderWay("free", q)}'
          = {q \in DOMAIN heap : ~ UnderWay("free", q)}
    BY <2>1, <2>4, <2>5
  <2>7. \A x \in DOMAIN heap : ~ UnderWay("free", x) => x \in DOMAIN heap'
    BY <2>1, <2>5
  <2>8. \A x \in DOMAIN heap' : /\ HalfOf(x, heap[x].left)' = HalfOf(x, heap[x].left)
                                /\ HalfOf(x, heap[x].right)' = HalfOf(x, heap[x].right)
    BY <2>1, <2>4 DEF HalfOf
  <2> QED BY <2>1, <2>6, <2>7, <2>8, SameView
<1> QED BY <1>1, <1>2 DEF free, Stop

(***************************************************************************)
(* README, "How does RoS ~ATH work".                                       *)
(***************************************************************************)
\* Nothing is there and nothing is referred to when main begins.
LEMMA InitShows ==
  ASSUME Init
  PROVE  H!Init
<1>1. DOMAIN heap = {} /\ calls = <<>> /\ owned = {} /\ progvars = [s \in Slot |-> Null]
  BY DEF Init, ObjectsInit
<1>2. HeapObjs = [p \in {} |-> Null]
  BY <1>1, PlainView
<1>3. HeapVars = [s \in Slot |-> Null]
  BY <1>1 DEF HeapVars
<1> QED BY <1>2, <1>3 DEF H!Init

\* Every step of the program is a step of module Heap, or is not seen there.
LEMMA NextShows ==
  ASSUME GravesInv, [Next]_vars
  PROVE  [H!Next]_(H!heapVars)
<1>1. ObjectsTypeOK /\ RuntimeInv
  BY DEF GravesInv, TypeOK
<1>2. CASE UNCHANGED vars
  BY <1>2, NoView DEF vars
<1>3. CASE Grave
  BY <1>3, GraveObjects, NoView
<1>4. CASE RunRuntime
  BY <1>1, <1>4, FreeObjectShows, UnlinkShows, FreeShows DEF RunRuntime, RuntimeStep
<1> QED BY <1>2, <1>3, <1>4, FreeSlotShows, KillShows, CreateShows, SplitShows
        DEF Next, Terminated

\* A program without the UnsafeShapes shows, through all it counts and releases by hand,
\* the objects of module Heap: none is collected while a variable or an object refers to
\* it, none changes its halves, none dies but by a .DIE() that names it.
THEOREM HeapIsImplemented ==
  ASSUME Shapes \cap UnsafeShapes = {}
  PROVE  Spec => ImplementsHeap
<1>1. Init => H!Init
  BY InitShows
<1>2. GravesInv /\ [Next]_vars => [H!Next]_(H!heapVars)
  BY NextShows
<1> QED BY <1>1, <1>2, GravesInvariant, PTL DEF Spec, ImplementsHeap, H!Spec

=============================================================================
