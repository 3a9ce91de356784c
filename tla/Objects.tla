------------------------------ MODULE Objects ------------------------------
(***************************************************************************)
(* The runtime that every compiled ~ATH program links against              *)
(* (src/runtime/objects.c): reference-counted objects with lazily created  *)
(* halves, and the array of program variables that points at them.  The    *)
(* recursion of free_object is a stack of C calls that makes one step at a *)
(* time, so every intermediate state of a cascade of frees is a state of   *)
(* this module.  The calls the generated code makes are the operators with *)
(* a slot for a parameter; module Graves decides which of them a program   *)
(* makes.                                                                  *)
(***************************************************************************)
EXTENDS Integers, Sequences, FiniteSets

CONSTANTS
  Addr,            \* addresses malloc can return: the memory of the program
  Null,            \* the null pointer
  universal_dead,  \* the address of the static object of that name
  NumVars,         \* length of progvars, the array of program variables
  Texts            \* what the user may type at an input import

ASSUME ObjectsAssumption ==
  /\ IsFiniteSet(Addr)
  /\ Null \notin Addr
  /\ universal_dead \notin Addr
  /\ Null # universal_dead
  /\ NumVars \in Nat
  /\ Texts \subseteq Seq({0, 1})

VARIABLES
  heap,      \* the allocated objects: a function whose domain is the set of
             \* addresses malloc has returned and free has not taken back
  progvars,  \* the pointer stored in each variable slot (may dangle)
  owned,     \* ghost: the slots whose pointer is counted as a reference,
             \* from the store of the pointer to its free_object
  calls,     \* the C call stack inside the runtime, innermost call last
  status     \* "running", or how the process ended

objectVars == <<heap, progvars, owned, calls, status>>

Slot   == 0 .. NumVars - 1
Type   == {"abstract", "universe", "input"}
Pointer == Addr \cup {Null, universal_dead}

Object ==
  [type : Type, state : {"alive", "dead"}, left : Pointer, right : Pointer,
   refcount : Int, input_text : Seq({0, 1})]

\* A C call that has not returned: free_object(obj) not yet begun, the free()
\* that ends free_object(obj), or the end of kill(obj), which unlinks its halves.
Frame == [fn : {"free_object", "free", "unlink"}, obj : Pointer]
Call(f, p) == [fn |-> f, obj |-> p]

Running == status = "running"
Ready   == Running /\ calls = <<>>       \* the generated code has control
InRuntime == Running /\ calls # <<>>     \* a runtime function has control
Top     == calls[Len(calls)]
Return  == SubSeq(calls, 1, Len(calls) - 1)

Unused == Addr \ DOMAIN heap
Dangling(p) == p \in Addr /\ p \notin DOMAIN heap

\* A live object: loops run while this holds of their variable.
IsAlive(p) == p \in DOMAIN heap /\ heap[p].state = "alive"

\* The process ends; what it leaves in memory is of no more interest.
Stop(how) ==
  /\ status' = how
  /\ UNCHANGED <<heap, progvars, owned, calls>>

\* Reading or writing through p, which points to no object: a null pointer
\* traps, a dangling one is undefined behaviour.
Fault(p) ==
  \/ p = Null /\ Stop("segv")
  \/ Dangling(p) /\ Stop("undefined")

(***************************************************************************)
(* create_object, and the store of its result into a variable.             *)
(***************************************************************************)
NewObject(type, state, refcount, text) ==
  [type |-> type, state |-> state, left |-> Null, right |-> Null,
   refcount |-> refcount, input_text |-> text]

\* What getc can deliver before the first character that is neither 0 nor 1.
InputText(type) == IF type = "input" THEN Texts ELSE {<<>>}

create_object(s, type) ==
  /\ Ready
  /\ \/ \E a \in Unused, text \in InputText(type) :
          /\ heap' = [x \in DOMAIN heap \cup {a} |->
                        IF x = a THEN NewObject(type, "alive", 1, text)
                                 ELSE heap[x]]
          /\ progvars' = [progvars EXCEPT ![s] = a]
          /\ owned' = owned \cup {s}
          /\ UNCHANGED <<calls, status>>
     \/ Unused = {} /\ Stop("failed")                 \* MALLOC_NULL_CHECK

(***************************************************************************)
(* bifurcate, and the stores of both halves.  When a stored half replaces  *)
(* the variable that was bifurcated, the generated code has kept the old   *)
(* pointer on its stack and releases it after the stores.                  *)
(***************************************************************************)
StoreHalves(s, l, r, left, right) ==
  /\ progvars' = [progvars EXCEPT ![l] = left, ![r] = right]
  /\ owned' = owned \cup {l, r}
  /\ calls' = IF s \in {l, r} THEN <<Call("free_object", progvars[s])>> ELSE <<>>
  /\ UNCHANGED status

\* Mutant of Retained: the right half is handed out uncounted.
RetainedLeftOnly(left, right) ==
  [x \in DOMAIN heap |->
     [heap[x] EXCEPT !.refcount = @ + (IF x = left THEN 1 ELSE 0)]]

\* refcount++ on both halves; the count of universal_dead is never read.
Retained(left, right) ==
  [x \in DOMAIN heap |->
     [heap[x] EXCEPT !.refcount = @ + (IF x = left THEN 1 ELSE 0)
                                    + (IF x = right THEN 1 ELSE 0)]]

\* A half counts two references: the object's own and the variable's.
LeftHalf(p) ==
  NewObject("abstract",
            IF heap[p].type = "input" /\ Head(heap[p].input_text) = 0
              THEN "dead" ELSE "alive",
            2, <<>>)

\* Mutant of RightHalf: the half without characters is created alive.
RightHalfAlive(p) ==
  IF heap[p].type = "input"
    THEN NewObject("input", "alive", 2, Tail(heap[p].input_text))
    ELSE NewObject("abstract", "alive", 2, <<>>)

RightHalf(p) ==
  IF heap[p].type = "input"
    THEN LET rest == Tail(heap[p].input_text)
         IN  NewObject("input", IF rest = <<>> THEN "dead" ELSE "alive", 2, rest)
    ELSE NewObject("abstract", "alive", 2, <<>>)

\* Halves already there: hand them out again.
BifurcateAgain(s, l, r) ==
  LET p == progvars[s] IN
  /\ p \in DOMAIN heap
  /\ heap[p].type # "universe"
  /\ heap[p].left # Null /\ heap[p].right # Null
  /\ ~ Dangling(heap[p].left) /\ ~ Dangling(heap[p].right)
  /\ heap' = Retained(heap[p].left, heap[p].right)
  /\ StoreHalves(s, l, r, heap[p].left, heap[p].right)

\* An input without characters left, where input_length - 1 = -1 is asked of malloc.
EmptyInput(p) == heap[p].type = "input" /\ heap[p].input_text = <<>>

\* First bifurcation: the halves are created now.
BifurcateFirst(s, l, r) ==
  LET p == progvars[s] IN
  /\ p \in DOMAIN heap
  /\ heap[p].type # "universe"
  /\ heap[p].left = Null /\ heap[p].right = Null
  /\ ~ EmptyInput(p)
  /\ \E a, b \in Unused :
       /\ a # b
       /\ heap' = [x \in DOMAIN heap \cup {a, b} |->
                     CASE x = a -> LeftHalf(p)
                       [] x = b -> RightHalf(p)
                       [] x = p -> [heap[p] EXCEPT !.left = a, !.right = b]
                       [] OTHER -> heap[x]]
       /\ StoreHalves(s, l, r, a, b)

\* One half is missing, or malloc gives no memory for the halves.
BifurcateFails(s) ==
  LET p == progvars[s] IN
  /\ p \in DOMAIN heap
  /\ heap[p].type # "universe"
  /\ heap[p].left = Null \/ heap[p].right = Null
  /\ \/ heap[p].left # heap[p].right
     \/ EmptyInput(p)
     \/ \A a, b \in Unused : a = b
  /\ Stop("failed")

\* The null and the universally dead object have dead halves.
BifurcateDead(s, l, r) ==
  /\ progvars[s] \in {Null, universal_dead}
  /\ UNCHANGED heap
  /\ StoreHalves(s, l, r, universal_dead, universal_dead)

\* bifurcate of a universe returns NULL, and the caller reads its halves there.
\* Otherwise the object or one of its halves has been freed.
BifurcateFault(s) ==
  LET p == progvars[s] IN
  \/ Dangling(p) /\ Stop("undefined")
  \/ p \in DOMAIN heap /\ heap[p].type = "universe" /\ Stop("segv")
  \/ /\ p \in DOMAIN heap
     /\ heap[p].type # "universe"
     /\ heap[p].left # Null /\ heap[p].right # Null
     /\ Dangling(heap[p].left) \/ Dangling(heap[p].right)
     /\ Stop("undefined")

bifurcate(s, l, r) ==
  /\ Ready
  /\ \/ BifurcateDead(s, l, r)
     \/ BifurcateAgain(s, l, r)
     \/ BifurcateFirst(s, l, r)
     \/ BifurcateFails(s)
     \/ BifurcateFault(s)

(***************************************************************************)
(* kill marks the object dead and releases its halves; the halves are      *)
(* replaced by universal_dead when both releases have returned.            *)
(***************************************************************************)
\* Mutant of Killable: a universe can be killed like anything else.
KillableUniverse(p) == TRUE

Killable(p) == heap[p].type # "universe"

kill(s) ==
  LET p == progvars[s] IN
  /\ Ready
  /\ \/ /\ p \in DOMAIN heap /\ Killable(p)
        /\ heap' = [heap EXCEPT ![p].state = "dead"]
        /\ calls' = <<Call("unlink", p), Call("free_object", heap[p].right),
                      Call("free_object", heap[p].left)>>
        /\ UNCHANGED <<progvars, owned, status>>
     \/ p \in DOMAIN heap /\ ~ Killable(p) /\ UNCHANGED objectVars
     \/ p = universal_dead /\ UNCHANGED objectVars
     \/ Fault(p)

\* Mutant of unlink: the halves of a killed object are forgotten, not dead.
UnlinkToNull ==
  /\ InRuntime
  /\ Top.fn = "unlink"
  /\ heap' = [heap EXCEPT ![Top.obj].left = Null, ![Top.obj].right = Null]
  /\ calls' = Return
  /\ UNCHANGED <<progvars, owned, status>>

unlink ==
  /\ InRuntime
  /\ Top.fn = "unlink"
  /\ \/ /\ Top.obj \in DOMAIN heap
        /\ heap' = [heap EXCEPT ![Top.obj].left = universal_dead,
                                ![Top.obj].right = universal_dead]
        /\ calls' = Return
        /\ UNCHANGED <<progvars, owned, status>>
     \/ Dangling(Top.obj) /\ Stop("undefined")

(***************************************************************************)
(* free_object.  The generated code calls it on a slot it is about to      *)
(* overwrite or whose scope ends; the pointer stays in the slot.           *)
(***************************************************************************)
free_slot(s) ==
  /\ Ready
  /\ calls' = <<Call("free_object", progvars[s])>>
  /\ owned' = owned \ {s}
  /\ UNCHANGED <<heap, progvars, status>>

\* Mutant of free_object: the halves of a freed object are not released.
FreeShallow ==
  LET p == Top.obj IN
  /\ InRuntime
  /\ Top.fn = "free_object"
  /\ \/ /\ p \in {Null, universal_dead}
        /\ calls' = Return
        /\ UNCHANGED <<heap, progvars, owned, status>>
     \/ /\ p \in DOMAIN heap
        /\ heap' = [heap EXCEPT ![p].refcount = @ - 1]
        /\ calls' = IF heap[p].refcount - 1 > 0
                      THEN Return ELSE Append(Return, Call("free", p))
        /\ UNCHANGED <<progvars, owned, status>>
     \/ Dangling(p) /\ Stop("undefined")

\* Mutant of free_object: no exception for universal_dead, whose halves are
\* universal_dead itself: the recursion gets nowhere.
FreeUniversalDead ==
  LET p == Top.obj IN
  /\ InRuntime
  /\ Top.fn = "free_object"
  /\ \/ p = universal_dead /\ UNCHANGED objectVars
     \/ /\ p = Null
        /\ calls' = Return
        /\ UNCHANGED <<heap, progvars, owned, status>>
     \/ /\ p \in DOMAIN heap
        /\ heap' = [heap EXCEPT ![p].refcount = @ - 1]
        /\ calls' = IF heap[p].refcount - 1 > 0
                      THEN Return
                      ELSE Return \o <<Call("free", p),
                                       Call("free_object", heap[p].right),
                                       Call("free_object", heap[p].left)>>
        /\ UNCHANGED <<progvars, owned, status>>

free_object ==
  LET p == Top.obj IN
  /\ InRuntime
  /\ Top.fn = "free_object"
  /\ \/ /\ p \in {Null, universal_dead}
        /\ calls' = Return
        /\ UNCHANGED <<heap, progvars, owned, status>>
     \/ /\ p \in DOMAIN heap
        /\ heap' = [heap EXCEPT ![p].refcount = @ - 1]
        /\ calls' = IF heap[p].refcount - 1 > 0
                      THEN Return
                      ELSE Return \o <<Call("free", p),
                                       Call("free_object", heap[p].right),
                                       Call("free_object", heap[p].left)>>
        /\ UNCHANGED <<progvars, owned, status>>
     \/ Dangling(p) /\ Stop("undefined")

free ==
  /\ InRuntime
  /\ Top.fn = "free"
  /\ \/ /\ Top.obj \in DOMAIN heap
        /\ heap' = [x \in DOMAIN heap \ {Top.obj} |-> heap[x]]
        /\ calls' = Return
        /\ UNCHANGED <<progvars, owned, status>>
     \/ Dangling(Top.obj) /\ Stop("undefined")

RuntimeStep == free_object \/ unlink \/ free

ObjectsInit ==
  /\ heap = [a \in {} |-> Null]
  /\ progvars = [s \in Slot |-> Null]      \* allocate_progvars: calloc
  /\ owned = {}
  /\ calls = <<>>
  /\ status = "running"

ObjectsTypeOK ==
  /\ DOMAIN heap \subseteq Addr
  /\ heap \in [DOMAIN heap -> Object]
  /\ progvars \in [Slot -> Pointer]
  /\ owned \subseteq Slot
  /\ calls \in Seq(Frame)
  /\ status \in {"running", "exited", "failed", "segv", "undefined"}

(***************************************************************************)
(* References.  A reference is a pointer its holder will give back with a  *)
(* call of free_object: a variable, a half of an object, a call under way. *)
(***************************************************************************)

\* Objects whose halves are being released already by kill or free_object.
Detached == {calls[i].obj : i \in {j \in 1 .. Len(calls) : calls[j].fn # "free_object"}}

References(a) ==
       {<<"variable", s>> : s \in {t \in owned : progvars[t] = a}}
  \cup {<<"left", p>>  : p \in {q \in DOMAIN heap \ Detached : heap[q].left = a}}
  \cup {<<"right", p>> : p \in {q \in DOMAIN heap \ Detached : heap[q].right = a}}
  \cup {<<"call", i>>  : i \in {j \in 1 .. Len(calls) :
                                  calls[j] = Call("free_object", a)}}

Count(a) == IF a \in DOMAIN heap THEN heap[a].refcount ELSE 0

\* No address is referred to more often than the object there counts: at every
\* step of a cascade of frees, no object is freed, or its memory handed out again
\* by malloc, while something still refers to it.
RefsCounted == \A a \in Addr : Cardinality(References(a)) <= Count(a)

\* What holds of the calls under way, and makes RefsCounted inductive: an object
\* about to be freed has run out of its count and is freed once, and an object being
\* killed is held by a variable until its halves are unlinked.
FreesUnique ==
  \A i \in 1 .. Len(calls) : calls[i].fn = "free" =>
    /\ calls[i].obj \in DOMAIN heap
    /\ heap[calls[i].obj].refcount <= 0
    /\ \A j \in 1 .. Len(calls) : j # i /\ calls[j].fn = "free"
                                    => calls[j].obj # calls[i].obj

KillsHeld ==
  \A i \in 1 .. Len(calls) : calls[i].fn = "unlink" =>
    calls[i].obj \in Addr /\ \E s \in owned : progvars[s] = calls[i].obj

\* An object being killed is dead while its halves are released.
KilledDead ==
  \A i \in 1 .. Len(calls) :
    calls[i].fn = "unlink" /\ calls[i].obj \in DOMAIN heap => heap[calls[i].obj].state = "dead"

\* What keeps objects from being leaked: none counts a reference that is not there,
\* one that has run out of its count is about to be freed, and, the halves being
\* younger than their object, in any set of objects one is the half of no other.
CountsReferred == \A a \in DOMAIN heap : heap[a].refcount <= Cardinality(References(a))

CountlessFreed ==
  \A a \in DOMAIN heap : heap[a].refcount <= 0
    => \E i \in 1 .. Len(calls) : calls[i] = Call("free", a)

HalvesAcyclic ==
  \A S \in (SUBSET DOMAIN heap) \ {{}} :
    \E a \in S : \A p \in S : a \notin {heap[p].left, heap[p].right}

ExactInv == CountsReferred /\ CountlessFreed /\ HalvesAcyclic

\* A variable counted as a reference has been stored to.
OwnedStored == \A s \in owned : progvars[s] # Null

RuntimeInv == RefsCounted /\ FreesUnique /\ KillsHeld /\ OwnedStored

\* The generated code never works on a freed object or through a null pointer.
Defined == status \notin {"segv", "undefined"}

=============================================================================
