-------------------------------- MODULE Heap --------------------------------
(***************************************************************************)
(* What the runtime and the code that calls it do together, without        *)
(* counts.  A step does the whole of what a grave asks for, halves are never*)
(* taken from an object but by its death, and an object goes only when     *)
(* nothing refers to it.  Module Graves implements this one.               *)
(*                                                                         *)
(* This is the program's behaviour and not README.md's everywhere: there a *)
(* death reaches the halves of the object and all of theirs, here and in the*)
(* runtime the dead object loses its halves and they stay as they are.     *)
(***************************************************************************)
EXTENDS Integers, Sequences

CONSTANTS
  Addr,            \* names of objects
  none,            \* no object: a variable not in use, a half not asked for yet
  universal_dead,  \* the dead object that is its own halves
  Slot,            \* the variables
  Texts            \* what the user may type at an input import

VARIABLES
  objs,  \* the objects there are
  vars   \* the object each variable refers to

heapVars == <<objs, vars>>

New(type, state, text) ==
  [type |-> type, state |-> state, left |-> none, right |-> none, text |-> text]

Create(s, type) ==
  \E p \in Addr \ DOMAIN objs :
    /\ vars' = [vars EXCEPT ![s] = p]
    /\ \E text \in IF type = "input" THEN Texts ELSE {<<>>} :
         objs' = [x \in DOMAIN objs \cup {p} |->
                    IF x = p THEN New(type, "alive", text) ELSE objs[x]]

\* The left half of an input is alive when the first character is 1, the right
\* half is the input of the others and dead when there are none.
Left(p) ==
  New("abstract",
      IF objs[p].type = "input" /\ Head(objs[p].text) = 0 THEN "dead" ELSE "alive", <<>>)

Right(p) ==
  IF objs[p].type = "input"
    THEN New("input", IF Len(objs[p].text) = 1 THEN "dead" ELSE "alive", Tail(objs[p].text))
    ELSE New("abstract", "alive", <<>>)

Refer(l, r, left, right) == vars' = [vars EXCEPT ![l] = left, ![r] = right]

\* The halves of an object are always the same two; they are made when they are
\* first asked for.
Bifurcate(s, l, r) ==
  LET p == vars[s] IN
  \/ /\ p = universal_dead
     /\ Refer(l, r, universal_dead, universal_dead)
     /\ UNCHANGED objs
  \/ /\ p \in DOMAIN objs /\ objs[p].type # "universe"
     /\ objs[p].left # none
     /\ Refer(l, r, objs[p].left, objs[p].right)
     /\ UNCHANGED objs
  \/ /\ p \in DOMAIN objs /\ objs[p].type # "universe"
     /\ objs[p].left = none
     /\ objs[p].type = "input" => objs[p].text # <<>>
     /\ \E a, b \in Addr \ DOMAIN objs :
          /\ a # b
          /\ Refer(l, r, a, b)
          /\ objs' = [x \in DOMAIN objs \cup {a, b} |->
                        CASE x = a -> Left(p)
                          [] x = b -> Right(p)
                          [] x = p -> [objs[p] EXCEPT !.left = a, !.right = b]
                          [] OTHER -> objs[x]]

\* The object is dead, and from the same step its halves are the universally dead one.
\* The objects that were its halves stay as they are, where README.md lets them die with
\* it (see Graves, KillReachesHalves).  A universe lives on.
Kill(s) ==
  LET p == vars[s] IN
  /\ UNCHANGED vars
  /\ p \in DOMAIN objs /\ objs[p].type # "universe"
  /\ objs' = [objs EXCEPT ![p].state = "dead", ![p].left = universal_dead,
                          ![p].right = universal_dead]

\* A variable that is about to be stored to, or whose scope ends, refers to nothing.
Forget(s) ==
  /\ vars' = [vars EXCEPT ![s] = none]
  /\ UNCHANGED objs

ReferredTo(p) ==
  \/ \E s \in Slot : vars[s] = p
  \/ \E x \in DOMAIN objs : p \in {objs[x].left, objs[x].right}

\* An object goes when no variable refers to it and it is no object's half.
Collect(p) ==
  /\ UNCHANGED vars
  /\ p \in DOMAIN objs /\ ~ ReferredTo(p)
  /\ objs' = [x \in DOMAIN objs \ {p} |-> objs[x]]

Init ==
  /\ objs = [p \in {} |-> none]
  /\ vars = [s \in Slot |-> none]

Next ==
  \/ \E s \in Slot, type \in {"abstract", "universe", "input"} : Create(s, type)
  \/ \E s, l, r \in Slot : Bifurcate(s, l, r)
  \/ \E s \in Slot : Kill(s) \/ Forget(s)
  \/ \E p \in Addr : Collect(p)

Spec == Init /\ [][Next]_heapVars

=============================================================================
