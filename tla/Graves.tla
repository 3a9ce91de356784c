------------------------------- MODULE Graves -------------------------------
(***************************************************************************)
(* A compiled ~ATH program at work: the instructions src/codegen.c emits   *)
(* for each grave, run against the objects of module Objects.              *)
(*                                                                         *)
(* The program is not fixed: whenever the instructions of one grave are    *)
(* done, any grave the language allows at that place may come next.  What  *)
(* the compiler knows there is part of the state: the number of names in   *)
(* its var_table (the n-th name declared lives in slot n - 1 of progvars)  *)
(* and the blocks that are open.  A behaviour is the path some program     *)
(* takes, and every name a grave uses is one that codegen has declared.    *)
(***************************************************************************)
EXTENDS Objects

CONSTANTS
  Shapes,       \* the HazardousShapes the program may contain
  Imports,      \* the types of object the program imports
  MaxDepth,     \* bound: blocks open at once
  MaxDie,       \* bound: names in the list of a .DIE()
  MaxRefcount   \* bound: references to one half, 2^31 - 1 in the code

\* Places where the emitted code releases an object it still uses, or reads a
\* variable nothing was stored in:
\*   same_halves       bifurcate S[H, H]
\*   loop_in_execute   a loop as the EXECUTE of a loop that has locals
\*   execute_skipped   an EXECUTE that declares a variable is not run
\*   universe          a universe is bifurcated or killed
\* and places where it forgets one without releasing it:
\*   first_variable    an import into the first variable, when it exists
\*   locals_in_loop    a body with locals that is run again
\*   execute_declares  an EXECUTE that declares a variable, after such a body
UnsafeShapes == {"same_halves", "loop_in_execute", "execute_skipped", "universe"}
LeakyShapes  == {"first_variable", "locals_in_loop", "execute_declares"}
HazardousShapes == UnsafeShapes \cup LeakyShapes

ASSUME GravesAssumption ==
  /\ Shapes \subseteq HazardousShapes
  /\ Imports \subseteq Type
  /\ MaxDepth \in Nat
  /\ MaxDie \in Nat \ {0}
  /\ MaxRefcount \in Nat

VARIABLES
  code,     \* the emitted instructions of the current grave still to be run
  visible,  \* length of the compiler's var_table at this place
  scopes    \* the blocks open at this place, innermost last

vars == <<heap, progvars, owned, calls, status, code, visible, scopes>>

(***************************************************************************)
(* Instructions: the calls into the runtime, with the slots they are       *)
(* compiled for.                                                           *)
(***************************************************************************)
Instruction ==
  [op : {"free_object", "kill", "create_object", "bifurcate"},
   slot : Slot, left : Slot, right : Slot, type : Type]

Free(s)         == [op |-> "free_object", slot |-> s, left |-> s, right |-> s,
                    type |-> "abstract"]
Kill(s)         == [op |-> "kill", slot |-> s, left |-> s, right |-> s,
                    type |-> "abstract"]
Create(s, t)    == [op |-> "create_object", slot |-> s, left |-> s, right |-> s,
                    type |-> t]
Split(s, l, r)  == [op |-> "bifurcate", slot |-> s, left |-> l, right |-> r,
                    type |-> "abstract"]

\* An open block.  While its body runs, len is the length of the outer var_table,
\* which the names declared in the body are not in.  While its EXECUTE runs, the
\* outer table is current again and len is the length the body's own table had.
Scope == [kind : {"body", "execute"}, len : 0 .. NumVars, var : Slot, done : BOOLEAN]

Innermost == scopes[Len(scopes)]
InBody    == scopes # <<>> /\ Innermost.kind = "body"
InExecute == scopes # <<>> /\ Innermost.kind = "execute"
Outer     == SubSeq(scopes, 1, Len(scopes) - 1)

\* Between two graves; an EXECUTE holds one grave.
Between == Ready /\ code = <<>>
AtGrave == Between /\ ~ (InExecute /\ Innermost.done)

Begun == IF InExecute THEN [scopes EXCEPT ![Len(scopes)].done = TRUE] ELSE scopes
GraveBegun == scopes' = Begun

Larger(m, n) == IF m < n THEN n ELSE m

(***************************************************************************)
(* declare_var, for the name whose slot is v when n names are in the       *)
(* table: a name already there has its object released, unless its slot is *)
(* the guarded one; a new name (v = n) is appended.                        *)
(***************************************************************************)
\* Mutant of declare_var: the guarded slot is released too.
DeclareUnguarded(v, n, guard) == IF v < n THEN <<Free(v)>> ELSE <<>>

declare_var(v, n, guard) ==
  IF v < n /\ v # guard THEN <<Free(v)>> ELSE <<>>

\* The new name v takes a slot whose object the open EXECUTE's block still has.
Covers(v) == v >= visible /\ InExecute /\ v < Innermost.len

MayDeclare(v) ==
  /\ v < NumVars
  /\ Covers(v) => "execute_declares" \in Shapes

\* process_abs, process_uni, process_in: declare_var is given 0 as the offset to guard.
process_import(v, t) ==
  /\ AtGrave
  /\ v <= visible /\ MayDeclare(v)
  /\ v = 0 /\ visible > 0 => "first_variable" \in Shapes
  /\ code' = declare_var(v, visible, 0) \o <<Create(v, t)>>
  /\ visible' = Larger(visible, v + 1)
  /\ GraveBegun
  /\ UNCHANGED objectVars

NotUniverse(s) ==
  progvars[s] \in DOMAIN heap /\ heap[progvars[s]].type = "universe"
    => "universe" \in Shapes

\* The bound on references to one half.
CountsBelow(s) ==
  \A h \in DOMAIN heap :
    /\ progvars[s] \in DOMAIN heap
    /\ h \in {heap[progvars[s]].left, heap[progvars[s]].right}
    => heap[h].refcount < MaxRefcount

process_bif(s, l, r) ==
  /\ AtGrave
  /\ s < visible /\ NotUniverse(s) /\ CountsBelow(s)
  /\ l <= visible /\ MayDeclare(l)
  /\ LET n == Larger(visible, l + 1) IN
     /\ r <= n /\ MayDeclare(r)
     /\ l = r => "same_halves" \in Shapes
     /\ code' = declare_var(l, visible, s) \o declare_var(r, n, s)
                  \o <<Split(s, l, r)>>
     /\ visible' = Larger(n, r + 1)
  /\ GraveBegun
  /\ UNCHANGED objectVars

process_die(slots) ==
  /\ AtGrave
  /\ \A i \in 1 .. Len(slots) : slots[i] < visible /\ NotUniverse(slots[i])
  /\ code' = [i \in 1 .. Len(slots) |-> Kill(slots[i])]
  /\ GraveBegun
  /\ UNCHANGED <<heap, progvars, owned, calls, status, visible>>

\* THIS.DIE(): main returns, whatever is open or allocated.
process_this_die ==
  /\ AtGrave
  /\ Stop("exited")
  /\ UNCHANGED <<code, visible, scopes>>

(***************************************************************************)
(* Loops.  process_if tests the variable, process_block compiles the body  *)
(* in a copy of the table and the EXECUTE in the table itself, and ends by *)
(* releasing the slots the copy has beyond the table.                      *)
(***************************************************************************)
IsDead(p) ==
  p = universal_dead \/ (p \in DOMAIN heap /\ heap[p].state = "dead")

Enter(v) ==
  /\ AtGrave
  /\ v < visible /\ IsAlive(progvars[v])
  /\ Len(scopes) < MaxDepth
  /\ InExecute /\ visible < Innermost.len => "loop_in_execute" \in Shapes
  /\ scopes' = Append(Begun, [kind |-> "body", len |-> visible, var |-> v,
                              done |-> FALSE])
  /\ UNCHANGED <<heap, progvars, owned, calls, status, code, visible>>

\* Mutant of Skip: the array is made without room for the names of an EXECUTE.
SkipUncounted(v, k) ==
  /\ AtGrave
  /\ v < visible /\ IsDead(progvars[v])
  /\ k > 0 => "execute_skipped" \in Shapes
  /\ visible' = visible + k
  /\ GraveBegun
  /\ UNCHANGED <<heap, progvars, owned, calls, status, code>>

\* Not entered: neither body nor EXECUTE runs, but codegen has added to the table
\* the k names that the EXECUTE declares.
Skip(v, k) ==
  /\ AtGrave
  /\ v < visible /\ IsDead(progvars[v])
  /\ visible + k <= NumVars
  /\ k > 0 => "execute_skipped" \in Shapes
  /\ visible' = visible + k
  /\ GraveBegun
  /\ UNCHANGED <<heap, progvars, owned, calls, status, code>>

\* The jump back to the start of the body, where the table is the outer one again.
Repeat ==
  /\ Between /\ InBody
  /\ IsAlive(progvars[Innermost.var])
  /\ visible > Innermost.len => "locals_in_loop" \in Shapes
  /\ visible' = Innermost.len
  /\ UNCHANGED <<heap, progvars, owned, calls, status, code, scopes>>

\* The variable has died: the EXECUTE begins, in the outer table.
EndBody ==
  /\ Between /\ InBody
  /\ IsDead(progvars[Innermost.var])
  /\ visible' = Innermost.len
  /\ scopes' = Append(Outer, [kind |-> "execute", len |-> visible,
                              var |-> Innermost.var, done |-> FALSE])
  /\ UNCHANGED <<heap, progvars, owned, calls, status, code>>

\* Mutant of EndBlock: one slot too many is released, the outer scope's last.
EndBlockOffByOne ==
  /\ Between /\ InExecute
  /\ scopes' = Outer
  /\ code' = IF Innermost.len > visible
               THEN [i \in 1 .. Innermost.len - visible + 1 |-> Free(visible + i - 2)]
               ELSE <<>>
  /\ UNCHANGED <<heap, progvars, owned, calls, status, visible>>

\* Mutant of EndBlock: the last local is not released.
EndBlockShort ==
  /\ Between /\ InExecute
  /\ scopes' = Outer
  /\ code' = IF Innermost.len > visible + 1
               THEN [i \in 1 .. Innermost.len - visible - 1 |-> Free(visible + i - 1)]
               ELSE <<>>
  /\ UNCHANGED <<heap, progvars, owned, calls, status, visible>>

\* The EXECUTE is over, or is NULL or PRINT: the locals of the body are released.
EndBlock ==
  /\ Between /\ InExecute
  /\ scopes' = Outer
  /\ code' = IF Innermost.len > visible
               THEN [i \in 1 .. Innermost.len - visible |-> Free(visible + i - 1)]
               ELSE <<>>
  /\ UNCHANGED <<heap, progvars, owned, calls, status, visible>>

\* The test reads the state of an object that is not there.
TestFaults ==
  /\ \/ /\ AtGrave
        /\ \E v \in 0 .. visible - 1 : Fault(progvars[v])
     \/ /\ Between /\ InBody
        /\ Fault(progvars[Innermost.var])
  /\ UNCHANGED <<code, visible, scopes>>

(***************************************************************************)
(* Execution of the emitted instructions.                                  *)
(***************************************************************************)
Instr == Head(code)

Fetch(op) ==
  /\ Ready
  /\ code # <<>> /\ Instr.op = op
  /\ code' = Tail(code)
  /\ UNCHANGED <<visible, scopes>>

ExecFree   == Fetch("free_object") /\ free_slot(Instr.slot)
ExecKill   == Fetch("kill") /\ kill(Instr.slot)
ExecCreate == Fetch("create_object") /\ create_object(Instr.slot, Instr.type)
ExecSplit  == Fetch("bifurcate") /\ bifurcate(Instr.slot, Instr.left, Instr.right)

RunRuntime == RuntimeStep /\ UNCHANGED <<code, visible, scopes>>

Terminated == ~ Running /\ UNCHANGED vars

DieLists == UNION {[1 .. n -> Slot] : n \in 1 .. MaxDie}

Grave ==
  \/ \E v \in Slot, t \in Imports : process_import(v, t)
  \/ \E s, l, r \in Slot : process_bif(s, l, r)
  \/ \E slots \in DieLists : process_die(slots)
  \/ process_this_die
  \/ \E v \in Slot : Enter(v)
  \/ \E v \in Slot, k \in 0 .. 2 : Skip(v, k)
  \/ Repeat
  \/ EndBody
  \/ EndBlock
  \/ TestFaults

Next ==
  \/ Grave
  \/ ExecFree
  \/ ExecKill
  \/ ExecCreate
  \/ ExecSplit
  \/ RunRuntime
  \/ Terminated

Init ==
  /\ ObjectsInit
  /\ code = <<>>
  /\ visible = 0
  /\ scopes = <<>>

Spec == Init /\ [][Next]_vars

TypeOK ==
  /\ ObjectsTypeOK
  /\ code \in Seq(Instruction)
  /\ visible \in 0 .. NumVars
  /\ scopes \in Seq(Scope)

(***************************************************************************)
(* Properties.                                                             *)
(***************************************************************************)

\* A set of objects that has the halves of its members.
HasHalves(S) ==
  \A p \in S : {heap[p].left, heap[p].right} \cap DOMAIN heap \subseteq S

\* The objects the variables refer to.
Roots == {progvars[s] : s \in owned} \cap DOMAIN heap

\* A program without the hazardous shapes leaks nothing: between two graves every
\* allocated object can be reached from a variable, also after any history of
\* overwritten variables, kills and left scopes.  No smaller set has the objects of
\* the variables and the halves of its members.
NoLeak ==
  Between => \A S \in SUBSET DOMAIN heap : Roots \subseteq S /\ HasHalves(S)
                                             => S = DOMAIN heap

\* The half of p stays what it was, or is created, or given up by a dead p.
Kept(p, old, new) ==
  \/ old = Null
  \/ new = old
  \/ heap[p].state = "dead" /\ new = universal_dead

\* "You cannot change what halves an object has": once bifurcated, an object has
\* the same halves until it is killed, whatever becomes of the variables, and from
\* then on its halves are dead ones.
HalvesFixed ==
  [][\A p \in DOMAIN heap \cap DOMAIN heap' :
       /\ Kept(p, heap[p].left, heap'[p].left)
       /\ Kept(p, heap[p].right, heap'[p].right)]_vars

\* An object, its halves, and the halves of those: what README.md lets die with it.
Family(q) ==
  {p \in DOMAIN heap : \A S \in SUBSET DOMAIN heap : q \in S /\ HasHalves(S) => p \in S}

UnderWay(fn, p) == \E i \in 1 .. Len(calls) : calls[i] = Call(fn, p)

\* kill(q) is called in this step, or has been and not returned.
BeingKilled(q) ==
  \/ Ready /\ code # <<>> /\ Instr.op = "kill" /\ progvars[Instr.slot] = q
  \/ UnderWay("unlink", q)

\* "The only way to alter state is by killing an object": no step revives an
\* object, none kills a universe, and what dies, dies in the .DIE() of a variable that
\* refers to it or to an object it descends from.  How far down a death has to go is
\* the question of KillReachesHalves.
DeathByKill ==
  [][\A p \in DOMAIN heap \cap DOMAIN heap' :
       heap'[p].state # heap[p].state =>
         /\ heap'[p].state = "dead" /\ heap[p].type # "universe"
         /\ \E q \in DOMAIN heap : BeingKilled(q) /\ p \in Family(q)]_vars

\* README.md, "Deaths": a death "causes both of its halves to become dead, and both of
\* the halves' halves".  When a kill is over, all that descends from its object and is
\* still there is dead.  The runtime does not do it: kill gives up the halves and leaves
\* them as they are, alive for every variable that refers to them.
KillReachesHalves ==
  [][\A q \in DOMAIN heap :
       UnderWay("unlink", q) /\ ~ UnderWay("unlink", q)' =>
         \A p \in Family(q) \cap DOMAIN heap' : heap'[p].state = "dead"]_vars

\* No variable in scope dangles or is null between two graves: neither the end of a
\* block nor a loop that is not entered has taken from it what it refers to.
VariablesBound ==
  Between => \A s \in Slot : s < visible =>
               progvars[s] \in DOMAIN heap \cup {universal_dead}

(***************************************************************************)
(* Why the generated code is Defined and VariablesBound: the invariant     *)
(* that the instructions of a grave and the open blocks have.              *)
(***************************************************************************)

\* The slots an instruction stores to, and those whose object it works on.
Stores(in) == CASE in.op = "create_object" -> {in.slot}
                [] in.op = "bifurcate" -> {in.left, in.right}
                [] OTHER -> {}

Uses(in) == IF in.op = "create_object" THEN {} ELSE {in.slot}

Releases(s) == \E i \in 1 .. Len(code) : code[i].op = "free_object" /\ code[i].slot = s

IsUniverse(p) == p \in DOMAIN heap /\ heap[p].type = "universe"

\* What is used is owned when its turn comes: it is owned now and not released by
\* an instruction before.
UsesOwned ==
  /\ \A i \in 1 .. Len(code) : Uses(code[i]) \subseteq owned
  /\ \A i, j \in 1 .. Len(code) :
       i < j /\ code[i].op = "free_object" => code[i].slot \notin Uses(code[j])

SplitsNoUniverse ==
  \A i \in 1 .. Len(code) : code[i].op = "bifurcate" => ~ IsUniverse(progvars[code[i].slot])

StoresLast ==
  \A i, j \in 1 .. Len(code) : i < j => code[i].op \in {"free_object", "kill"}

\* A name in the table is bound, or will be when the grave is done.
NamesBound ==
  \A s \in Slot : s < visible =>
    \/ s \in owned /\ ~ Releases(s)
    \/ \E i \in 1 .. Len(code) : s \in Stores(code[i])

CodeInv == UsesOwned /\ SplitsNoUniverse /\ StoresLast /\ NamesBound

\* The tables of the open blocks are nested: what a block will release at its end
\* is in the table of no block around it.
TablesNested ==
  /\ \A i \in 1 .. Len(scopes) :
       i < Len(scopes) \/ scopes[i].kind = "body" => scopes[i].len <= visible
  /\ \A i \in 1 .. Len(scopes) : scopes[i].kind = "body" => scopes[i].var < scopes[i].len
  /\ \A i, j \in 1 .. Len(scopes) :
       i < j /\ scopes[j].kind = "body" => scopes[i].len <= scopes[j].len

\* The locals of the body whose EXECUTE is open are still there to be released.
LocalsOwned ==
  InExecute => \A s \in Slot : visible <= s /\ s < Innermost.len
                                 => s \in owned /\ ~ Releases(s)

\* The inductive invariant of the programs without the UnsafeShapes.
GravesInv ==
  /\ TypeOK
  /\ RuntimeInv
  /\ Defined
  /\ Running => CodeInv /\ TablesNested /\ LocalsOwned

(***************************************************************************)
(* Why a program with none of the hazardous shapes leaks nothing.          *)
(***************************************************************************)

\* What is owned can still be released: its name is in the table, or its block is in
\* its EXECUTE, or the instruction is there already.
NothingForgotten ==
  \A s \in owned : \/ s < visible \/ Releases(s)
                   \/ InExecute /\ s < Innermost.len

\* What an instruction stores to is in the table, and is owned no more when its turn
\* comes, unless it is the bifurcated variable.
StoresToFree ==
  \A i \in 1 .. Len(code) :
    /\ \A s \in Stores(code[i]) :
         /\ s < visible
         /\ s \in owned => Releases(s) \/ s \in Uses(code[i])
    /\ code[i].op = "bifurcate" => code[i].left # code[i].right

\* With GravesInv, the inductive invariant of the programs with none of the Shapes.
LeakInv == ExactInv /\ (Running => NothingForgotten /\ StoresToFree)

(***************************************************************************)
(* Refinement.  An object is there until its free() is under way, an       *)
(* object being killed has lost its halves already, and a variable refers  *)
(* to something while its pointer is counted.                              *)
(***************************************************************************)
HalfOf(p, half) == IF UnderWay("unlink", p) THEN universal_dead ELSE half

HeapVars == [s \in Slot |-> IF s \in owned THEN progvars[s] ELSE Null]

HeapObjs ==
  [p \in {q \in DOMAIN heap : ~ UnderWay("free", q)} |->
     [type  |-> heap[p].type, state |-> heap[p].state,
      left  |-> HalfOf(p, heap[p].left),
      right |-> HalfOf(p, heap[p].right),
      text  |-> heap[p].input_text]]

H == INSTANCE Heap WITH none <- Null, vars <- HeapVars, objs <- HeapObjs

\* With counts kept by hand on both sides, a cascade of frees that takes many steps, and
\* memory that is used again, the generated code and the runtime do to the objects one
\* step of module Heap at a time: none is collected while something refers to it, none
\* changes its halves, and a .DIE() changes the one object it names.  The last is what
\* the code does and not what README.md says of the halves: see KillReachesHalves.
ImplementsHeap == H!Spec

(***************************************************************************)
(* The process runs emitted code without stopping; only create_object may  *)
(* wait, for the user to type.                                             *)
(***************************************************************************)
Fairness ==
  /\ WF_vars(RunRuntime)
  /\ WF_vars(ExecFree \/ ExecKill \/ ExecSplit)

FairSpec == Spec /\ Fairness

Busy == InRuntime \/ (Ready /\ code # <<>> /\ Instr.op # "create_object")

\* Every call into the runtime comes to its end: the cascade of frees started by a
\* grave, however deep the halves, gives control back to the generated code, which
\* gets to its next create_object or to the end of the grave.
GraveCompletes == Busy ~> ~ Busy

=============================================================================
