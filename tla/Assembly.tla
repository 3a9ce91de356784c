------------------------------ MODULE Assembly ------------------------------
(***************************************************************************)
(* The compiled program next to its source.  A program of ValidateIL that  *)
(* is accepted is compiled (module Codegen) and the assembly is run, while *)
(* the source is followed grave by grave with names and scopes in place of *)
(* slots and labels.  What becomes of an object is left open: each test of *)
(* a loop finds it alive or dead, in the same way for both.                *)
(***************************************************************************)
EXTENDS ValidateIL

CONSTANT MaxRun  \* bound: graves in a program that is run

ASSUME AssemblyAssumption == MaxRun \in Nat

VARIABLES
  asm,    \* the assembly
  pc,     \* the place in it, 0 when the program has ended
  slots,  \* progvars: what each slot refers to
  todo,   \* the graves of the source still to be run, the next one first
  env     \* what the names of the source refer to, a function

running == <<asm, pc, slots, todo, env>>
vars    == <<blocks, written, asm, pc, slots, todo, env>>

\* What a slot holds when it refers to no object: memory of calloc, or an object that
\* has been given back.
Null     == 0
Released == -1

\* A library in front is replaced by its graves.
RECURSIVE Graves_of(_)
Graves_of(graves) ==
  IF graves # <<>> /\ Head(graves).op = "lib" THEN Graves_of(Head(graves).graves \o Tail(graves))
                                              ELSE graves

Source == Head(todo)
Rest   == Tail(todo)

\* The test at the end of a body, which takes the names of the body out of scope.
Again(loop) == [op |-> "again", name |-> loop.name, loop |-> loop, scope |-> DOMAIN env]

\* The first instruction of the code from i on; a label is the address of what follows it.
From(code, i) ==
  LET instructions == {j \in i .. Len(code) : code[j].op \notin {"label", "string"}}
  IN  CHOOSE j \in instructions : \A k \in instructions : j <= k

Following    == From(asm, pc + 1)
Place(label) == From(asm, CHOOSE i \in DOMAIN asm : asm[i] = label)

(***************************************************************************)
(* The compiler accepts the program and it begins.                         *)
(***************************************************************************)
Start ==
  /\ Complete /\ written <= MaxRun /\ NoUniverse
  /\ validate_il(Program) /\ FindsAll(Program)
  /\ LET whole == Append(Program, ThisDie) IN
     /\ asm' = generate_assembly(whole)
     /\ slots' = [s \in 0 .. Cardinality(get_var_table(whole)) - 1 |-> Null]
     /\ pc' = From(asm', 1)
     /\ todo' = Graves_of(whole)
  /\ env' = [x \in {} |-> Null]
  /\ blocks' = <<>> /\ written' = 0

Instr    == asm[pc]
AtOp(op) == pc > 0 /\ Instr.op = op

\* An instruction after which the next one comes, and the source goes on to graves.
Straight(graves) ==
  /\ pc' = Following
  /\ todo' = Graves_of(graves)
  /\ UNCHANGED <<blocks, written, asm>>

\* An object is a number that no slot and no name refers to.
Referred == Range(slots) \cup Range(env)
NewObject(referred) == CHOOSE n \in 1 .. Cardinality(referred) + 1 : n \notin referred

RunCreate ==
  /\ AtOp("create_object")
  /\ Straight(Rest)
  /\ LET object == NewObject(Referred) IN
     /\ slots' = [slots EXCEPT ![Instr.slot] = object]
     /\ env' = (Source.name :> object) @@ env

\* The halves are new ones, and the right one is stored last.  What a source that is
\* overwritten referred to is given back after that and is in no slot then.
RunSplit ==
  /\ AtOp("bifurcate")
  /\ Straight(Rest)
  /\ LET left  == NewObject(Referred)
         right == NewObject(Referred \cup {left})
     IN  /\ slots' = [slots EXCEPT ![Instr.left] = left, ![Instr.right] = right]
         /\ env' = (Source.right :> right) @@ (Source.left :> left) @@ env

\* One call for every name in the list.
RunKill ==
  /\ AtOp("kill")
  /\ Straight(IF Len(Source.names) = 1 THEN Rest ELSE <<Die(Tail(Source.names))>> \o Rest)
  /\ UNCHANGED <<slots, env>>

RunPrint == AtOp("print") /\ Straight(Rest) /\ UNCHANGED <<slots, env>>

RunFree ==
  /\ AtOp("free_object")
  /\ Straight(todo)
  /\ slots' = [slots EXCEPT ![Instr.slot] = Released]
  /\ UNCHANGED env

\* The source enters the loop, or passes it by without its EXECUTE.
EnterLoop(alive) ==
  /\ Source.op = "if"
  /\ todo' = Graves_of((IF alive THEN Source.body \o <<Again(Source)>> ELSE <<>>) \o Rest)
  /\ UNCHANGED env

\* The source begins the body again, or goes on to the EXECUTE.
EndBody(alive) ==
  /\ Source.op = "again"
  /\ todo' = Graves_of(IF alive THEN Source.loop.body \o todo ELSE Source.loop.exec \o Rest)
  /\ env' = [x \in Source.scope |-> env[x]]

RunTest(alive) ==
  /\ AtOp("jnz")
  /\ EnterLoop(alive) \/ EndBody(alive)
  /\ pc' = IF alive THEN Following ELSE Place(Instr.to)
  /\ UNCHANGED <<blocks, written, asm, slots>>

RunJump ==
  /\ AtOp("jmp")
  /\ pc' = Place(Instr.to)
  /\ UNCHANGED <<blocks, written, asm, slots, todo, env>>

RunReturn ==
  /\ AtOp("ret")
  /\ pc' = 0
  /\ UNCHANGED <<blocks, written, asm, slots, todo, env>>

AssemblyInit ==
  /\ Init
  /\ asm = <<>> /\ pc = 0
  /\ slots = [s \in {} |-> Null]
  /\ todo = <<>>
  /\ env = [x \in {} |-> Null]

Write == blocks # <<>> /\ Next /\ UNCHANGED running

AssemblyNext ==
  \/ Write
  \/ Start
  \/ RunCreate \/ RunSplit \/ RunKill \/ RunPrint \/ RunFree
  \/ \E alive \in BOOLEAN : RunTest(alive)
  \/ RunJump \/ RunReturn

AssemblySpec == AssemblyInit /\ [][AssemblyNext]_vars

(***************************************************************************)
(* Properties.                                                             *)
(***************************************************************************)
\* The slot holds what the name refers to.
Holds(slot, x) == x \in DOMAIN env => slots[slot] = env[x]

\* The assembly does what the source asks for: through any choice of the tests it comes
\* to the graves of the source in their order, each as often as the source does, and
\* works on the objects that the names refer to, none of them given back before.
FollowsSource ==
  pc > 0 =>
    CASE AtOp("create_object") -> Source.op = Instr.type
      [] AtOp("bifurcate")     -> Source.op = "bif" /\ Holds(Instr.slot, Source.source)
      [] AtOp("kill")          -> Source.op = "die" /\ Holds(Instr.slot, Source.names[1])
      [] AtOp("print")         -> Source = Out(asm[Instr.string].str)
      [] AtOp("jnz")           -> Source.op \in {"if", "again"} /\ Holds(Instr.slot, Source.name)
      [] AtOp("ret")           -> Source.op = "this"
      [] OTHER               -> TRUE

\* The assembler finds one place for every label, in the program and all its libraries
\* together.
LabelsUnique ==
  LET Lines(ops) == {i \in DOMAIN asm : asm[i].op \in ops}
      labels == {asm[i] : i \in Lines({"label"})}
  IN  /\ Cardinality(labels) = Cardinality(Lines({"label"}))
      /\ {asm[i].to : i \in Lines({"jmp", "jnz"})} \subseteq labels

\* progvars, whose length get_var_table counts before code is generated, has every slot
\* that the code generated with tables of its own uses.
SlotsAllocated == \A i \in DOMAIN asm : Slots(asm[i]) \subseteq DOMAIN slots

=============================================================================
