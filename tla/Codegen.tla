------------------------------ MODULE Codegen -------------------------------
(***************************************************************************)
(* The tree generate_il makes of a program (src/il.c) and the assembly     *)
(* that generate_assembly prints for it (src/codegen.c), instruction by    *)
(* instruction as far as objects and jumps go.  Names are found by their   *)
(* place in a var_table: the n-th name has slot n - 1 of progvars.         *)
(***************************************************************************)
EXTENDS Integers, Sequences, SequencesExt, FiniteSets

(***************************************************************************)
(* The tree.  exec is the sequence of what is executed: a grave, the       *)
(* output of a string, or nothing.                                         *)
(***************************************************************************)
Import(x, type) == [op |-> type, name |-> x]
Bifurcate(s, l, r) == [op |-> "bif", source |-> s, left |-> l, right |-> r]
Die(xs) == [op |-> "die", names |-> xs]
ThisDie == [op |-> "this"]
Out(str) == [op |-> "out", str |-> str]
Loop(x, body, exec) == [op |-> "if", name |-> x, body |-> body, exec |-> exec]
Library(graves) == [op |-> "lib", graves |-> graves]

\* What convert_loop_node puts at the end of a body: the test that jumps back.
Jump(x) == [op |-> "jmp", name |-> x]

\* The children of the block of a loop.
Block(g) == g.body \o <<Jump(g.name)>> \o g.exec

ImportOps == {"abstract", "universe", "input"}

Nested(g) == CASE g.op = "if"  -> Range(g.body) \cup Range(g.exec)
               [] g.op = "lib" -> Range(g.graves)
               [] OTHER -> {}

\* The grave g and all graves in it.
RECURSIVE Within(_)
Within(g) == {g} \cup UNION {Within(h) : h \in Nested(g)}

AllOf(graves) == UNION {Within(graves[i]) : i \in DOMAIN graves}

\* The names of the declarations of a grave itself.
Declarations(g) == CASE g.op \in ImportOps -> {g.name}
                     [] g.op = "bif" -> {g.left, g.right}
                     [] OTHER -> {}

\* Mutant of get_var_table: the names of libraries are not counted.
VarTableNoLibraries(graves) ==
  UNION {Declarations(graves[i]) : i \in DOMAIN graves}

\* Every name declared anywhere: progvars has a slot for each.
get_var_table(graves) == UNION {Declarations(h) : h \in AllOf(graves)}

\* Every string once, in some order.
get_strings(graves) == SetToSeq({h.str : h \in {g \in AllOf(graves) : g.op = "out"}})

(***************************************************************************)
(* Lines of the assembly.  A label is a prefix and the id of a node.       *)
(***************************************************************************)
Label(prefix, id) == [op |-> "label", prefix |-> prefix, id |-> id]
Free(s)           == [op |-> "free_object", slot |-> s]
Kill(s)           == [op |-> "kill", slot |-> s]
Create(s, type)   == [op |-> "create_object", slot |-> s, type |-> type]
Split(s, l, r)    == [op |-> "bifurcate", slot |-> s, left |-> l, right |-> r]
JumpIfDead(s, to) == [op |-> "jnz", slot |-> s, to |-> to]
JumpTo(to)        == [op |-> "jmp", to |-> to]
Return            == [op |-> "ret"]
Show(n)           == [op |-> "print", string |-> n]

\* A line of the section of strings; the n-th has the label of the n-th string.
Text(str)         == [op |-> "string", str |-> str]

Slots(in) ==
  CASE in.op \in {"free_object", "kill", "create_object", "jnz"} -> {in.slot}
    [] in.op = "bifurcate" -> {in.slot, in.left, in.right}
    [] OTHER -> {}

(***************************************************************************)
(* Code generation.  An output is the assembly so far, the var_table, the  *)
(* strings and the id of the next node; il.c numbers the nodes in the      *)
(* order in which they are visited here.                                   *)
(***************************************************************************)
NoCode(strings) ==
  [asm |-> [i \in DOMAIN strings |-> Text(strings[i])], table |-> <<>>,
   strings |-> strings, id |-> 0]

Emit(out, instructions) == [out EXCEPT !.asm = @ \o instructions]

get_offset(x, table) ==
  IF Contains(table, x) THEN (CHOOSE i \in DOMAIN table : table[i] = x) - 1 ELSE -1

\* Mutant of declare_var: the guarded slot is released too.
DeclareUnguarded(x, out, guard) ==
  LET offset == get_offset(x, out.table)
  IN  IF offset = -1 THEN [out EXCEPT !.table = Append(@, x)] ELSE Emit(out, <<Free(offset)>>)

declare_var(x, out, guard) ==
  LET offset == get_offset(x, out.table) IN
  CASE offset = -1                    -> [out EXCEPT !.table = Append(@, x)]
    [] offset = guard                 -> out
    [] offset \notin {-1, guard}      -> Emit(out, <<Free(offset)>>)

process_import(g, out) ==
  LET declared == declare_var(g.name, out, 0)
  IN  Emit(declared, <<Create(get_offset(g.name, declared.table), g.op)>>)

process_bif(g, out) ==
  LET source == get_offset(g.source, out.table)
      left   == declare_var(g.left, out, source)
      right  == declare_var(g.right, left, source)
  IN  Emit(right, <<Split(source, get_offset(g.left, right.table),
                                   get_offset(g.right, right.table))>>)

process_die(g, out) ==
  Emit(out, [i \in DOMAIN g.names |-> Kill(get_offset(g.names[i], out.table))])

get_strlabel(str, strings) == CHOOSE i \in DOMAIN strings : strings[i] = str

process_out(g, out) == Emit(out, <<Show(get_strlabel(g.str, out.strings))>>)

\* The label every node begins with.
Begin(out) == [Emit(out, <<Label("L", out.id)>>) EXCEPT !.id = @ + 1]

Test(x, out, id) ==
  Emit(out, <<JumpIfDead(get_offset(x, out.table), Label("LE", id))>>)

\* The test at the end of a body, and the jump to the block.
ProcessJump(x, out, block) ==
  LET test == Test(x, Begin(out), out.id)
  IN  Emit(Begin(test), <<JumpTo(Label("L", block)), Label("LE", out.id)>>)

RECURSIVE process_node(_, _), ProcessAll(_, _)

\* The slots from first on that a table of length len has.
Releases(first, len) ==
  IF first < len THEN [i \in 1 .. len - first |-> Free(first + i - 1)] ELSE <<>>

\* The body and the jump are compiled with a copy of the table, the EXECUTE with the
\* table itself; what the copy has beyond the table is released.
process_block(g, out) ==
  LET body  == ProcessAll(g.body, Begin(out))
      jump  == ProcessJump(g.name, body, out.id)
      exec  == ProcessAll(g.exec, [jump EXCEPT !.table = out.table])
      first == Len(exec.table)
  IN  Emit(exec, Releases(first, Len(body.table)))

process_if(g, out) ==
  LET block == process_block(g, Test(g.name, Begin(out), out.id))
  IN  Emit(block, <<Label("LE", out.id)>>)

\* Mutant of process_lib: the nodes of every library are numbered from 0.
ProcessLibRenumbers(g, out) ==
  [ProcessAll(g.graves, [Begin(out) EXCEPT !.id = 0]) EXCEPT !.id = out.id + 1]

process_lib(g, out) == ProcessAll(g.graves, Begin(out))

process_node(g, out) ==
  CASE g.op \in ImportOps -> process_import(g, Begin(out))
    [] g.op = "bif"  -> process_bif(g, Begin(out))
    [] g.op = "die"  -> process_die(g, Begin(out))
    [] g.op = "out"  -> process_out(g, Begin(out))
    [] g.op = "this" -> Emit(Begin(out), <<Return>>)
    [] g.op = "lib"  -> process_lib(g, out)
    [] g.op = "if"   -> process_if(g, out)

ProcessAll(graves, out) == FoldLeft(LAMBDA o, g : process_node(g, o), out, graves)

generate_assembly(graves) == ProcessAll(graves, NoCode(get_strings(graves))).asm

\* get_offset has found every name it was asked for.
FindsAll(graves) ==
  LET asm == generate_assembly(graves) IN \A i \in DOMAIN asm : -1 \notin Slots(asm[i])

=============================================================================
