----------------------------- MODULE ValidateIL -----------------------------
(***************************************************************************)
(* The validator (src/validate_il.c) over the trees that il.c builds, next *)
(* to code generation (module Codegen).  The two passes walk the same tree *)
(* with tables of their own: the validator visits the body of a loop after *)
(* the whole block the loop is in, code generation where it stands.  A     *)
(* program is written grave by grave; in every state the passes are        *)
(* compared on what is written.                                            *)
(***************************************************************************)
EXTENDS Codegen

CONSTANTS
  Names,      \* the names of variables
  Graves,     \* the graves a program is written from, but for loops
  MaxGraves,  \* bound: graves in a program
  MaxDepth    \* bound: how deep loops are nested

ASSUME ValidateAssumption == MaxGraves \in Nat /\ MaxDepth \in Nat

VARIABLES
  blocks,  \* the program up to here: the blocks not closed yet, innermost last
  written  \* how many graves are written

\* Names a grave declares in the scope it stands in, with those of a library.
RECURSIVE Declared(_)
Declared(g) ==
  CASE g.op = "if"  -> UNION {Declared(g.exec[i]) : i \in DOMAIN g.exec}
    [] g.op = "lib" -> UNION {Declared(g.graves[i]) : i \in DOMAIN g.graves}
    [] OTHER -> Declarations(g)

(***************************************************************************)
(* validate_il_node.  A varlist is a function from the names it holds to   *)
(* their types; a verdict is what the call returns and the varlist after.  *)
(***************************************************************************)
NoVars == [x \in {} |-> "abstract"]

\* append_to_varlist, or the store to type_list.
WithType(vars, xs, type) ==
  [x \in DOMAIN vars \cup xs |-> IF x \in xs THEN type ELSE vars[x]]

Knows(vars, xs) == xs \subseteq DOMAIN vars

\* Mutant of ValidateImport: a name that is known already keeps its type.
ValidateImportKeepsType(g, vars) ==
  [valid |-> TRUE,
   vars  |-> IF Knows(vars, {g.name}) THEN vars ELSE WithType(vars, {g.name}, g.op)]

ValidateImport(g, vars) == [valid |-> TRUE, vars |-> WithType(vars, {g.name}, g.op)]

\* Mutant of ValidateBif: the right half is not put into the list.
ValidateBifLeft(g, vars) ==
  IF Knows(vars, {g.source})
    THEN [valid |-> vars[g.source] # "universe",
          vars  |-> WithType(vars, {g.left}, vars[g.source])]
    ELSE [valid |-> FALSE, vars |-> vars]

\* With an unknown source the code reads type_list[-1]; the tree is invalid already.
ValidateBif(g, vars) ==
  IF Knows(vars, {g.source})
    THEN [valid |-> vars[g.source] # "universe",
          vars  |-> WithType(vars, {g.left, g.right}, vars[g.source])]
    ELSE [valid |-> FALSE, vars |-> vars]

ValidateDie(g, vars) ==
  [valid |-> /\ Knows(vars, Range(g.names))
             /\ \A x \in Range(g.names) : vars[x] # "universe",
   vars  |-> vars]

RECURSIVE ValidateNode(_, _), ValidateChildren(_, _)

ValidateNode(g, vars) ==
  CASE g.op \in ImportOps -> ValidateImport(g, vars)
    [] g.op = "bif"  -> ValidateBif(g, vars)
    [] g.op = "die"  -> ValidateDie(g, vars)
    [] g.op \in {"this", "out"} -> [valid |-> TRUE, vars |-> vars]
    [] g.op = "jmp"  -> [valid |-> Knows(vars, {g.name}), vars |-> vars]
    [] g.op = "lib"  -> ValidateChildren(g.graves, vars)
    [] g.op = "if"   -> LET block == ValidateChildren(Block(g), vars)
                        IN  [block EXCEPT !.valid = @ /\ Knows(vars, {g.name})]

\* Of a loop among the children only the variable and the EXECUTE are looked at.
Visit(so_far, g) ==
  LET here == IF g.op # "if" THEN ValidateNode(g, so_far.vars)
              ELSE LET exec == IF g.exec = <<>> THEN so_far
                                                ELSE ValidateNode(g.exec[1], so_far.vars)
                   IN  [exec EXCEPT !.valid = @ /\ Knows(so_far.vars, {g.name})]
  IN  [here EXCEPT !.valid = @ /\ so_far.valid]

\* Mutant of ValidateChildren: the delayed loops are forgotten.
ValidateChildrenShallow(graves, vars) ==
  FoldLeft(Visit, [valid |-> TRUE, vars |-> vars], graves)

\* The loops themselves come when everything else has been, each with a copy of the
\* varlist as it is then.
ValidateChildren(graves, vars) ==
  LET visited == FoldLeft(Visit, [valid |-> TRUE, vars |-> vars], graves)
  IN  [visited EXCEPT !.valid =
         @ /\ \A i \in DOMAIN graves :
                graves[i].op = "if" => ValidateNode(graves[i], visited.vars).valid]

validate_il(graves) == ValidateChildren(graves, NoVars).valid

(***************************************************************************)
(* Writing the program.                                                    *)
(***************************************************************************)
Innermost == blocks[Len(blocks)]
Outer     == SubSeq(blocks, 1, Len(blocks) - 1)
Program   == blocks[1].graves
Complete  == Len(blocks) = 1

AppendTo(bs, g) == [bs EXCEPT ![Len(bs)].graves = Append(@, g)]

More(n) == written + n <= MaxGraves /\ written' = written + n

\* A program that does not begin with an import uses a name it does not know.
WriteGrave(g) ==
  /\ More(1)
  /\ g.op # "out"
  /\ written = 0 => g.op \in ImportOps
  /\ blocks' = AppendTo(blocks, g)

Opened(kind, x) ==
  Append(blocks, [kind |-> kind, name |-> x, graves |-> <<>>])

OpenLoop(x) ==
  /\ More(1) /\ written > 0
  /\ Len(blocks) <= MaxDepth
  /\ blocks' = Opened("body", x)

\* "}" and the EXECUTE: nothing, a grave or output, or the loop written before it in the
\* body.  A library with output is no tree.
CloseLoop(exec) ==
  /\ Innermost.kind = "body"
  /\ \A i \in DOMAIN exec, j \in DOMAIN blocks : exec[i].op = "out" => blocks[j].kind # "lib"
  /\ More(Len(exec))
  /\ blocks' = AppendTo(Outer, Loop(Innermost.name, Innermost.graves, exec))

CloseLoopOnLoop ==
  LET n == Len(Innermost.graves) IN
  /\ Innermost.kind = "body" /\ n > 0
  /\ Innermost.graves[n].op = "if"
  /\ blocks' = AppendTo(Outer, Loop(Innermost.name, SubSeq(Innermost.graves, 1, n - 1),
                                    <<Innermost.graves[n]>>))
  /\ UNCHANGED written

\* Library imports come before the first grave that is no import.
OpenLibrary ==
  /\ More(1)
  /\ Complete
  /\ \A i \in DOMAIN Program : Program[i].op \in ImportOps \cup {"lib"}
  /\ blocks' = Opened("lib", "none")

CloseLibrary ==
  /\ Innermost.kind = "lib"
  /\ blocks' = AppendTo(Outer, Library(Innermost.graves))
  /\ UNCHANGED written

Init ==
  /\ blocks = <<[kind |-> "root", name |-> "none", graves |-> <<>>]>>
  /\ written = 0

Next ==
  \/ \E g \in Graves : WriteGrave(g)
  \/ \E x \in Names : OpenLoop(x)
  \/ CloseLoop(<<>>)
  \/ \E g \in Graves : CloseLoop(<<g>>)
  \/ CloseLoopOnLoop
  \/ OpenLibrary
  \/ CloseLibrary

Spec == Init /\ [][Next]_<<blocks, written>>

(***************************************************************************)
(* Properties.                                                             *)
(***************************************************************************)
All == AllOf(Program)

NoUniverse == \A g \in All : g.op # "universe"

\* A program the generated code would find every name of is not rejected for its
\* names: though it looks into a loop only when the block around it is done, and into
\* an EXECUTE twice, the validator never knows less than code generation.
NoFalseRejection == Complete /\ NoUniverse /\ FindsAll(Program) => validate_il(Program)

\* The sequences of graves that stand in one scope, each validated as one list.
Lists == {Program} \cup UNION {CASE g.op = "if"  -> {g.body, g.exec}
                                 [] g.op = "lib" -> {g.graves}
                                 [] OTHER -> {} : g \in All}

\* A name is declared in a list only after the body of a loop of that list, by the
\* EXECUTE of that loop or a later grave.
DeclaresAfterLoop ==
  \E graves \in Lists : \E i, j \in DOMAIN graves :
    /\ i <= j /\ graves[i].op = "if"
    /\ ~ (Declared(graves[j]) \subseteq
            UNION {Declared(graves[k]) : k \in 1 .. i - 1})

LoopInExecute == \E g \in All : g.op = "if" /\ \E h \in Range(g.exec) : h.op = "if"

\* What is accepted, code generation finds every name of, but for the two things the
\* walk gets wrong: a body validated with names declared after it, and the body of a
\* loop that is an EXECUTE validated in the scope outside.
NamesFound ==
  Complete /\ ~ DeclaresAfterLoop /\ ~ LoopInExecute /\ validate_il(Program)
    => FindsAll(Program)

(***************************************************************************)
(* What a run of the program does to types: every path through its loops,  *)
(* with the types of the objects that names refer to, and whether a        *)
(* universe has been bifurcated or killed on the way.  Names that are not  *)
(* bound, and those of a body after it, are left out.                      *)
(***************************************************************************)
At(path, x) == IF x \in DOMAIN path.types THEN path.types[x] ELSE "unbound"

Bound(path, xs, type) == [path EXCEPT !.types = WithType(@, xs, type)]
Harmed(path, xs) == [path EXCEPT !.harmed = @ \/ \E x \in xs : At(path, x) = "universe"]

RECURSIVE RunAll(_, _), Run(_, _), Turns(_, _)

RunAll(graves, paths) ==
  FoldLeft(LAMBDA ps, g : UNION {Run(g, p) : p \in ps}, paths, graves)

\* What holds after any number of turns of the body, from the paths into it.
Turns(body, paths) ==
  LET Leave(p, q) == [q EXCEPT !.types = [x \in DOMAIN p.types |-> q.types[x]]]
      more == paths \cup UNION {{Leave(p, q) : q \in RunAll(body, {p})} : p \in paths}
  IN  IF more = paths THEN paths ELSE Turns(body, more)

Run(g, path) ==
  CASE path.ended -> {path}
    [] g.op \in ImportOps -> {Bound(path, {g.name}, g.op)}
    [] g.op = "bif"  -> {Bound(Harmed(path, {g.source}), {g.left, g.right},
                               At(path, g.source))}
    [] g.op = "die"  -> {Harmed(path, Range(g.names))}
    [] g.op = "out"  -> {path}
    [] g.op = "this" -> {[path EXCEPT !.ended = TRUE]}
    [] g.op = "lib"  -> RunAll(g.graves, {path})
    [] g.op = "if"   -> LET after == Turns(g.body, {path})
                        IN  {path} \cup RunAll(g.exec, after)

MayHarm(graves) ==
  \E p \in RunAll(graves, {[types |-> NoVars, harmed |-> FALSE, ended |-> FALSE]}) : p.harmed

\* A name that is a universe in one place and another object in another.
Mixed ==
  \E g, h \in All : g.op = "universe" /\ h.op # "universe" /\ g.name \in Declared(h)

HasLoop == \E g \in All : g.op = "if"

\* Without loops, or when no name is sometimes a universe and sometimes not, no run of
\* an accepted program bifurcates a universe, which ends it, or kills one.
UniversesSafe ==
  Complete /\ validate_il(Program) /\ (HasLoop => ~ Mixed) => ~ MayHarm(Program)

\* validate_il.c:95, "a breadth-first search that correctly handles scope": what is
\* accepted, code generation finds every name of.
HandlesScope == Complete /\ validate_il(Program) => FindsAll(Program)

=============================================================================
