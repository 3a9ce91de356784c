------------------------------ MODULE Insertion ------------------------------
(***************************************************************************)
(* What library imports mean: the program they are inserted in.  The       *)
(* definitions follow the text and the tree, however deep they are nested. *)
(***************************************************************************)
EXTENDS Libraries

\* The text the name of a library stands for: the first of the current directory and
\* the include directories that has it.
TextOf(lib) ==
  LET dirs == <<cwd>> \o Directories
      i == CHOOSE i \in DOMAIN dirs :
             Found(<<dirs[i], lib>>) /\ \A j \in 1 .. i - 1 : ~ Found(<<dirs[j], lib>>)
  IN  disk[<<dirs[i], lib>>]

\* A sequence of graves with every library import replaced by the library.
RECURSIVE Inserted(_)
Inserted(graves) ==
  FlattenSeq([i \in DOMAIN graves |->
                IF graves[i].op = "library" THEN Inserted(TextOf(graves[i].name))
                                            ELSE <<graves[i]>>])

RECURSIVE Leaves(_)
Leaves(nodes) ==
  FlattenSeq([i \in DOMAIN nodes |->
                IF nodes[i].op = "lib" THEN Leaves(nodes[i].children)
                ELSE <<[op |-> nodes[i].op, name |-> nodes[i].name]>>])

Output == activations[1].output

\* README, "Imports": library imports "effectively insert another ~ATH file in their
\* own place", whatever libraries import in turn, in whichever directory they are
\* found, and however often one is read.
Inserts == status = "done" => Leaves(Output) = Inserted(program)

\* Nothing in the children of a library node prints or reads: process_lib compiles
\* them without the strings a PRINT would need.
RECURSIVE Silent(_, _)
Silent(nodes, in_library) ==
  \A i \in DOMAIN nodes :
    /\ in_library => nodes[i].op \notin {"print", "input"}
    /\ Silent(nodes[i].children, in_library \/ nodes[i].op = "lib")

LibrariesSilent == status = "done" => Silent(Output, FALSE)

=============================================================================
