---------------------------- MODULE MCLibraries -----------------------------
(***************************************************************************)
(* Instances of Libraries and Insertion for TLC.                           *)
(***************************************************************************)
EXTENDS Insertion

Import(lib) == [op |-> "library", name |-> lib]
Other(op)   == [op |-> op, name |-> "X"]

Graves(ops) == {Import(lib) : lib \in Libs} \cup {Other(op) : op \in ops}

UpTo(n, S) == UNION {[1 .. k -> S] : k \in 0 .. n}

SomePrograms == UpTo(3, Graves({"abstract", "loop", "print"}))

SomeTexts == UpTo(2, Graves({"abstract", "bifurcate"}))
  \cup {<<Other("print")>>, <<Other("input")>>}

PlainTexts == {<<Other("abstract")>>}

\* The installed libraries, and a directory named with -I.
TwoDirectories == <<"/usr/include/tildeathc", "I">>

=============================================================================
