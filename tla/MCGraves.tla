------------------------------ MODULE MCGraves ------------------------------
(***************************************************************************)
(* Instances of Graves for TLC.                                            *)
(***************************************************************************)
EXTENDS Graves, TLC

\* Texts of one character, so that the second bifurcation of an input meets the
\* half without characters.
OneCharacter == {<<0>>, <<1>>}

\* The text of which the left half is dead.
OneText == {<<0>>}

AllShapes == HazardousShapes
NoShapes == {}

\* Bound: a program that has an input object is in no loop, and has no live object of
\* another type.
InputsAlone ==
  (\E p \in DOMAIN heap : heap[p].type = "input") =>
    scopes = <<>> /\ \A p \in DOMAIN heap : IsAlive(p) => heap[p].type = "input"

Symmetry == Permutations(Addr)

=============================================================================
