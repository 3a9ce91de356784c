----------------------------- MODULE MCAssembly -----------------------------
(***************************************************************************)
(* Instances of Assembly for TLC.                                          *)
(***************************************************************************)
EXTENDS Assembly, TLC

Pairs == {p \in Names \X Names : p[1] # p[2]}

SomeGraves ==
       {Import(x, type) : x \in Names, type \in {"abstract", "universe"}}
  \cup {Bifurcate(p[1], p[1], p[2]) : p \in Pairs}
  \cup {Bifurcate(p[1], p[2], p[1]) : p \in Pairs}
  \cup {Die(<<x>>) : x \in Names}
  \cup {ThisDie, Out("s"), Out("t")}

Symmetry == Permutations(Names)

=============================================================================
