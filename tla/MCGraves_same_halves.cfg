SPECIFICATION Spec
CONSTANTS
  Addr = {a1, a2, a3, a4, a5}
  Null = Null
  universal_dead = universal_dead
  NumVars = 3
  Texts <- OneCharacter
  Shapes = {"same_halves"}
  Imports = {"abstract"}
  MaxDepth = 0
  MaxDie = 1
  MaxRefcount = 3
SYMMETRY Symmetry
INVARIANTS
  Defined
