SPECIFICATION Spec
CONSTANTS
  Addr = {a1, a2, a3}
  Null = Null
  universal_dead = universal_dead
  NumVars = 2
  Texts <- OneCharacter
  Shapes <- AllShapes
  Imports = {"abstract", "universe"}
  MaxDepth = 2
  MaxDie = 1
  MaxRefcount = 2
SYMMETRY Symmetry
INVARIANTS
  TypeOK
PROPERTIES
  DeathByKill
