SPECIFICATION FairSpec
CONSTANTS
  Addr = {a1, a2, a3}
  Null = Null
  universal_dead = universal_dead
  NumVars = 2
  Texts <- OneCharacter
  Shapes <- LeakyShapes
  Imports = {"abstract", "universe"}
  MaxDepth = 2
  MaxDie = 2
  MaxRefcount = 3
INVARIANTS
  VariablesBound
  GravesInv
PROPERTIES
  ImplementsHeap
  GraveCompletes
