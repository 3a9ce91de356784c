SPECIFICATION Spec
CONSTANTS
  Addr = {a1, a2, a3}
  Null = Null
  universal_dead = universal_dead
  NumVars = 3
  Texts <- OneCharacter
  Shapes <- NoShapes
  Imports = {"abstract"}
  MaxDepth = 0
  MaxDie = 1
  MaxRefcount = 2
SYMMETRY Symmetry
PROPERTIES
  KillReachesHalves
