SPECIFICATION Spec
CONSTANTS
  Addr = {a1, a2, a3, a4, a5}
  Null = Null
  universal_dead = universal_dead
  NumVars = 3
  Texts <- OneText
  Shapes <- NoShapes
  Imports = {"abstract", "input"}
  MaxDepth = 1
  MaxDie = 1
  MaxRefcount = 3
SYMMETRY Symmetry
CONSTRAINT InputsAlone
INVARIANTS
  NoLeak
  RefsCounted
  LeakInv
  Defined
PROPERTIES
  HalvesFixed
  ImplementsHeap
