SPECIFICATION AssemblySpec
CONSTANTS
  Names = {X, Y}
  Graves <- SomeGraves
  MaxGraves = 4
  MaxDepth = 2
  MaxRun = 0
SYMMETRY Symmetry
CHECK_DEADLOCK FALSE
INVARIANTS
  HandlesScope
