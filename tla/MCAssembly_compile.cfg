SPECIFICATION AssemblySpec
CONSTANTS
  Names = {X, Y}
  Graves <- SomeGraves
  MaxGraves = 5
  MaxDepth = 2
  MaxRun = 5
SYMMETRY Symmetry
CHECK_DEADLOCK FALSE
INVARIANTS
  NoFalseRejection
  NamesFound
  UniversesSafe
  FollowsSource
  LabelsUnique
  SlotsAllocated
