SPECIFICATION Spec
CONSTANTS
  Libs = {L1, L2}
  Directories <- TwoDirectories
  Programs <- SomePrograms
  Texts <- SomeTexts
  MaxOpen = 3
INVARIANTS
  Inserts
  LibrariesSilent
  MissingOnly
  LibrariesInv
PROPERTIES
  Ends
