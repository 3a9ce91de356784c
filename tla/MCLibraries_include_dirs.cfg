SPECIFICATION Spec
CONSTANTS
  Libs = {L1, L2}
  Directories <- TwoDirectories
  Programs <- SomePrograms
  Texts <- PlainTexts
  MaxOpen = 3
INVARIANTS
  SearchesDirectories
