SPECIFICATION Spec
CONSTANTS
  MaxText = 5
  MaxTokens = 3
INVARIANTS
  ScansOnce
  StringsEscaped
  TokenizeInv
CHECK_DEADLOCK FALSE
