SPECIFICATION Spec
CONSTANTS
  MaxTokens = 21
INVARIANTS
  Verdict
  TreeReadsBack
  ReadsBeyondOnly
  ParseInv
