\* The depths in the proportion of the code: lit_outStream holds less than
\* MAX_LIT_COUNT literals (512 against 4096 there).
SPECIFICATION Spec
CONSTANTS
  TokenMax = 2
  LenMax = 2
  OffBase = 2
  InputSizes = {0, 1, 3, 13}
  LitDepth = 3
  RecDepth = 1
  MaxLitCount = 5
  MaxMatch = 9
  MaxOffset = 2
  LeftBytes = 2
INVARIANT NoCircularWait
