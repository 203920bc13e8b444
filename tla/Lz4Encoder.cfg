SPECIFICATION Spec
CONSTANTS
  TokenMax = 2
  LenMax = 2
  OffBase = 2
  InputSizes = {0, 1, 3, 15}
  LitDepth = 5
  RecDepth = 1
  MaxLitCount = 5
  MaxMatch = 10
  MaxOffset = 2
  LeftBytes = 2
INVARIANTS
  TypeOK
  NoCircularWait
  LiteralsComeFirst
  LiteralsOfTheRun
  NothingLeftBehind
  Part2StopsLast
  StoredBlockDecodes
PROPERTY
  BlockFinishes
