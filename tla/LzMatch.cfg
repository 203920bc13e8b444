SPECIFICATION Spec
CONSTANTS
  Bytes = {0, 1}
  InputSizes = {0, 9}
  MATCH_LEN = 3
  MIN_MATCH = 2
  LZ_MAX_OFFSET_LIMIT = 7
  MATCH_LEVEL = 2
  MIN_OFFSET = 1
  LEFT_BYTES = 1
  MAX_MATCH_LEN = 5
  BOOSTER_OFFSET_WINDOW = 3
  ShortLen = 2
  FarOffset = 3
  Slots = {0, 1}
  Hash <- MCHash
  Depth = 2
  Lags = {0, 1}
INVARIANTS
  TypeOK
  EveryItemIsTrue
  ItemsFitEncoder
  InputIsCovered
  ComparedByteIsOld
PROPERTY
  AllDone
