SPECIFICATION Spec
CONSTANTS
  NUM_BLOCKS = 2
  BURST_SIZE = 2
  WordSize = 2
  BlockWords = 5
  DataDepth = 3
  SizeDepth = 1
  OutDepth = 1
  InputSizes = {0, 3, 8, 9}
INVARIANTS
  TypeOK
  BurstNeverStuck
  WordsComeFirst
  NothingLeftBehind
PROPERTIES
  ImplementsTransfer
  CallReturns
