SPECIFICATION Spec
CONSTANTS
  NUM_BLOCK = 2
  BURST_SIZE = 2
  WordSize = 2
  BlockWords = 5
  DataDepth = 2
  SizeDepth = 1
  OutDepth = 1
  EosDepth = 2
  OutSizes = {0, 1, 5, 8, 9}
INVARIANTS
  UpsizerNeverStuck
  WordsComeFirst
  NothingLeftBehind
PROPERTIES
  ImplementsTransfer
  CallReturns
