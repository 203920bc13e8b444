CONSTANTS
    BLOCK_WORDS = 4
    ROUNDS = 5
    BlkDepth = 1
    NblkDepth = 1
    MidDepth = 1
    WDepth = 2
    AloneLens = {0, 1, 2, 3, 4, 6, 7, 8, 9, 10, 11, 12, 13, 15, 16, 17, 23, 24}
    MsgLens = {5, 24}
    MaxMessages = 3
    MaxBlocks = 3
SPECIFICATION Spec
INVARIANT
    NothingLeftBehind
PROPERTIES
    IsHashFunction
    AnnouncedBlocksAreSent
    CallReturns
