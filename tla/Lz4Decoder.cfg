CONSTANTS
    TokenMax = 3
    LenMax = 9
    OffBase = 8
    PARALLEL_BYTES = 2
    HISTORY_SIZE = 64
    RamLag = 4
    SeqDepth = 1
    LitDepth = 1
    InfoDepth = 1
    Files <- AllFiles
SPECIFICATION Spec
INVARIANT
    OutputIsDecoded
PROPERTY
    CallReturns
