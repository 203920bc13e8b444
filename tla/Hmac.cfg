CONSTANTS
    WordBytes = 2
    blockSize = 4
    HashBytes = 2
    KeyLens = {2, 4, 6}
    MsgLens = {0, 3}
    MaxMessages = 2
    PadDepth = 1
    FlagDepth = 1
    DataDepth = 1
    HashDepth = 1
    FDepth = 1
SPECIFICATION Spec
INVARIANT
    TagsOfTheirMessages
PROPERTY
    CallReturns
