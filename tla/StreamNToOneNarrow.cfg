CONSTANTS
    NSTRM = 3
    WIN = 1
    WOUT = 1
    LCM = 3
    InDepth = 2
    BufDepth = 1
    MaxData = 1
SPECIFICATION Spec
INVARIANT
    EveryWordIsDelivered
