CONSTANTS
    NSTRM = 2
    WIN = 1
    WOUT = 3
    LCM = 6
    InDepth = 2
    BufDepth = 1
    MaxData = 3
SPECIFICATION Spec
INVARIANT
    EveryWordIsDelivered
PROPERTY
    CallReturns
