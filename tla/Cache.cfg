SPECIFICATION Spec
CONSTANTS
    ramRow = 1
    groupRamPart = 2
    dataOneLine = 2
    TAGS = 4
    QUE = 2
    MEMS = {0, 1}
    Indexes = {0, 3, 4, 9}
    AddrDepth = 2
    DataDepth = 1
    MaxReads = 4
INVARIANTS AnswersAreTheMemory EndFlagIsLast
PROPERTIES NoNeedlessFetch CallReturns
