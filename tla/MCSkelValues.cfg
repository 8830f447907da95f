CONSTANTS
    Tables <- MCChainTables
    StackLen = 2
    Garbage <- MCGarbage
    TextLengths <- MCTextLengths
    InputBound = 4
    MemoryBound = 24
SPECIFICATION Spec
PROPERTY ChainsKeepValues
CHECK_DEADLOCK FALSE
