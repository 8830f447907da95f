CONSTANTS
    Tables <- MCRecoveringTables
    StackLen = 2
    Garbage <- MCGarbage
    TextLengths <- MCTextLengths
    InputBound = 6
    MemoryBound = 24
SPECIFICATION Spec
PROPERTY RecoveryEnds
CHECK_DEADLOCK FALSE
