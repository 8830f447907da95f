CONSTANTS
    Tables <- MCEmptyRuleTables
    StackLen = 2
    Garbage <- MCZeroed
    TextLengths <- MCTextLengths
    InputBound = 6
    MemoryBound = 24
SPECIFICATION Spec
INVARIANT StacksHold
CHECK_DEADLOCK FALSE
