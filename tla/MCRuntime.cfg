CONSTANTS
    Tables <- MCRunTables
    StackLen = 2
    Garbage = {0}
    TextLengths <- MCRunTextLengths
    InputBound = 6
    MemoryBound = 24
    DefaultBufferLen = 2
    MinBufferFill = 1
    ReadSizes = {1, 2}
    TextBound = 6
    PositionBound = 8
    Newline = "n"
    Unset = "?"
    Eof = "eof"
    GivenTexts <- MCGivenTexts
SPECIFICATION RunSpec
INVARIANTS
    StackIsPath
    TextLossNeedsEmptyRule
    OverflowNeedsEmptyRule
    ValuesAreOwn
    ParsesLanguage
    BufferHoldsText
PROPERTIES
    RunEnds
    TokensAreMunches
CHECK_DEADLOCK FALSE
