CONSTANTS
    Words <- MCWords
    Numbers <- MCNumbers
    Value <- MCValue
    Begins <- MCBegins
    Files <- MCFiles
    NumDecls = 3
    Grammars <- MCGrammars
    RoundBound = 12
SPECIFICATION GenSpec
INVARIANTS
    GrammarIsWritten
    AttributesAgree
    CoversAllCases
    ResultsAreExact
PROPERTY FrontEnds
CHECK_DEADLOCK FALSE
