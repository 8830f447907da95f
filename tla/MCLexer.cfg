CONSTANTS
    Size = 3
    StringBound = 3
    Inputs <- MCInputs
SPECIFICATION Spec
INVARIANTS
    TypeOK
    ClassesAreCoarsest
    DfaAcceptsLanguage
    PredSetsClosed
    CopyIsExact
    WantedTokenFound
    ClassesAreEquivalence
PROPERTIES
    NothingDecidedForAll
    PackKeepsTokens
    LexerEnds
CHECK_DEADLOCK FALSE
