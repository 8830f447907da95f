CONSTANTS
    Grammars <- MCGrammars
    PrefixBound = 4
    PropagationBound = 40
    PastEnd = 0
    RoundBound = 12
    SentenceBound = 4
SPECIFICATION TablesSpec
INVARIANTS
    TablesTypeOK
    PredIsConverse
    AutomatonIsValid
    IncludesAssertions
    LookaheadsFollowMarks
    TableParsesLanguage
    AcceptsAreEdges
    FollowsAreReal
PROPERTY TablesEnd
CHECK_DEADLOCK FALSE
