CONSTANTS
    Grammars <- MCInexact
    PrefixBound = 4
    PropagationBound = 40
    PastEnd = 0
    RoundBound = 12
    SentenceBound = 4
SPECIFICATION TablesSpec
INVARIANT LookaheadSetsAreExact
CHECK_DEADLOCK FALSE
